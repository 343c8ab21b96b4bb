# libcmini in TLA+

libcmini is a small C library for programs on Atari TOS, MiNT and pTOS. This directory holds TLA+ modules of as much
of it as has state or an algorithm worth following, TLC configurations that check them on small instances, and proofs,
checked by TLAPS, of what holds for all sizes. Source paths are relative to `src/`; a file without a directory is in
`sources/`.

1. [The system](#1-the-system): components, state, interactions, what is hard
2. [Modules and code](#2-modules-and-code)
3. [Runs](#3-runs): properties, bounds
4. [Fairness and deadlock](#4-fairness-and-deadlock)
5. [Proofs](#5-proofs)
6. [What the code does otherwise](#6-what-the-code-does-otherwise): the three violated properties, and divergences
   met on the way
7. [What is not modelled](#7-what-is-not-modelled)
8. [Plan](#8-plan)

To check a run: `tlc -workers 2 -config Heap.cfg Heap.tla`; to check proofs: `tlapm HeapProofs.tla`.
`PROJECT.json` maps every definition to the lines it models.

## 1. The system

The library has no threads and no signals of its own. Every function runs to completion between two calls of the
program. What interleaves is the *program's* calls, the *callbacks* (`atexit` functions), *GEMDOS* underneath, whose
answers the library does not choose, and, on MiNT, *other processes* on the same files. Much state outlives a call:
lists, static variables, flags in a `FILE`, positions kept by GEMDOS.

| component | state | operations | correct when |
|---|---|---|---|
| heap (`malloc.c`, `free.c`, `realloc.c`, `calloc.c`) | circular list of free chunks and hunk headers, `MINHUNK`, `MAXHUNK`; hunks lent by `Malloc` of GEMDOS | `malloc`, `calloc`, `realloc`, `free`, `__mallocChunkSize` | the list is sorted and doubly linked, chunks tile the hunks, free neighbours are merged, empty hunks go back, blocks never overlap, a failing call loses nothing |
| streams (`fopen.c`, `fdopen.c`, `freopen.c`, `fclose.c`, `fcloseall.c`, `stdio.c`) | list `__stdio_head` of `FILE`s, each with handle, mode and flags; GEMDOS handles | open, reopen, close one or all | no `FILE` and no handle is lost on any error path; a file is emptied only when asked; access and position are those of the mode |
| text output (`fwrite.c`, `putc.c`, `fputs.c`, `puts.c`, `vfprintf.c`) | `__last_char`, `__error`; a buffer for the time of a call | `fwrite` and what calls it | the device holds the text with CR LF ends however it is cut into calls and bufferfuls; a full count means written |
| input (`fgetc.c`, `ungetc.c`, `fgets.c`, `fread.c`, `fseek.c`, ...) | `__pushback`, `__eof`, `__error`, GEMDOS' position, `fgets`' static last character | read, push back, seek, clear | what is read is what is next; EOF only at the end; seeking forgets what was pushed back |
| program end (`atexit.c`, `exit.c`, `__main.c`) | array `_at_exit`, count `_num_at_exit` | `atexit`, `exit`, `abort`, `_exit` | everything registered runs once; exit ends |
| startup (`main.c`, `minimain.c`) | basepage, TPA, `environ`, `argv`, `_stksize` | `_crtinit`, `parseargs` | the program gets the arguments meant, and a stack that fits its memory and does not meet them |
| option parser (`getopt.c`) | `optind`, `optarg`, place inside an element | `getopt` | every option and argument once, in order |
| environment (`setenv.c`, `getenv.c`) | `environ`, `last_environ`, the arrays in memory | `setenv`, `unsetenv`, `getenv` | a map from names to values; a failing call changes nothing |
| directories (`opendir.c`, `readdir.c`, `seekdir.c`, `findfirst.c`, `findnext.c`, ...) | per `DIR` and per `ffblk` a DTA, a status, `dirname`; GEMDOS' current DTA | open, read, rewind, seek, tell, close, find, `stat` | interleaved searches do not disturb each other |
| `open`, `remove`, `unlink` | handles, files | up to four GEMDOS calls each | `O_EXCL`, `O_TRUNC`, access mode as asked; one thing removed; no handle lost, whatever others do meanwhile |
| handles (`read.c`, `write.c`, `lseek.c`, `fstat.c`, `filelength.c`, `isatty.c`, ...) | GEMDOS' position of a handle | one call each; the last three ask by moving the position, `fstat` by writing a byte back | what is told was true; position and bytes are as they were |
| drives (`chdir.c`, `getcwd.c`, `setdisk.c`, ...) | GEMDOS' current drive, and a directory for each drive | | what `getcwd` gives leads back |
| sorting, searching (`qsort.c`, `bsearch.c`) | the array, a stack of partitions | | sorted, in bounds; found if there |
| random numbers (`rand.c`) | `_lseed` | `rand`, `srand` | exact in 32 bits |
| cookie jar (`getcook.c`) | the system's jar | `Getcookie` | finds what is there, stays inside |
| memory moves (`arch/m68k/bcopy.S`, `bzero.S`, `generic/memcpy.c`) | registers and memory | `memmove`, `memcpy`, `bcopy`, `memset`, `bzero` | all bytes and no others; no odd word access |
| tokens (`strtok.c`, `strtok_r.c`, `strsep.c`, `strchrnul.c`) | `strtok`'s static place, NULs in the strings | | every token once, with several strings in turns |
| native features (`nf_ops.c`, `nf_*.c`) | whether they were found; vector, signals and stack while they are looked for | `nf_init`, `nf_get_id`, the features | all that was bent is put back, `SIGSYS` excepted; features are found where they are and called only there |
| waiting (`sleep.c`, `delay.c`, `clock.c`) | the system's 200 Hz counter | | never too early, and no later than the next look |
| formatted output (`doprnt.c`, `vsnprint.c`, ...) | flags, width, precision, pad; place in the buffer | the `printf` family | the C standard's text; never outside the size |
| formatted input (`doscan.c`, `strtol*.c`, `strtod.c`) | character read ahead, counts | the `scanf` family, `strtol`, `strtod`, `itoa` and their kind | place in the stream kept; the C standard's values |
| calendar (`gmtime.c`, `mktime.c`, `tzset.c`, `timeoday.c`, `strftime.c`, ...) | clock, `timezone`, `tzname`, kept `TZ` | | dates and weeks agree with a calendar that counts days |
| strings and tables (`str*.c`, `mem*.c`, `ctype.c`, `strerror.c`) | none | | the C standard's results; nothing written or looked at outside |
| the rest | | single GEMDOS wrappers, the arithmetic of doubles, machine code, headers | see [section 7](#7-what-is-not-modelled) |

How they interact:

- The startup builds `environ` and `argv` behind the bss, *then* measures the TPA and makes the stack above them
  (`_crtinit` calls `parseargs`); `setenv` later moves `environ` into the heap; `tzset` and `getenv` read it.
- `exit` walks the array that `atexit` grew with `realloc`; `__main` has put the finalizers in front. `fopen` and
  `opendir` take their structures from the heap. The heap, the streams and the directories take memory, handles and
  searches from GEMDOS.
- `printf` is `doprnt` with a function that puts one character: into memory (`vsnprintf`) or to a stream (`putc`,
  which is `fwrite` of one). `scanf` is `doscan` over `fgetc` and `ungetc`, or over a string.
- `fread`, `fgetc` and `fgets` share GEMDOS' position of a handle with everything else that uses the handle, and only
  some of them look at the pushed back character.
- `open` and `fopen` ask `__is_mint`, which `Getcookie` has answered.

What is hard to test here: error paths in the middle of calls of several steps (`realloc`, `setenv`, `fopen`, `open`,
`atexit`); state that outlives a call and is cut anywhere (CR before LF, a pushed back character, a read-ahead
character, a place inside an argument); the order of hunks that GEMDOS gives; unrolled loops that are entered in the
middle; loops without a test for the end; arithmetic near the ends of a word. `PROJECT.json` lists 40 such hazards at
their lines.

## 2. Modules and code

Three kinds of module: components, `MC...` modules with the values of a run that a `.cfg` cannot write (`Heap`,
`Streams`, `Stdio`, `Environ` and `Strings` need none), and `...Proofs`, which stand on `Induction`. Small parts that
do not meet are composed by a module with a variable that says which of them runs (`part`, `used` or `doing`), so that
they are checked in one run; the parts that do meet pass their values on.

| module | code | state and actions |
|---|---|---|
| `Heap` | `malloc.c`, `free.c`, `realloc.c`, `calloc.c`, `mallint.h` | `heap` is the headers by address (`valid`, `next`, `prev`, `size`, `sbrk`), `hunks` what GEMDOS has lent, `live` the program's blocks. One call is one action: `Malloc`, `Calloc`, `Free`, `FreeIgnored` (a pointer that `free` does not take), and `realloc` by its ways out: `ReallocNull`, `ReallocZero`, `ReallocStale`, `ReallocDown`, `ReallocInPlace`, `ReallocExtend`, `ReallocUp`. GEMDOS places a hunk anywhere there is room or refuses. |
| `Allocator` | the promise of the above | `live` alone: blocks are acquired, released, resized where they are or moved clear of the old place |
| `Streams` | `fopen.c` ... `fcloseall.c` | `FILE`s, list, handles, files. Each call is an action, with every GEMDOS call in it that may fail; `fcloseall` is one step per stream. |
| `TextOutput` | `fwrite.c`, `putc.c`, `fputs.c`, `puts.c`, `vfprintf.c` | a call is one action, bufferful by bufferful: copy with translation, `Fwrite`, which may be short or fail; `puts` is two calls of `fwrite`, `vfprintf` one for each character |
| `TextInput` | `fgetc.c`, `ungetc.c`, `fgets.c`, `fread.c`, `fseek.c`, ... | `pos` is GEMDOS', `stream` the flags and the pushed back character; `call` is what the last call gave |
| `Stdio` | the two above (it extends `TextInput` and has an instance of `TextOutput`) | a program writes one stream or reads the others |
| `ParseArgs` | `parseargs` in `main.c` | character by character through the basepage; argument strings are written by an external caller (`words`, `quoted`, `ARGV`) and must come back |
| `Startup` | `_crtinit` in `main.c` | `Measure`, sizes, check, with words that wrap |
| `GetOpt` | `getopt.c` | one call per step; the element is a sequence of characters |
| `AtExit` | `atexit.c`, `exit.c`, `abort.c`, `_exit.c`, `__main.c` | the array, the pointer that `exit` moves along it, the count; functions may call `atexit` and `exit` |
| `Process` | the four above as one life | runs each from all its initial states, and follows three programs from the basepage through the stack to their options |
| `Environ` | `setenv.c`, `getenv.c` | arrays in blocks that `realloc` extends or moves; `environ`, `last_environ` |
| `Environment` | the promise of the above | a map from names to values |
| `Directories` | `opendir.c` ... `closedir.c`, `findfirst.c`, `findnext.c`, `stat.c` | `DIR`s and `ffblk`s with their DTAs, and the program's own search between the calls; `Fsfirst` and `Fsnext` external |
| `Open` | `open.c`, `remove.c`, `unlink.c` | one step per GEMDOS call, another process between them |
| `Handles` | `read.c`, `write.c`, `lseek.c`, `close.c`, `filelength.c`, `fstat.c`, `isatty.c`, `getftime.c` | one step per GEMDOS call, another process between them; `held` is what the file has been since a call began |
| `Drives` | `chdir.c`, `getcwd.c`, `setdisk.c` | a drive, a path for each drive; `getcwd` with buffers of every size |
| `Files` | the four above | a program uses one of them |
| `Sort` | `qsort.c` | a step is one comparison of an inner loop; one array with its `MAX_THRESH`, a stack of partitions |
| `Search`, `Rand`, `Cookies` | `bsearch.c`; `rand.c`, `srand.c`; `getcook.c` | a step is one turn of the loop, or one call |
| `Memory` | `arch/m68k/bcopy.S`, `bzero.S`, `generic/memcpy.c` | registers `a0 a1 d0 d1` and memory; a step is one label with its loop's turn |
| `Tokens` | `strtok.c`, `strtok_r.c`, `strsep.c`; `strchrnul.c` | one call, or one turn of the loop |
| `NatFeats` | `nf_ops.c`, `nf_name.c`, `nf_vers.c`, `nf_stder.c`, `nf_shutd.c`, `nf_debug.c` | `step` is the place in `nf_init`; registers and the words on the stack as far as the trap and its handler touch them |
| `Clock` | `sleep.c`, `delay.c`, `clock.c` | a step is a look at the counter, or a tick of it |
| `Utilities` | the eight above (it extends `Sort`, `Search` and `Rand`, and has instances of the others) | a program uses one of them |
| `Printf` | `doprnt.c`, `vsnprint.c` | a step is one item of the format; the variables of the call outlive it. A floating point number is an exact decimal one, which `normalize_float` brings below one and rounds |
| `Scanf`, `Numbers` | `doscan.c`; `strtol.c`, `strtoul_int.c`, `strtod.c`, `itoa.c`, ... | a step is one item; number conversions are functions of a text |
| `Calendar` | `gmtime.c`, `mktime.c`, `ftimtotm.c`, `timeoday.c`, `localtime.c`, `tzset.c`, `strftime.c` | a clock that goes on by itself between GEMDOS' two answers; `TZ` changes between the calls |
| `Conversions` | the four above | a program uses one of them |
| `Characters`, `Strings` | `ctype.c`, `strerror.c`, `perror.c`; `str*.c`, `mem*.c` | a call per initial state; the tables of flags and texts are functions. A result has what was written and how many bytes were looked at |

Data is abstracted to what the properties tell apart: a text is a sequence over a few characters, an item of an array
a number, a file's name a model value. In `Heap` the contents of blocks are left out: that a moved block is clear of
its old place is what makes the copy right. In `Printf` and `Numbers` the conversions *are* the subject and are
modelled digit by digit.

## 3. Runs

Each run asks one question. "Violation" runs show a disagreement between the code and its own comments (section 6).
All others pass. The numbers are distinct states.

| run | question | properties | bounds | states |
|---|---|---|---|---|
| `heap` | does any sequence of calls take the heap apart, and does it keep the abstract promise? | `HeapSound`, `FreeIsFound`, `GrowsOnlyWhenFull`, `ImplementsAllocator` | memory of 36 units, header 2, three places for hunks of 12 or 24, three blocks, requests {0, 3, 6} | 38,824 |
| `streams` | is anything lost, or emptied, on any path through open and close? | `StreamsSound`, `OpensAsAsked`, `FcloseallEnds` | two `FILE`s, two handles, a file that may not exist and a read-only one, an `Fopen` that may refuse any | 303,096 |
| `stdio` | does the device hold the text, wherever it is cut and whatever fails, and is text read in order? | `OutputSound`, `CountsTell`, `InputSound`, `ReadsFromPlace` | out: a buffer of 3, five characters in calls of two to four, of one, by `puts` and by `vfprintf`; in: one stream (plain, binary, console), all texts of up to three characters out of a letter, CR, LF; seeks from the start, the end and the place | 265,498 |
| `text_input_pushback` | does `fread` give the pushed back character? (violation) | `PushedBackIsNext` | four texts | about 250 |
| `process` | does a program get its arguments, its stack, its options and its end? | `CallerUnderstood`, `StaysInBuffer`, `StackFits`, `LineReported`, `AllHaveRun`, `PartsEnd` | arguments: up to two of two characters or three of one, three ways to send them; words of ten bits; lines of up to three of eleven elements; four registered functions | 56,497 |
| `environ` | are `setenv`, `unsetenv` and `getenv` a map? | `EnvironSound`, `ImplementsEnvironment` | two names, two values, two blocks, four entries, of which the program starts with up to three | 29,773 |
| `environ_full` | is `environ` always valid memory? (violation) | `EnvironValid` | three names, and no memory for a string also behind an array that has moved | about 800 |
| `files` | do searches, opens and questions hold against each other and another process? | `SearchesInOrder`, `OpensAndRemoves`, `TellsTheFile`, `SeekLeadsBack`, `Returns` | below | 365,800 |
| `files_relative` | does `rewinddir` lead back in a directory opened by a relative name? (violation) | `DirnameLeadsBack` | a folder in a folder, one stream | about 10,000 |
| `utilities` | are the algorithms right at their boundaries? | `InBounds`, `Sorted`, `SearchSound`, `RandIsExact`, `SearchesAnswer`, `MovesWhole`, `TokensInOrder`, `NearTheMachine`, `AllReturn` | below | 247,008 |
| `conversions` | do values and texts agree? | `WritesWhatFits`, `FormatsLikeC`, `ReadsLikeC`, `ConvertsLikeC`, `TellsTheTime` | below | 324,537 |
| `texts` | do the string functions give what C says, and look at no more? | `StringsLikeC`, `TablesTell` | below | 16,651 |

What the properties say beyond the table:

- `HeapSound` is the list's order, the hunks on it, the tiling and the program's blocks; `FreeIsFound` that no two
  free chunks are neighbours in a hunk, no hunk is free as a whole, and following the links node by node ends where
  the model's sets say; `GrowsOnlyWhenFull` that a hunk is taken only when no free chunk would do.
- `OpensAsAsked`: no file is emptied but by `w`, or by an `a` whose `Fopen` GEMDOS has refused although the file is
  there (section 6); read and write access are those of the mode; `a` starts at the end. `OpensAndRemoves`: no handle
  is left open behind an error, with `O_EXCL` only a file of one's own is opened on MiNT; with `O_TRUNC` the file has
  been emptied or made anew, also where MiNT refuses `FTRUNCATE`; access as asked; `remove` takes away one thing or
  nothing.
- `TellsTheFile`: what `filelength`, `fstat` and `isatty` tell was true at one moment of the call, whatever the other
  process did; when it did nothing, the bytes are those of before; and a `chdir` to what `getcwd` gave leads back (but
  for a root, section 6).
- `OutputSound`: as long as every write goes through, the device holds the translation of all that was sent.
  `CountsTell` is for writes that are short or fail.
- `ReadsFromPlace`: what `fgetc` and `fgets` give, followed by what is ahead after it, is what was ahead before it. A
  seek leads to the place asked for, counted from the start, the end or the next character to read, and then nothing
  is pushed back; but one relative to the place goes one too far when a character was (section 6). A seek that fails
  changes nothing that is ahead. `InputSound` has the EOF flag and the shape of a line.
- `CallerUnderstood`: what the caller meant is what `argv` and `environ` hold, in each of the three ways of sending.
  `StaysInBuffer`: the command line is never longer than the buffer in front of `argv`, the count that `parseargs`
  returns covers all it has written, and the stack is above it.
- `ImplementsAllocator` and `ImplementsEnvironment` are refinements: every call is a step of the abstract module, or
  changes nothing that it sees. In `environ` memory may be lacking for the array and for a string, but for a string
  not behind an array that has moved, which is what `environ_full` shows to go wrong. The program may also set
  `environ` back to its first array, which no abstract step does: `ProgramResets` allows it.
- `SeekLeadsBack`: after `seekdir(telldir())` in a directory opened by an absolute name the same entries are ahead,
  and a question about a handle leaves its position. `DirnameLeadsBack` says the same of the directory whatever the
  name.
- `PartsEnd`: `parseargs` returns; a program that asks `getopt` until -1 comes to an end, unless it meets an illegal
  letter, after which it never does; `exit` ends the program, unless a function it calls calls `exit`: then a word
  behind the array is called (`phase` is "lost"), and nothing is claimed of what follows.
- `SearchSound`: `bsearch` gives a place of the key or the key is not there, and it looks at items of the array only.
  `RandIsExact`: no product overflows and each call is one multiplication modulo M. Every part of `utilities` has its
  types in its own property.
- `Sorted` has the permutation and, at the end of the quicksort, that no item is further than `MAX_THRESH` from its
  place, which is what the insertion sort relies on. `InBounds` is about its loops without a test for the end, and the
  stack's logarithm.
- `NearTheMachine`: after `nf_init`, by whichever way it comes back, stack, vector and `SIGILL` are the program's
  again, and `SIGSYS` the library's from the first call under MiNT on. On an emulator a function runs what was meant,
  and only where that is; elsewhere the second opcode runs only behind a detection on a secure MiNT (section 6).
  `sleep` and `delay` last as long as they are to.
- `FormatsLikeC`, `ReadsLikeC` and `ConvertsLikeC` compare with definitions of the C standard's text, written without
  regard to the code, wherever the code promises to follow it; section 6 lists where it does not.
- `FormatsLikeC` has the floating point directives too, where the number is not in the middle between two texts and
  does not round up to the next power of ten below one.
- `TellsTheTime`: `gmtime`, `mktime` and `ftimtotm` agree with the calendar; never behind the clock; `localtime` uses
  the zone `TZ` means now; `mktime` leads back, from a `struct tm` and from `strftime`'s text; weeks go on by one.
- `StringsLikeC`: the result and the memory of each function are those of a definition with sequences, and no byte
  outside is written. A function with a bound looks at nothing behind it; but `strncmp` looks at one byte there, and
  `strndup` at all up to the NUL. For a bound that a `long` does not hold, `strncpy` writes nothing and `strncmp`
  finds no difference, which C does not say (section 6). `TablesTell`: the two tables and the macros agree with the
  classes of ASCII for every value of a `char` and EOF, and `strerror` finds the text of every number.

Why the bounds are enough:

- *heap*: three hunks are the least for which a chunk list can have a hunk below, between and above others; places 12
  apart make hunks neighbours in memory that must not merge; three blocks in a hunk have one with a neighbour on each
  side. A request of 6 fills a hunk, 3 leaves a rest, 0 is the smallest chunk. `Top` is the memory. What depends on no
  size is proved (section 5).
- *streams*: one `FILE` is open while the other goes through every failing path; with two handles the table is full
  while a `FILE` is free, and the other way round.
- *stdio*: with a buffer of 3 a call of 4 takes one, two or three bufferfuls, the CR falls on each place of the
  buffer, the last one included, and CR LF is cut there, between calls, and between the two calls of `puts`. Three
  characters to read hold CR LF with one in front or behind it. One stream is enough, as streams share only `fgets`'
  static variable, which then starts as another call's.
- *process*: quotes, blanks and the buffer's rounding meet in two arguments; the stack's sizes lie around each
  comparison; option lines hold clusters, an argument in the element or behind it, `--`, `-`, operands, an illegal
  letter, behind which the program goes on asking; functions register functions and call `exit` from within.
- *environ*: a name may stand in the array twice, with another between, or three times; two blocks let `realloc` move
  and come back.
- *files*: a folder of two entries has a first and a last, and a place between; only a root can be empty. Names are
  absolute, or relative to whatever directory is the current one. The file of `open` may be made, deleted and made
  again between any two calls; the fourth incarnation is one more than the calls of `open` can tell apart. The other
  process changes the file of a handle twice (`Others`), which is once more than the shortest question has gaps; a
  file of up to two bytes (`MaxSize`) has a position before, at and behind each. Two drives are one to be on and one
  to go to. One call of the program's own (`findfirst` or a search) is under way at a time.
- *utilities*: all arrays of up to five items of three values, of eleven of two (which reach the quicksort, and its
  stack), of seven of three with partitions of two (inputs with a threshold of 1); a `bsearch` array of nineteen with
  repeated items and gaps; a generator of M = 211 run through its whole period; jars with and without cookies; moves
  of every length up to a block of 24 and beyond two of them, fifteen distances, even and odd addresses (a turn of the
  code's loop is five moves of 44 bytes and one of 36, here one of 16 and one of 8: `Pieces` is a constant); four
  strings taken apart in turns by three functions; 108 machines for `nf_init`, by system, by what traps, by the
  numbers of the features and by what the program does with the signals; a `clock_t` of seven bits with waits up to
  its half, from counts on either side of each end, and up to three ticks between two looks (`MaxLate`); `strchrnul`
  with bytes of three bits, which have all carries the bytes of eight have.
- *conversions*: `printf` formats of three items, one per directive that leaves something behind, into 0, 1, 2, 5 and
  more bytes than any of them needs; and all combinations of flags, width, precision and value of the repository's own
  test (`tests/printf_formatting`), alone, with long ones where an `int` is shorter, and with floating point numbers
  on either side of each power of ten that changes the notation. The default precision is 2 and the largest 3 there,
  where the code has 6 and 10. `scanf`: all texts of three characters over signs, digits, prefixes and blanks, with
  every format of two items. Words of 16 and 18 bits, so that a product or sum leaves them within five digits;
  `strtod` with two digits in each half of its number and exponents up to 7. The calendar day by day for four years on
  either side of 1970, the last days of 1901 and 2037, a leap day; `strftime` into 0, 5 and 40 bytes.
- *texts*: strings of up to three bytes, one of them above 7F, two letters that differ in their case; paths of up to
  five; bounds below, at and above each length, and above `LongMax`, which stands for 2^31; all values of a `char`
  with and without its sign, and EOF; all error numbers of the table and those on either side of them.

Every property has a change of one mapped definition, of the kind a slip in the code would be, that makes TLC find it
violated in its own run (`PROJECT.json`, "mutants"; the operators with `_` and a word behind the name in the modules).

## 4. Fairness and deadlock

The library's functions are plain code on the only thread there is: once called they go on, and nothing they wait for
depends on another actor. So a step *within* a function is weakly fair, and a step that *begins* a call, which is the
program's, is not. Nothing is strongly fair.

- `Streams`: `WF(FcloseallStep)`, the loop of `fcloseall`.
- `Process`: `WF(ParseArguments)` (the loop over the basepage), `WF(ReadOptions)` (a program that asks until it gets
  -1: that is what `PartsEnd` is about), `WF(ExitGoesOn)` (the loop of `exit`; registered functions return, and do not
  register for ever: `MaxRegistered`).
- `Utilities`: `WF(GoesOn)`, the loop of the function that was called, and the timer for `sleep`; `rand`, `strtok` and
  a new `Getcookie` need not be called.
- `Files`: `WF(CallStep)`, the steps of `open` and `remove`; the other process need not do anything, and they return
  without it.

Deadlock is checked in `heap`, `streams` and `environ`, where there is always a call to make. It is off in `process`,
`files`, `stdio`, `utilities`, `conversions` and `texts`: a program ends, a function returns, the text to send or the
clock's days run out (`MaxSent`, `AskedDays`).

## 5. Proofs

TLAPS proves these for every value of the constants that meets the named assumptions, which TLC also evaluates on
every run. "Where" names what a theorem assumes beyond those.

| theorem | module | states | where |
|---|---|---|---|
| `TypeCorrect`, `ListStaysInOrder`, `ChunksAlwaysTile`, `HunksAlwaysTracked`, `BlocksAlwaysHeld`, together `HeapStaysSound` | `HeapProofs` | `Spec => []HeapSound` and each part of it | |
| `FreeIsAlwaysFound` | `HeapProofs` | `Spec => []FreeIsFound` | |
| `HeapGrowsOnlyWhenFull` | `HeapProofs` | `Spec => GrowsOnlyWhenFull` | |
| `HeapImplementsAllocator` | `HeapProofs` | `Spec => ImplementsAllocator` | |
| `StreamsAlwaysSound` | `StreamsProofs` | `Spec => []StreamsSound` | |
| `StreamsOpenAsAsked` | `StreamsProofs` | `Spec => OpensAsAsked` | |
| `OutputIsSound`, `CountsAlwaysTell` | `StdioProofs` | `[]OutputSound`, `CountsTell` | |
| `InputIsSound`, `InputInOrder` | `StdioProofs` | `[]InputSound`, `ReadsFromPlace` | `fread` is called only with nothing pushed back (section 6) |
| `ArgumentsStayInBuffer` | `ProcessProofs` | `[]StaysInBuffer` | sizes are modest |
| `CallerAlwaysUnderstood` | `ProcessProofs` | `[]CallerUnderstood` | callers send what can be said in their way: `Understandable` |
| `StartedWithWhatItNeeds`, `SharesAlwaysFit`, `ProcessStackFits` | `ProcessProofs` | `[]StackFits`: a program that is started keeps what is in use, a stack above it and MINFREE bytes at the top; who asks for a share is refused only when nothing is free | sizes are modest |
| `LinesReported` | `ProcessProofs` | `[]LineReported` | |
| `RegisteredFunctionsRun` | `ProcessProofs` | `[]AllHaveRun` | |
| `StringsAlwaysLikeC` | `StringsProofs` | `StringsSpec => []StringsLikeC` | |
| `EnvironAlwaysSound`, `EnvironImplements` | `StringsProofs` | `[]EnvironSound`, `ImplementsEnvironment` | a string finds memory behind an array that has moved (`FailsAfterMove`, section 6) |
| `FilesSearchInOrder`, `FilesSeekLeadsBack` | `FilesProofs` | `[]SearchesInOrder`, `SeekLeadsBack` | nothing of the names; `SeekLeadsBack` speaks of streams with an absolute one |
| `FilesOpenAndRemove` | `FilesProofs` | `[]OpensAndRemoves` | a system without MiNT runs one program (section 6) |
| `FilesTellTheTruth` | `FilesProofs` | `[]TellsTheFile` | |
| `SortStaysInBounds`, `SortSorts` | `UtilityProofs` | `SortSpec => []InBounds`, `[]Sorted` | |
| `SearchFindsIt`, `SearchStaysInside`, together `SearchIsSound` | `UtilityProofs` | `Spec => []SearchSound` | |
| `NeverOverflows`, `RandIsLehmer`, `SeedStaysInRange`, together `RandStaysExact` | `UtilityProofs` | `RandSpec => RandIsExact` | |
| `StaysNearTheMachine` | `UtilityProofs` | `UtilitiesSpec => []NearTheMachine` | |
| `MovesAlwaysWhole` | `UtilityProofs` | `UtilitiesSpec => []MovesWhole` | |
| `SearchesAlwaysAnswer` | `UtilityProofs` | `UtilitiesSpec => []SearchesAnswer` | |
| `TokensAlwaysInOrder` | `UtilityProofs` | `UtilitiesSpec => []TokensInOrder` | |
| `PartsRun`, `StreamsRun` | `UtilityProofs`, `StdioProofs` | a program that uses one part of `Utilities`, or of `Stdio`, runs that part's specification: what is proved of `Spec`, `SortSpec`, `RandSpec` holds of the composition | |
| `SetInduction`, `Iterates` | `Induction` | induction over the natural numbers with a set in place of a predicate; a step that keeps a set can be taken any number of times | |

The assumptions on the small functions are types and what a program may pass. `MemoryAssumption`: both areas lie in
memory, a turn of the loop moves whole long words. `TokensAssumption`: a name stands for one string, a string has no
NUL in it, NUL is not among the delimiters. `FindAssumption`: bytes have two bits or more, memory is whole long words
and ends in a NUL. `NatFeatsAssumption`: features that are there have different identifiers, whose lower bits are left
for the function. `ClockAssumption`: counts and waits are in a counter's range. `StringsAssumption`: texts have no NUL
in them, an area has room for two of them, and a `long` holds the length of each: `strstr` gives that length to
`strncmp`, which would take a longer one for none.

**The heap.** Assumed are `SizesAssumption` (sizes are natural numbers, the header, alignment, page and word not zero,
hunks start in memory) and `RequestsAssumption` (no request is so near the end of `size_t` that adding a header
wraps). The safety properties are not inductive. What they omit is how the two halves of a step fit together. A chunk
is linked where the first node above it stands, so the next step needs the links in both directions, the nodes' order,
and that nothing stands between two nodes. Absorbing a neighbour needs that it begins where the chunk ends *and* that
both are in one hunk, since a hunk of GEMDOS may begin where another ends. `HeapInv` therefore says: `Layout` (types,
the doubly linked order `InOrder`, chunks of positive size that are disjoint and each in a hunk, each hunk with its
header chunk on the list, tiled), `Held` (the allocated chunks are exactly the program's blocks, each with the room
asked for), and that `MINHUNK`, `MAXHUNK` and `errno` have their types. The argument goes up in layers, none of which
looks into the one below:

1. *links*: `LinkKeepsOrder` and `UnlinkKeepsOrder`: putting a node where `NodeFrom` says, and taking one out, keep
   the doubly linked order. `FirstOfLeast` is from the well-founded order of the natural numbers.
2. *layout*: `AbsorbLayout` (a chunk takes in its free neighbour), `ReleaseLayout` (a hunk goes back), `CarveLayout`
   (a chunk is cut in two), `AddHunkLayout` (a hunk comes in, wherever it lies).
3. *calls*: `FreeResultFacts` and `MallocFacts` put these together to what `free` and `malloc` leave, with what
   happens to chunks that are not theirs. `HeldMore`, `HeldLess` and `HeldResized` are about the program's blocks.
4. *steps*: `MallocInv`, `FreeChunkInv`, `MoveInv` (`realloc` by way of `malloc` and `free`), `ReallocDownInv`,
   `ReallocInPlaceInv`, `ReallocExtendInv`; `NextInv` has one case for each disjunct of `Next`.
5. *tidiness*: `TidyInv` adds to `HeapInv` that no two free chunks touch inside a hunk and no hunk is all free. Lemmas
   like those of 2 say of each step which two chunks it may leave side by side, and that the next one merges them.
   `GrowsOnlyWhenFull` needs the search of the list to have passed every free chunk; `FreeIsFound` needs that walking
   the links node by node, a recursive function, gets through the whole list: by `SetInduction` over the number of
   nodes below a place.

The refinement uses `HeapInv`: allocated chunks are disjoint, so blocks are; each call maps to one abstract step or
changes no block.

**Streams.** `StreamsInv`: the list is a permutation of the allocated `FILE`s (a function from 1 .. n that follows the
links and ends in NULL), each of them has one handle and each open handle is one `FILE`'s or the program's own, and
`fcloseall`'s cursor is at a `FILE` of the list or at its end. `fopen` and `freopen` are proved GEMDOS call by GEMDOS
call, each with what it opens or fails to open (`Gives`), so that every error path is one case. `OpensAsAsked` is an
action property and follows from the same facts about each call.

**Output.** `TranslatesOn` is what all rests on: a text is translated in parts as it is as a whole, if each part is
told the last character in front of it. So the three loops, one within the other, have one kind of invariant: what is
in the buffer, or on the device, followed by the translation of the rest, is the translation of the whole. `Filled` is
that of the loop that fills a buffer, with the CR that filled it while its LF is still to come, `Writing` that of
`fwrite`'s bufferfuls, `Gave` that of `vfprintf`'s calls of `putc`. A count is exact only when all bufferfuls were
written whole. That twice as many turns as characters are enough is `Left`: a bufferful that takes no character is the
CR of an LF, which then is not needed again. `OutInv` ties one call to the next: while nothing has failed,
`__last_char` is CR exactly when the text sent so far ends in CR, and `fflush` counts as an end.

**Input.** What is yet to be read (`AheadOf`) is the pushed back character and the rest of the file. `fgetc` takes its
head, `fread` its front part. The loop of `fgets` is a function defined by recursion; its invariant (`LoopInv`) says
that what it has stored, followed by what is ahead, is what was ahead. `SetInduction` takes it through every turn.

**The life of a program.** `StartupAssumption` bounds the addresses of a TPA by the word; `Modest`, a hypothesis, says
that the size a program asks for does not make the sum overflow. Without it a `_stksize` near 2^31 wraps and the check
for room is passed (section 6). `StartupInv` says what is known in each part of `_crtinit`; the shares need a bound on
rounded quotients of what is free. `ArgsInv` bounds the count of `parseargs` from below by what it has written, part
by part, and the text it collects by what is left of the command line. `StackInv` ties the program's end in the TPA to
that count.

`Understandable`, the hypothesis of `CallerAlwaysUnderstood`, says what each way of sending can express: words are not
empty, hold no blank and have one or more between them, and the first does not begin with a quote (which would
announce quoted names); quoted names are not empty, quotes in them are doubled, one blank stands between two; behind
ARGV= there may be anything; no argument holds a NUL. A variable's value that stands on its own is not empty and has
no "=", and what is no variable does not follow a string that ends with "=", since `parseargs` would join the two. TLC
evaluates it for the messages of the run. `ArgsInv` does not look at the text, so `SentInv` is needed beside it: what
has been read is where it belongs (`environ` is the front of what was meant, the buffer holds the arguments read so
far, each with its NUL), and what has not been read is what is still ahead. It has a part for each part of the code:
`EnvSent` (between two variables, or between a name and its value), `PlainSent` (between or inside words),
`QuotedSent` (behind a name, or inside one, perhaps between the two quotes of a doubled one), `CollectSent` (`argv` is
the front, the buffer the rest), `NullsSent` (the arguments of the list passed so far are emptied again). A step of
`parseargs` takes one piece from what is ahead and puts it behind what has been read, and the lemmas about sequences
in `Induction` say that the two, joined, are what they were.

`OptionsInv`: the letters reported, joined, are the letters of the elements passed and of the front of the one
`getopt` is in. `EndInv`: what has run is the front part of the array up to the place `exit` has reached.

**Environment.** `EnvironSound` is inductive. The refinement is from `IndexIn`, which finds the first string of a
name: `Changed` says what the array becomes where it is replaced, appended or closed up, and `ValueIn` what that makes
of each name's value; the other names' first strings are where they were or one place on.

**The functions on strings.** Each call is a step of its own, so the theorem is about what each step leaves, for texts
of any bytes and any length. `IsText` says that an area holds a text; `LengthIs` and `ScanIs` what the loops that look
for its end find; `Copied` and `Filled` what those that write leave. On these stand one lemma for each way of writing
(`CopiedFront`, `CopiedBehind`, `CopiedEnded`, `CopiedPadded`, `CopiedBytes`) and `OrderAtStop`: the place where a
comparison stops is the first difference of the two texts, or the end of one, and so tells their order, whether or not
a bound comes first. `strncmp` and `strnicmp` differ from it in what they do at that place, and are proved equal
there; `SameUpper` is why a char with its sign loses nothing but the order above 7F. `strstr` is `OccursIs` for every
place. For paths, `SlashEnd` and `NameEnd` are the two kinds of places `basename` and `dirname` look for, each unique;
`ParentIs` says which of them the promise is about and `DirnameIs` that the code ends at the same, in each of its
cases (no slash, one at the start, one at the end, nothing but slashes).

**Files.** `NamesInv` follows `open`, `remove` and `unlink` from GEMDOS call to GEMDOS call: which file the handle in
hand belongs to, what is known of the one under the name although another process may just have replaced it, and that
one handle at most is open. `HandleInv` does it for `isatty`, `filelength` and `fstat`: what each has found out was
true of one of the contents the file has had since the call began (`held`), and where the position is meanwhile.
`DrivesInv`: after `getcwd` the drive and path are those saved. `DirsInv`: what a stream has given is the front part
of its directory as far as `d_off`, its DTA stands there, and what `telldir` has told is a place in it; from that,
reading again from the start to that place leaves the same entries ahead.

**qsort.** `SortInv` has five parts. `Shuffles`: the array is the caller's through a permutation, which is given by
two functions inverse to each other. `Pending`: the parts still to be sorted, the stack with the one in work on top,
lie apart, nothing left of a part is above what is in it and nothing right of it below; two items that are more than
`MAX_THRESH` places apart are in order unless they are in one part. `Narrow`: a part's size, doubled as often as there
are parts under it, is at most the array's, since the larger half is pushed and the smaller worked on; hence the
logarithm. `Walls`: what the left pointer has passed is not above the pivot, what the right one has passed is not
below it, and median-of-three has left an item on each side at which a pointer stops; so the loops that do not test
for the ends stay inside. `Inserting`: the least item was brought to the front, so the insertion stops there.

**rand.** `RandAssumption` has Schrage's condition `M % A < M \div A`, which 16807 and 2^31 - 1 meet; the lemmas take
a seed apart into its quotient and rest and show that both products stay under M, and that one addition of M makes the
remainder the right one.

**bsearch.** `SearchAssumption`: an array of integers in order. `SearchInv`: the key is not below `a`, and not at `b`
or above.

**memmove and memset.** `MemInv` says, label by label (`Placed`): how much of the length is left, in blocks, pairs and
single bytes; that both addresses are even wherever words are moved; and that what lies behind the pointers, or in
front of them, is moved while all else, the overlapped rest of the source included, is as it was. An instruction keeps
it since it reads what no earlier one has overwritten.

**Cookies, strchrnul, tokens.** `JarInv`: only the jar's last entry has no name, and the one that is looked for was
not among those passed. `FindInv`: no byte passed is the character or NUL, and the pointer is a multiple of four
before words are tested. `ZeroShows` is why the test of four bytes by one addition misses none: a zero byte with its
part of the magic number and a carry from below gives no carry, so the hole above it stays as it was; it is proved for
bytes of any number of bits from the definition of the magic number's digits. `TokInv` has, for each string, `Passed`:
the tokens given lie in order in front of the place kept, each followed by a NUL, no character but delimiters lies
between them, and behind the place the string is untouched; beginning another string with `strtok` only takes the
place away.

**nf_init, sleep and delay.** `NfInv` gives for each place in the code what lies on the stack and which handler is in
the vector, by machine; that is where a system that traps, one that does not and one that emulates differ. `ClockInv`:
the difference of two readings of a wrapping counter, read as signed, is the time that has passed as long as that is
below half the range; until then the loop's comparison means what it says.

**Induction.** The library's induction theorems take an operator as a parameter, which the provers at hand cannot
instantiate. `SetInduction` says the same of a set of numbers and is from the least element of a set, which is from
the well-founded order of the naturals; `Iterates` and `IteratesForever` give from it that functions written by
recursion over their argument exist and stay in a set, so that `f[n]` may be replaced by its body. The rest of the
module is what several proofs need of sequences: where the join of a sequence of sequences can be divided, and what
remains.

Only model-checked:

- `Conversions`' properties: `Scanf` and `Calendar` have RECURSIVE operators, which the prover does not take, and with
  them whatever reaches those modules. `TellsTheTime` is among these.
- `TablesTell`: a statement about a finite table: every code, every error number there is and some beyond, which TLC
  goes through completely.
- All liveness (`FcloseallEnds`, `PartsEnd`, `Returns`, `AllReturn`), and with it fairness and `ENABLED`, which the
  prover does not handle. `EnvironValid`, `PushedBackIsNext` and `DirnameLeadsBack` do not hold (section 6).

## 6. What the code does otherwise

Three runs show the code at odds with its own comments.

- **`fread` passes over a pushed back character** (`text_input_pushback`). `fread.c:9` goes straight to GEMDOS;
  `ungetc.c:22` says "Push the character C back onto the input stream of STREAM." The character comes later, out of
  order, with the next `fgetc`. In `stdio` the program calls `fread` only when nothing is pushed back
  (`FreadAnyTime`).
- **`setenv` leaves `environ` pointing at freed memory** (`environ_full`). `setenv.c:96` asks for a string after
  `realloc` has moved `last_environ`; when there is no memory it returns -1 with `environ` and `last_environ` as they
  were. `setenv.c:47-48`: "If this variable is not a null pointer we allocated the current environment." In `environ`
  memory for a string may be lacking too, but not then (`FailsAfterMove`).
- **`rewinddir` and `seekdir` search another directory** (`files_relative`). `opendir.c:97` joins what `Dgetpath`
  gives, which has no backslash at its end, and a relative name: in `A:\a` the name `b` becomes `A:\ab`.
  `opendir.c:87`: "for rewinddir: if necessary, build a relative path"; `include/bits/dirent.h:33-34`: "directory of
  the search (used under TOS for rewinddir)". From a root, where `Dgetpath` gives nothing, the name becomes `A:b`,
  which is right as long as the root is the current directory of that drive.

Others were met while modelling. The models do what the code does; the properties are stated so as not to claim more.

*Streams.* An append takes any refusal of `Fopen` for a missing file (`fopen.c:78`), so its `Fcreate` (`:87`) empties
one that is there and that `Fopen` refused for another reason. `fseek` with `SEEK_CUR` counts from GEMDOS' position
(`fseek.c:24`), which a pushed back character is behind: it goes one too far. `vfprintf` never returns a negative
number: a character that is not written is not counted, and the rest of the text goes on (`vfprintf.c:9`). `fopen`
parses `x` and never uses it (`include/stdio.h:27`). After a failed write `fwrite` keeps `__last_char` of what did not
reach the device, so that a retry of LF has no CR. `fread` and `fwrite` divide by an item size of 0. `fgets` on a
binary stream steps back over a CR that its static variable remembers from another line or stream, and may begin below
its buffer; on a text stream it keeps the CR, where `README.md:101` says line ends are translated back.

*Program start and end.* A function run by `exit` that calls `exit` itself makes it call a word behind the array, as
the count is lowered only after the call (`exit.c:19-20`; `CallWild` in `AtExit`, after which the properties claim
nothing); `abort` is `exit(-1)` and does the same. `_crtinit` looks for room only after `parseargs` has written behind
the bss (`main.c:136`), does not count the 64 bytes it takes off the top of the stack (`main.c:223`), so that a
smaller stack starts inside `argv`, and its sum may wrap (`main.c:170`). An empty quoted argument of the command line
is not kept. `getopt` moves on by nothing at an illegal letter (`getopt.c:43`): a program that goes on asking gets it
for ever (`NoEndAfterIllegal`). `accmain.c` does not look whether `Malloc` gave it a stack.

*Files.* `closedir` returns a variable it has never set (`closedir.c:39`). On a TOS that runs several programs without
MiNT, `O_EXCL` has a gap between looking and creating (`open.c:205`). `open` overwrites the `EISDIR` it has set
(`open.c:145`). `remove` tries `Ddelete`, then `Fdelete`. `getcwd` gives back its buffer unwritten when `Dgetpath` has
failed, and loses the one it has asked `malloc` for when that is too small; it tells a root as "A:", which `chdir`
takes for the directory one is in on that drive. A `chdir` that fails leaves the drive changed. `lseek` returns
GEMDOS' own error and no `errno`. `fstat` takes a file that is empty, or cannot be read, for one that cannot be
written, and writes the byte it has read back into the file. `readdir_r` looks at what `*result` was before.

*Small functions.* `Getcookie(0)` cannot find the zero entry its comment speaks of (`getcook.c:26`). `qsort` does not
look whether `malloc` gave it room for an item. `srand(0)` and `srand(M)` make `rand` return 0 for ever. The portable
`bcopy` copies from its second argument to its first (`generic/bcopy.c`; `include/string.h:48` and the assembler say
the opposite), without regard to overlap. The assembler compares addresses as signed (`arch/m68k/bcopy.S:93-94`), and
its ColdFire part has `%d1:l` for `%d1.l`. `dirname("")` reads behind the NUL; `dirname("C:\x")` is "C:". `vasprintf`
uses one `va_list` twice. `strncmp` looks at one byte behind its bound; of a bound of 2^31 and more it takes none, and
finds no difference, and `strncpy` with it writes nothing; `strndup` reads on to the NUL behind its bound
(`strndup.c:7`); `strnicmp` and `strcasestr` order characters above 7F below the others.

*Native features and time.* Where MiNT does not let a program run as supervisor, an opcode that does not trap counts
as found (`nf_ops.c:377`): `NATFEAT_CALL` is then run where nothing answers it, and the identifiers are what was in a
register; a failed detection is done again by each call; `SIGSYS` is never given back (`nf_ops.c:71`).
`nf_debugvprintf` puts a text of any length into 2048 bytes. `sleep` of more than 2^31 / 200 seconds wraps and may
return at once, and a wait near that may miss its end.

*printf and scanf.* `doprnt` pads a text that "%.3s" cuts as if it were whole, and reads on when a format ends in "%".
Of floating point: "%.1f" of 0.96 gives "0.1", of 0.06 "0.0", and "%.0f" of 0.96 "0", as a number that rounding brings
to the next power of ten below one loses its place (`doprnt.c:499`); "%+08.1f" has no plus, as only a minus goes in
front of zeros; "%f" of infinity never returns, and of a number of more than a hundred digits leaves its buffer of
128; "%g" keeps zeros at the end and chooses its notation by another limit than C; ties round up; a precision above 10
is 10. In `doscan`: "%i" of a number that does not start with 0 keeps base 0 and swallows what follows, to the end;
"0" alone fails for "%i", "%o" and "%x"; "%o" takes "0x"; hexadecimal digits behind one 0 that begin with "0b" give 0;
there is no "+"; "%u" refuses "-"; "%s" does not skip blanks in front and drops those behind; "%[" has no width, is
not counted and skips the next character of the format, the "%" of a directive included (`doscan.c:599`), which then
is literal text; "%n" is counted; "%f" wants a digit behind the first character; the character at which an item fails
is lost; EOF is returned whenever nothing was stored at the end; where `char` is unsigned (ARM) EOF is never seen.

*Numbers.* `strtoul` never refuses a base; knows no "+"; skips only blanks and tabs; moves `endptr` where there are no
digits; and gives 1 for a negative number that is too large. `strtod` forgets the point when an "e" without digits
follows: "1.5e" is 15. `itoa` and `ltoa` of the smallest number read in front of their table of digits.

*Time.* `gmtime` takes the first of January for day 365 or 366 of its year (but in 1970), and counts weekdays the
wrong way before 1970; `ftimtotm` counts days of the year from 1, and its weekday is right only in leap years; it
declares the table of days as `long` (`ftimtotm.c:47`) that `gmtime.c:12` defines as `int`, which agree only where
both have one size, as `Calendar` takes them to; `gettimeofday` reads the time, then the date, and is a day ahead when
midnight comes between (`timeoday.c:12-13`; `TellsTheTime` allows that and nothing behind the clock); `strftime` does
not count literals against its size, nor the NUL on top of it, returns the size and not 0 for a text that was cut,
writes no NUL behind a "%" at the end, has "Sepember" and calls the hours 1 to 12 AM; `tzset` accepts a TZ that begins
with a colon.

## 7. What is not modelled

- `minimain.c`, `accmain.c`: the arithmetic of the first is that of `main.c`, in `Startup`; the second sets a stack
  and calls `main`.
- Single expressions and single traps: `div`, `abs`, `getch` and its kind, `getdate`, `coreleft`, ...
- The arithmetic of doubles: TLC has no floating point numbers. `Printf` and `Numbers` have exact decimal ones, so
  what they show is which digits are read and written and where the point goes. The functions in `arch/m68k/*.S` that
  compute with doubles are left out with it.
- A "%[" directly behind another, whose set would begin where the first one's skipping ends.
- Long long directives (`STDIO_WITH_LONG_LONG` is off, `Makefile:40`); storing into types of other widths than `int`.
- `vasprintf`, which is undefined in C as it is written.
- Pure machine code (crt0, setjmp, long arithmetic), Line-A bindings, headers, build files, tests. Programs under
  `tests/` gave inputs to `Heap`, `Printf`, `GetOpt` and `Directories`.
- Hazards without a property (their notes are in `PROJECT.json`): requests that wrap `size_t`, `fgets`' static
  character on binary streams, and `parseargs` writing behind the bss before there is a look at the TPA's end.
- Messages, `errno` (but in `Heap` and `Handles`), and the bytes of blocks, items and names.

GEMDOS, its DTA, handles and clock, the caller that writes a command line, and the shell's environment are external:
modelled by how the code uses them.

## 8. Plan

The order: what every program stands on first (heap), then what has the most error paths (streams, `open`,
environment, directories), the life of a program, the algorithms, the conversions. This much is done:

1. `Heap`, `Allocator`, with proofs of all their safety properties and the refinement.
2. `Streams`, `TextOutput`, `TextInput`, `Stdio`, with proofs of all their safety properties.
3. `Environ`, `Environment`, with the refinement proved; `Directories`, `Open`, `Handles`, `Drives`, in `Files`, with
   proofs of all their safety properties.
4. `ParseArgs`, `Startup`, `GetOpt`, `AtExit`, in `Process`, with proofs of all their safety
   properties.
5. `Sort`, `Search`, `Rand`, `Cookies`, `Memory`, `Tokens`, `NatFeats`, `Clock`, in `Utilities`, with proofs of all
   their safety properties.
6. `Printf`, `Scanf`, `Numbers`, `Calendar`, in `Conversions`.
7. `Characters`, `Strings`, with the proof that the functions on strings do what C says.

To come, model: `accmain`'s start; `environ` handed from `Process` to `Environ`, so that the startup's array is the
one `setenv` first extends; a stream that is both written and read.

To come, proofs: the digits and directives of `Conversions`, once their recursive operators are functions.
