------------------------------- MODULE Tokens -------------------------------
(***************************************************************************)
(* strtok_r, strtok, which keeps its place in a variable of its own, and    *)
(* strsep.  A program takes several strings apart, in turns.  A pointer is  *)
(* a place in a string.  And strchrnul, which finds a character.            *)
(***************************************************************************)
EXTENDS Integers, Sequences, SequencesExt, FiniteSetsExt

CONSTANTS
    Uses,       \* the strings, each with the function it is taken apart with
    TokenTexts, \* what they may hold
    Delim       \* the characters between tokens

Terminator == "\\0"
NULL == [of |-> "", place |-> 0]

\* A name stands for one string, and neither for NULL nor for strtok's own place.
TokensAssumption ==
    /\ \A u \in Uses : /\ u.f \in {"strtok", "strtok_r", "strsep"}
                        /\ u.name \in STRING \ {"", "save_ptr"}
    /\ \A u, v \in Uses : u.name = v.name => u = v
    /\ TokenTexts \subseteq Seq(STRING \ {Terminator})
    /\ Delim \cup {Terminator} \subseteq STRING /\ Terminator \notin Delim

VARIABLES
    held,       \* what the strings held
    string,     \* what they hold
    scanpoint,  \* where the next token is looked for: save_ptr of strtok, *s of strsep
    got         \* the tokens: from where, and how many characters

tokenVars == <<held, string, scanpoint, got>>

\* The place is kept in one variable for all uses of strtok.
PointOf(u) == IF u.f = "strtok" THEN "save_ptr" ELSE u.name
Points == {PointOf(u) : u \in Uses}

TokensInit ==
    /\ held \in [{u.name : u \in Uses} -> TokenTexts]
    /\ string = held
    /\ scanpoint = [p \in Points |-> NULL]
    /\ got = [u \in DOMAIN held |-> <<>>]

-----------------------------------------------------------------------------

\* The character at the place, which counts from 1.
CharAt(s, i) == IF i <= Len(s) THEN s[i] ELSE Terminator

\* Where the first character of the set, or the NUL, is; from i on.
FirstOf(s, i, set) == Min({k \in i .. Len(s) + 1 : CharAt(s, k) \in set \cup {Terminator}})

Others(s) == ToSet(s) \ (Delim \cup {Terminator})

\* A slip: the character behind the token stays in the string.
Cut_Keeps(s, i) == s

\* The delimiter behind a token becomes a NUL.
Cut(s, i) == IF i <= Len(s) THEN [s EXCEPT ![i] = Terminator] ELSE s

\* The token from i to j - 1 is given to the caller.
Give(n, p, i, j) ==
    /\ string' = [string EXCEPT ![n] = Cut(@, j)]
    /\ got' = [got EXCEPT ![n] = Append(@, [from |-> i, count |-> j - i])]
    /\ scanpoint' = [scanpoint EXCEPT ![p] =
                        IF CharAt(string[n], j) = Terminator THEN NULL
                        ELSE [of |-> n, place |-> j + 1]]

\* strtok_r: leading delimiters are passed over.
NextToken(n, p, i) ==
    LET tok == FirstOf(string[n], i, Others(string[n]))
    IN  IF CharAt(string[n], tok) = Terminator
        THEN /\ scanpoint' = [scanpoint EXCEPT ![p] = NULL]
             /\ UNCHANGED <<string, got>>
        ELSE Give(n, p, tok, FirstOf(string[n], tok, Delim))

\* A first call, with the string.
Begin(u) ==
    /\ u.f # "strsep" /\ string[u.name] = held[u.name] /\ got[u.name] = <<>>
    /\ NextToken(u.name, PointOf(u), 1)
    /\ UNCHANGED held

\* A call with NULL goes on where the last one has stopped; once there is nothing
\* left it returns NULL.
Continue(p) ==
    /\ scanpoint[p] # NULL
    /\ \E u \in Uses : u.name = scanpoint[p].of /\ u.f # "strsep"
    /\ NextToken(scanpoint[p].of, p, scanpoint[p].place)
    /\ UNCHANGED held

\* strsep: every delimiter ends a token, empty ones too.  The caller's pointer
\* points to the string before the first call.
Separate(u) ==
    /\ u.f = "strsep"
    /\ LET n == u.name
           i == IF got[n] = <<>> THEN 1 ELSE scanpoint[n].place
       IN  /\ got[n] # <<>> => scanpoint[n] # NULL
           /\ Give(n, n, i, FirstOf(string[n], i, Delim))
    /\ UNCHANGED held

TokensNext ==
    \/ \E u \in Uses : Begin(u) \/ Separate(u)
    \/ \E p \in Points : Continue(p)

TokensSpec == TokensInit /\ [][TokensNext]_tokenVars

-----------------------------------------------------------------------------

TokensTypeOK ==
    /\ string \in [DOMAIN held -> Seq(STRING)]
    /\ \A p \in Points : scanpoint[p] = NULL \/
         (scanpoint[p].of \in DOMAIN held
            /\ scanpoint[p].place \in 1 .. Len(held[scanpoint[p].of]) + 1)

\* What is between delimiters: of strtok as long as it can be and not empty.
IsToken(s, t, mayBeEmpty) ==
    /\ \A i \in t.from .. t.from + t.count - 1 : s[i] \notin Delim
    /\ t.from = 1 \/ s[t.from - 1] \in Delim
    /\ t.from + t.count = Len(s) + 1 \/ s[t.from + t.count] \in Delim
    /\ mayBeEmpty \/ t.count > 0

AllTokens(s, mayBeEmpty) ==
    {t \in [from : 1 .. Len(s) + 1, count : 0 .. Len(s)] :
        t.from + t.count <= Len(s) + 1 /\ IsToken(s, t, mayBeEmpty)}

\* Every token is handed out once and in order, whatever other strings are taken
\* apart in between; where the next one is looked for there is nothing left in front;
\* and each token is still in its string, with a NUL behind it.
TokensInOrder ==
    \A u \in Uses :
      LET n == u.name
          s == held[n]
          all == AllTokens(s, u.f = "strsep")
          last == got[n][Len(got[n])]
      IN  /\ ToSet(got[n]) \subseteq all
          /\ \A i, j \in DOMAIN got[n] : i < j => got[n][i].from < got[n][j].from
          /\ got[n] # <<>> => \A t \in all : t.from <= last.from => t \in ToSet(got[n])
          /\ scanpoint[PointOf(u)].of = n =>
               \A t \in all : t \in ToSet(got[n]) <=> t.from < scanpoint[PointOf(u)].place
          /\ \A t \in ToSet(got[n]) :
               /\ \A i \in t.from .. t.from + t.count - 1 : string[n][i] = s[i]
               /\ CharAt(string[n], t.from + t.count) = Terminator
          /\ u.f # "strtok" /\ got[n] # <<>> /\ scanpoint[n] = NULL => ToSet(got[n]) = all

-----------------------------------------------------------------------------
(* strchrnul: characters one by one up to an even address of a long word,   *)
(* then four at a time.  A byte has ByteBits bits, and a long word four     *)
(* bytes, the first of them on the left.                                    *)

CONSTANTS
    ByteBits,   \* 8 in the code
    Memories,   \* what there is at the addresses from 0 on
    Wanted      \* the characters that are looked for

VARIABLES
    bytes,      \* the memory
    from,       \* s
    c,
    char_ptr,   \* the byte, or the first byte of the long word, that is next
    how,        \* "chars", "words" or "found"
    seen        \* the address that is returned

findVars == <<bytes, from, c, char_ptr, how, seen>>

\* What the bit i, from the right, stands for.
Bit[i \in Nat] == IF i = 0 THEN 1 ELSE 2 * Bit[i - 1]
ByteSize == Bit[ByteBits]

FindAssumption ==
    /\ ByteBits \in Nat \ {0, 1}
    /\ Wanted \subseteq 0 .. ByteSize - 1
    /\ \A m \in Memories :
         m \in Seq(0 .. ByteSize - 1) /\ m # <<>> /\ Len(m) % 4 = 0 /\ m[Len(m)] = 0

ByteAt(i) == bytes[i + 1]
Matches(i) == ByteAt(i) \in {c, 0}

FindInit ==
    /\ bytes \in Memories /\ from \in 0 .. 3 /\ c \in Wanted
    /\ char_ptr = from
    /\ how = "chars" /\ seen = -1

\* The first few characters.
OneChar ==
    /\ how = "chars"
    /\ \/ /\ char_ptr % 4 = 0
          /\ how' = "words"
          /\ UNCHANGED <<char_ptr, seen>>
       \/ /\ char_ptr % 4 # 0 /\ Matches(char_ptr)
          /\ how' = "found" /\ seen' = char_ptr
          /\ UNCHANGED char_ptr
       \/ /\ char_ptr % 4 # 0 /\ ~Matches(char_ptr)
          /\ char_ptr' = char_ptr + 1
          /\ UNCHANGED <<how, seen>>
    /\ UNCHANGED <<bytes, from, c>>

Word(b) ==
    ((b[1] * ByteSize + b[2]) * ByteSize + b[3]) * ByteSize + b[4]

\* charmask, and a long word exclusive-or it.
XorBits(x, y) ==
    LET f[i \in 0 .. ByteBits] ==
          IF i = 0 THEN 0
          ELSE f[i - 1] + ((x \div Bit[i - 1] + y \div Bit[i - 1]) % 2) * Bit[i - 1]
    IN  f[ByteBits]

\* A slip: the carries of the leftmost byte fall out of the word.
Holes_Three == {ByteBits, 2 * ByteBits, 3 * ByteBits}

\* The bits that are not in magic_bits: one to the left of each byte, or the last.
Holes == {ByteBits, 2 * ByteBits, 3 * ByteBits, 4 * ByteBits - 1}

\* The sum of those below the bit i, and of all.
MagicBelow[i \in Nat] ==
    IF i = 0 THEN 0
    ELSE MagicBelow[i - 1] + (IF i - 1 \in Holes THEN 0 ELSE Bit[i - 1])
magic_bits == MagicBelow[4 * ByteBits]

\* Whether the addition leaves one of the holes as it was.
HoleUnchanged(longword) ==
    \E i \in Holes :
      ((longword + magic_bits) \div Bit[i]) % 2 = (longword \div Bit[i]) % 2

\* There may be the character or a NUL among the four bytes.
MayMatch(b) ==
    HoleUnchanged(Word(b)) \/ HoleUnchanged(Word([i \in 1 .. 4 |-> XorBits(b[i], c)]))

FourBytes(i) == SubSeq(bytes, i + 1, i + 4)
Matching(i) == {k \in i .. i + 3 : Matches(k)}

OneWord ==
    /\ how = "words"
    /\ IF MayMatch(FourBytes(char_ptr)) /\ Matching(char_ptr) # {}
       THEN how' = "found" /\ seen' = Min(Matching(char_ptr)) /\ UNCHANGED char_ptr
       ELSE char_ptr' = char_ptr + 4 /\ UNCHANGED <<how, seen>>
    /\ UNCHANGED <<bytes, from, c>>

FindNext == OneChar \/ OneWord

FindSpec == FindInit /\ [][FindNext]_findVars

FindTypeOK ==
    /\ bytes \in Memories /\ c \in Wanted
    /\ char_ptr \in Nat /\ how \in {"chars", "words", "found"} /\ seen \in Int

\* "Is this safe?  Will it catch all the zero bytes?": the first character that is
\* the one looked for, or the NUL, is found, and no long word behind it is read.
FindsFirst ==
    LET first == Min({i \in from .. Len(bytes) - 1 : Matches(i)})
    IN  /\ char_ptr <= first
        /\ how = "found" => seen = first
=============================================================================
