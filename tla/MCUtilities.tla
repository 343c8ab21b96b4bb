---------------------------- MODULE MCUtilities ----------------------------
(***************************************************************************)
(* qsort: all arrays of up to five items with three values and of eleven    *)
(* with two; with partitions of two items, of seven with three values.      *)
(* bsearch: an array of nineteen items with gaps and with items that are    *)
(* there more than once, for every key in it and around it.  memmove: two   *)
(* blocks and what is left of one, all distances that matter, even and odd. *)
(* strtok: two strings of its own, one of strtok_r and one of strsep.       *)
(* strchrnul: bytes of three bits, with those that fool the addition.       *)
(* sleep and delay: nothing to wait for, one tick, nearly half of what the   *)
(* counter holds, and more; the counter starts near both of its ends.       *)
(* nf_init: TOS, MiNT and a MiNT that is secure, with processors and         *)
(* emulators that know all features or some.                                *)
(***************************************************************************)
EXTENDS Utilities

Arrays(sizes, n) == UNION {[1 .. s -> 1 .. n] : s \in sizes}
MCInputs ==
    [items : Arrays(0 .. 5, 3) \cup Arrays({11}, 2), thresh : {4}]
    \cup [items : Arrays({7}, 3), thresh : {1}]

Items == <<1, 1, 2, 4, 4, 4, 5, 7, 9, 9, 12, 13, 13, 15, 18, 20, 20, 21, 25>>
MCBase == [i \in 0 .. Num - 1 |-> Items[i + 1]]
MCKeys == 0 .. 26

MCPieces == <<16, 8>>
Lengths == 0 .. 20 \cup {23, 24, 25, 26, 31, 37, 47, 48, 49, 53}
Apart == {-49, -24, -7, -4, -3, -2, -1, 0, 1, 2, 3, 4, 9, 24, 49}
CallOf(f, dest, src, length) == [f |-> f, dest |-> dest, src |-> src, length |-> length]
MCMoves ==
    {CallOf("memmove", src + x, src, n) : src \in {50, 51}, x \in Apart, n \in Lengths}
    \cup {CallOf("memset", dest, 0, n) : dest \in {50, 51}, n \in Lengths}
    \cup {CallOf("portable", 50 + x, 50, n) : x \in {-7, -1, 0, 1, 8}, n \in {0, 1, 2, 7, 9}}

MCUses ==
    {[name |-> "s", f |-> "strtok"], [name |-> "t", f |-> "strtok"],
     [name |-> "u", f |-> "strtok_r"], [name |-> "v", f |-> "strsep"]}
MCTokenTexts ==
    {<<>>, <<"a">>, <<";">>, <<"a", ",", "a">>, <<",", "a", "a", ",", ";", "a">>, <<"a", ";">>}

MCMemories ==
    {<<w, x, y, z, e, 0, e, 0>> : w, x, y, z \in {0, 1, 4, 7}, e \in {1, 4}}

Numbered(name, version, stderr, shutdown) ==
    [NF_NAME |-> name, NF_VERSION |-> version, NF_STDERR |-> stderr, NF_SHUTDOWN |-> shutdown]
MCWaits ==
    {[f |-> "sleep", n |-> n] : n \in {0, 1, 2, 11, 13, 26, 127}}
    \cup {[f |-> "delay", n |-> n] : n \in {0, 4, 5, 60, 127}}
MCMachines ==
    {[mint |-> system # "TOS", secure |-> system = "secure", opcode |-> opcode, ids |-> ids,
      sigill |-> ill, sigsys |-> sys] :
        system \in {"TOS", "MiNT", "secure"}, opcode \in {"illegal", "emulated", "other"},
        ids \in {Numbered(16, 32, 48, 64), Numbered(0, 16, 0, 32), Numbered(16, 0, 0, 0)},
        ill, sys \in {"SIG_DFL", "program"}}
=============================================================================
