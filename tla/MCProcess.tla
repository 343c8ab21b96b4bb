----------------------------- MODULE MCProcess -----------------------------
(***************************************************************************)
(* Arguments: up to two of up to two characters, or three of one, sent in   *)
(* each of the three ways; up to two variables.  Stacks: words of ten bits. *)
(* Options: every line of up to three of the elements below.                *)
(***************************************************************************)
EXTENDS Process, SequencesExt

Strings(set, n) == UNION {[1 .. k -> set] : k \in 0 .. n}
Lists(set) == Strings(set, 2)
Chars == {"a", " ", "'"}
Small == Lists(Strings(Chars, 2)) \cup [1 .. 3 -> Strings(Chars, 1)]

Variables == [name : {<<"A">>}, value : {<<>>, <<"c">>}, kind : {"set", "split", "bare"}]
EnvLists == {e \in Lists(Variables) : \A k \in DOMAIN e : e[k].kind = "bare" => e[k].value = <<"c">>}

Message(way, env, args, space, beyond) ==
    [way |-> way, env |-> env, args |-> args, beyond |-> beyond,
     before |-> IF args = <<>> THEN 0 ELSE space[1],
     between |-> space[2], after |-> space[3]]

\* Programs with options and a file name, in each way.
MCFollowed ==
    {Message("words", <<[name |-> <<"A">>, value |-> <<"c">>, kind |-> "split"]>>,
             << <<"-", "a", "b">>, <<"c">>, <<"d">> >>, <<1, 2, 1>>, 1),
     Message("quoted", <<>>, << <<"-", "b">>, <<"c", " ", "'">> >>, <<0, 1, 0>>, 0),
     Message("ARGV", <<>>, << <<"-", "a">>, <<"-", "b">>, <<>>, <<"c">> >>, <<0, 0, 0>>, 1)}

\* What can be sent: no message is asked about but w itself.
Caller == INSTANCE ParseArgs WITH Messages <- {}, Pads <- {}, pc <- parsing

MCMessages ==
    {w \in {Message("words", <<>>, a, s, b) : a \in Small, s \in {<<0, 1, 0>>, <<1, 2, 1>>}, b \in {0, 2}}
        \cup {Message("quoted", <<>>, a, <<0, 1, 0>>, b) : a \in Small, b \in {0, 2}}
        \cup {Message("ARGV", <<>>, a, <<0, 0, 0>>, b) : a \in Small, b \in 0 .. 1}
        \cup {Message(w, e, a, <<0, 1, 0>>, 0) :
                w \in {"words", "ARGV"}, e \in EnvLists, a \in {<<>>, << <<"a">> >>}} :
        Caller!Sendable(w)}
    \cup MCFollowed

ASSUME MCUnderstandable == Arguments!Understandable

MCTpas ==
    {t \in [bp : {16, 18}, hitpa : {150, 233, 300}, prog : 30 .. 34 \cup {52, 60, 72, 180},
            sp : {10, 149, 400}] : t.sp # 149 \/ t.bp + t.prog <= t.hitpa}
ModestSizes == -9 .. 9 \cup {-200, -90, -65, 63, 64, 65, 66} \cup 95 .. 115 \cup {200}
MCAsked == {-1, 0, 1, 2, 3, 64}

\* "b" takes an argument, "x" is illegal.
Elements == {<<"-", "a">>, <<"-", "a", "b">>, <<"-", "b">>, <<"-", "b", "a">>,
             <<"-", "a", "a", "b">>, <<"-", "a", "x">>, <<"-", "a", "-">>,
             <<"-", "-">>, <<"-">>, <<"a">>, <<>>}
AllLines == Strings(Elements, 3)
=============================================================================
