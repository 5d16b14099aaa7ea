---------------------------- MODULE MCSignatures ----------------------------
(* Signatures over short functions and small stacks. *)
EXTENDS Signatures

Function(f) == [kind |-> "function", text |-> f]
Known(fs)   == [thread |-> "known", frames |-> fs]

\* Every text of these tokens: one frame.
Bracketed == UNION {[1 .. n -> {"f", "<", ">", "name omitted"}] : n \in 1 .. 5}
SpacedOut == UNION {[1 .. n -> {"f", " ", ",", "*"}] : n \in 1 .. 4}
                \cup UNION {[1 .. n -> {" ", ",", "*", "<", ">"}] : n \in 1 .. 5}
Single    == {Known(<<Function(f)>>) : f \in Bracketed \cup SpacedOut}

\* Stacks of a plain, an irrelevant and a prefix function, one driver module at two
\* addresses, a source file, an address, a named frame, and a frame that is no object.
Common == {Function(<<"main">>), Function(<<"raise">>), Function(<<"abort">>),
           [kind |-> "module", text |-> <<"driver", "0x1">>], [kind |-> "module", text |-> <<"driver", "0x2">>]}
Frame == Common \cup {
    [kind |-> "file", text |-> <<"src", "/", "a.c">>], [kind |-> "offset", text |-> <<"0x0">>],
    [kind |-> "normalized", text |-> <<"named">>], [kind |-> "plain"]}
Stacks == {Known(fs) : fs \in [1 .. 4 -> Common] \cup UNION {[1 .. n -> Frame] : n \in 0 .. 3}}

\* Every path of these tokens: one frame.
Paths == {Known(<<[kind |-> "file", text |-> f]>>) : f \in UNION {[1 .. n -> {"src", "/", "\\"}] : n \in 1 .. 4}}

Unknown == {[thread |-> t, frames |-> <<>>] : t \in {"absent", "beyond"}}

AllCrashes == Single \cup Paths \cup Stacks \cup Unknown

Files(irrelevant, trimDll, prefix) == [irrelevant |-> irrelevant, trimDll |-> trimDll, prefix |-> prefix]

\* The three files as they are meant, and each of them empty or invalid.
AllLists == {Files({"raise"}, {"driver", "@"}, {"abort", "driver"}), Files({}, {"driver"}, {"abort"}),
             Files({"raise"}, {}, {"abort"}), Files({"raise"}, {"driver"}, {})}
=============================================================================
