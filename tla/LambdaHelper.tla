---------------------------- MODULE LambdaHelper ----------------------------
(***************************************************************************)
(* Captured names in siko_name_resolver/lambda_helper.rs.  A helper is     *)
(* [level, fn, captures]: the level of the scope that a lambda's arguments *)
(* are in, its function, and what it captures, in order.  The helpers of   *)
(* nested lambdas are a sequence, the function they are in first; its      *)
(* level is 0.  A reference is [k, at, ix]: the value of a pattern's       *)
(* binding, or argument ix[1] of function at, captured if ix[2] is 1.      *)
(***************************************************************************)
EXTENDS Naturals, Sequences

BindingRef(at) == [k |-> "ExprValue", at |-> at, ix |-> <<>>]
ArgumentRef(fn, index) == [k |-> "ArgRef", at |-> fn, ix |-> <<index, 0>>]
CapturedRef(fn, index) == [k |-> "ArgRef", at |-> fn, ix |-> <<index, 1>>]

NewHelper(level, fn) == [level |-> level, fn |-> fn, captures |-> <<>>]

\* A lambda captures a name from outside of its scope.
Captures(helper, level) == level < helper.level

\* Mutant: a lambda that has captured something already uses that.
SeenOnce(helpers, ref, level, h) ==
    IF Captures(helpers[h], level) THEN CapturedRef(helpers[h].fn, 1) ELSE ref

\* How a name, bound in a scope of the level, is seen in helper h.  Levels
\* increase: what h does not capture no helper around it does.
Seen(helpers, ref, level, h) ==
    IF Captures(helpers[h], level)
    THEN CapturedRef(helpers[h].fn, Len(helpers[h].captures) + 1)
    ELSE ref

\* process_named_ref, from the outermost helper to the innermost: every lambda
\* between a name and its use captures what the one around it sees, for each
\* use once more.
ProcessNamedRef(helpers, ref, level) ==
    [helpers |-> [h \in DOMAIN helpers |->
                    IF Captures(helpers[h], level)
                    THEN [helpers[h] EXCEPT !.captures = Append(@, Seen(helpers, ref, level, h - 1))]
                    ELSE helpers[h]],
     ref |-> Seen(helpers, ref, level, Len(helpers))]

=============================================================================
