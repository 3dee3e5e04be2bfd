------------------------- MODULE LambdaHelper_proofs -------------------------
(***************************************************************************)
(* What a use of a name does to the captures of the lambdas around it, for *)
(* any nesting of lambdas and scopes.                                      *)
(***************************************************************************)
EXTENDS LambdaHelper, TLAPS

\* The helpers that process_named_ref can meet: references are from R, functions
\* from F.  The function is outside of all of its lambdas, and the scope of a
\* lambda's arguments is within that of the lambda around it.
HelperOf(F, R) == [level : Nat, fn : F, captures : Seq(R)]

Nested(helpers) ==
    /\ helpers # <<>> /\ helpers[1].level = 0
    /\ \A g, h \in DOMAIN helpers : g < h => helpers[g].level < helpers[h].level

RefsOf(F, R) == \A fn \in F, index \in Nat : CapturedRef(fn, index) \in R

\* What helper h has captured after the name was used.
CapturesAfter(helpers, ref, level, h) == ProcessNamedRef(helpers, ref, level).helpers[h].captures

\* The lambdas that capture a name are the innermost ones, never the function
\* itself: what is seen in the one around a capturing lambda is well-defined.
THEOREM CapturingInnermost ==
    ASSUME NEW F, NEW R, NEW helpers \in Seq(HelperOf(F, R)), Nested(helpers), NEW level \in Nat,
           NEW h \in DOMAIN helpers, Captures(helpers[h], level)
    PROVE  /\ h - 1 \in DOMAIN helpers
           /\ \A g \in DOMAIN helpers : g > h => Captures(helpers[g], level)
<1>1. /\ DOMAIN helpers = 1..Len(helpers) /\ Len(helpers) \in Nat
      /\ \A g \in DOMAIN helpers : helpers[g] \in HelperOf(F, R)
    OBVIOUS
<1>2. \A g \in DOMAIN helpers : helpers[g].level \in Nat
    BY <1>1 DEF HelperOf
<1>3. h # 1
    BY <1>2 DEF Captures, Nested
<1>4. ASSUME NEW g \in DOMAIN helpers, g > h
      PROVE  Captures(helpers[g], level)
    <2>1. helpers[h].level < helpers[g].level
        BY <1>1, <1>4 DEF Nested
    <2> QED
        BY <1>2, <2>1 DEF Captures
<1> QED
    BY <1>1, <1>3, <1>4

LEMMA HelperParts ==
    ASSUME NEW F, NEW R, NEW helpers \in Seq(HelperOf(F, R)), NEW h \in DOMAIN helpers
    PROVE  /\ helpers[h] \in HelperOf(F, R)
           /\ helpers[h].fn \in F /\ helpers[h].captures \in Seq(R) /\ Len(helpers[h].captures) \in Nat
<1>1. helpers[h] \in HelperOf(F, R)
    OBVIOUS
<1>2. helpers[h].fn \in F /\ helpers[h].captures \in Seq(R)
    BY <1>1 DEF HelperOf
<1>3. Len(helpers[h].captures) \in Nat
    BY <1>2
<1> QED
    BY <1>1, <1>2, <1>3

\* What a helper sees is a reference.
LEMMA SeenIsRef ==
    ASSUME NEW F, NEW R, RefsOf(F, R), NEW helpers \in Seq(HelperOf(F, R)), NEW ref \in R, NEW level \in Nat,
           NEW h \in DOMAIN helpers
    PROVE  Seen(helpers, ref, level, h) \in R
<1>1. helpers[h].fn \in F /\ Len(helpers[h].captures) + 1 \in Nat
    BY HelperParts
<1> QED
    BY <1>1 DEF Seen, RefsOf

\* A use leaves the helpers nested as they are, and captures only get more: a
\* reference to an earlier capture stays valid.
THEOREM CapturesGrow ==
    ASSUME NEW F, NEW R, RefsOf(F, R), NEW helpers \in Seq(HelperOf(F, R)), Nested(helpers),
           NEW ref \in R, NEW level \in Nat
    PROVE  /\ ProcessNamedRef(helpers, ref, level).helpers \in Seq(HelperOf(F, R))
           /\ Nested(ProcessNamedRef(helpers, ref, level).helpers)
           /\ ProcessNamedRef(helpers, ref, level).ref \in R
           /\ \A h \in DOMAIN helpers : \A i \in DOMAIN helpers[h].captures :
                CapturesAfter(helpers, ref, level, h)[i] = helpers[h].captures[i]
<1> DEFINE n == Len(helpers)
           after == ProcessNamedRef(helpers, ref, level).helpers
           Longer(h) == [helpers[h] EXCEPT !.captures = Append(@, Seen(helpers, ref, level, h - 1))]
<1>1. n \in Nat /\ n > 0 /\ DOMAIN helpers = 1..n
    BY DEF Nested
<1>2. after = [h \in 1..n |-> IF Captures(helpers[h], level) THEN Longer(h) ELSE helpers[h]]
    BY <1>1 DEF ProcessNamedRef
<1>3. ASSUME NEW h \in 1..n
      PROVE  /\ after[h] \in HelperOf(F, R) /\ after[h].level = helpers[h].level
             /\ \A i \in DOMAIN helpers[h].captures : after[h].captures[i] = helpers[h].captures[i]
    <2>1. helpers[h] \in HelperOf(F, R)
        BY <1>1
    <2>2. CASE ~Captures(helpers[h], level)
        BY <1>2, <2>1, <2>2
    <2>3. CASE Captures(helpers[h], level)
        <3> DEFINE seen == Seen(helpers, ref, level, h - 1)
        <3>1. seen \in R
            BY <1>1, <2>3, CapturingInnermost, SeenIsRef
        <3>2. helpers[h].captures \in Seq(R)
            BY <2>1 DEF HelperOf
        <3> HIDE DEF seen
        <3>3. /\ Append(helpers[h].captures, seen) \in Seq(R)
              /\ \A i \in DOMAIN helpers[h].captures : Append(helpers[h].captures, seen)[i] = helpers[h].captures[i]
            BY <3>1, <3>2
        <3>4. after[h] = [helpers[h] EXCEPT !.captures = Append(helpers[h].captures, seen)]
            BY <1>2, <2>3 DEF seen
        <3> QED
            BY <2>1, <3>3, <3>4 DEF HelperOf
    <2> QED
        BY <2>2, <2>3
<1>4. after \in Seq(HelperOf(F, R)) /\ Len(after) = n
    <2>1. after = [h \in 1..n |-> after[h]]
        BY <1>2
    <2> HIDE DEF after
    <2> QED
        BY <1>1, <1>3, <2>1
<1>5. Nested(after)
    BY <1>1, <1>3, <1>4 DEF Nested
<1>6. ProcessNamedRef(helpers, ref, level).ref \in R
    BY <1>1, SeenIsRef DEF ProcessNamedRef
<1> QED
    BY <1>1, <1>3, <1>4, <1>5, <1>6 DEF CapturesAfter

\* From the use of a name to what binds it: the reference that a use gets is the
\* capture that the innermost lambda has just added, each of these captures is the
\* one that the lambda around it has just added, and the outermost of them is the
\* binding itself.  The interpreter passes the captures of a call in this order.
THEOREM CapturesLinked ==
    ASSUME NEW F, NEW R, RefsOf(F, R), NEW helpers \in Seq(HelperOf(F, R)), Nested(helpers),
           NEW ref \in R, NEW level \in Nat
    PROVE  LET added(h) == Len(CapturesAfter(helpers, ref, level, h))
               link(h) == IF Captures(helpers[h], level) THEN CapturedRef(helpers[h].fn, added(h)) ELSE ref
           IN  /\ ProcessNamedRef(helpers, ref, level).ref = link(Len(helpers))
               /\ \A h \in DOMAIN helpers : Captures(helpers[h], level) =>
                    CapturesAfter(helpers, ref, level, h)[added(h)] = link(h - 1)
<1> DEFINE n == Len(helpers)
           after == ProcessNamedRef(helpers, ref, level).helpers
           added(h) == Len(CapturesAfter(helpers, ref, level, h))
           link(h) == IF Captures(helpers[h], level) THEN CapturedRef(helpers[h].fn, added(h)) ELSE ref
           Longer(h) == [helpers[h] EXCEPT !.captures = Append(@, Seen(helpers, ref, level, h - 1))]
<1>1. n \in Nat /\ n > 0 /\ DOMAIN helpers = 1..n
    BY DEF Nested
<1>2. after = [h \in 1..n |-> IF Captures(helpers[h], level) THEN Longer(h) ELSE helpers[h]]
    BY <1>1 DEF ProcessNamedRef
<1>3. ASSUME NEW h \in 1..n, Captures(helpers[h], level)
      PROVE  /\ added(h) = Len(helpers[h].captures) + 1
             /\ CapturesAfter(helpers, ref, level, h)[added(h)] = Seen(helpers, ref, level, h - 1)
    <2> DEFINE seen == Seen(helpers, ref, level, h - 1)
    <2>1. helpers[h] \in HelperOf(F, R) /\ helpers[h].captures \in Seq(R)
        BY <1>1, HelperParts
    <2>2. seen \in R
        BY <1>1, <1>3, CapturingInnermost, SeenIsRef
    <2>3. CapturesAfter(helpers, ref, level, h) = Append(helpers[h].captures, seen)
        BY <1>2, <1>3, <2>1 DEF CapturesAfter, HelperOf
    <2> HIDE DEF seen
    <2>4. /\ Len(Append(helpers[h].captures, seen)) = Len(helpers[h].captures) + 1
          /\ Append(helpers[h].captures, seen)[Len(helpers[h].captures) + 1] = seen
        BY <2>1, <2>2
    <2> QED
        BY <2>3, <2>4 DEF seen
<1>4. ASSUME NEW h \in 1..n
      PROVE  Seen(helpers, ref, level, h) = link(h)
    BY <1>3, <1>4 DEF Seen
<1>5. ProcessNamedRef(helpers, ref, level).ref = link(n)
    BY <1>1, <1>4 DEF ProcessNamedRef
<1>6. ASSUME NEW h \in DOMAIN helpers, Captures(helpers[h], level)
      PROVE  CapturesAfter(helpers, ref, level, h)[added(h)] = link(h - 1)
    BY <1>1, <1>3, <1>4, <1>6, CapturingInnermost
<1> QED
    BY <1>5, <1>6

=============================================================================
