------------------------ MODULE ReleasePromotion_proofs ------------------------
(***************************************************************************)
(* Proofs about ReleasePromotion.  promote_release has no lock: that one   *)
(* promoter at a time gets past the swap of the alias follows from the     *)
(* order of the releases.  A promoter that waits behind another one was    *)
(* checked against a release that is not newer than the current one, and   *)
(* the alias of a promotion under way names a newer one.                   *)
(***************************************************************************)
EXTENDS ReleasePromotion, TLAPS

Busy(p) == pc[p] # "idle"
PastSwap(p) == pc[p] \in {"swapped", "rollback"}

\* A promotion to a newer release started from a release that is not newer
\* than the current one; a promotion to an older one is alone.
OrderInv ==
    \A p \in Promoters : Busy(p) =>
        /\ job[p].release # job[p].expected
        /\ job[p].expected <= current
        /\ GoesBack(p) => /\ job[p].expected = current
                          /\ \A q \in Promoters : Busy(q) => q = p

\* Who has swapped the alias is the only one, and nothing has moved since.
SwapInv ==
    \A p \in Promoters : PastSwap(p) =>
        /\ alias = job[p].release
        /\ current = job[p].expected
        /\ \A q \in Promoters : PastSwap(q) => q = p

\* Where the alias was left at a release that is not current, a promotion said
\* so, and no promotion can get past the swap.
Stuck ==
    /\ alias \in doubtful
    /\ \A p \in Promoters : Busy(p) => job[p].expected # alias

AgreeInv == (\A p \in Promoters : ~PastSwap(p)) => alias = current \/ Stuck

IInv == TypeOK /\ OrderInv /\ SwapInv /\ AgreeInv

-----------------------------------------------------------------------------
(* Releases can be compared.                                               *)
LEMMA Comparable ==
    ASSUME TypeOK
    PROVE  /\ current \in Nat /\ alias \in Nat
           /\ \A p \in Promoters : job[p].release \in Nat /\ job[p].expected \in Nat
BY ReleasesAreOrdered DEF TypeOK, Jobs

(* A promoter that compares the alias with what it expects, and finds them *)
(* equal, is the first past the swap, and the manifest agrees.             *)
LEMMA SwapIsExclusive ==
    ASSUME IInv, NEW p \in Promoters, pc[p] = "pending", alias = job[p].expected
    PROVE  current = job[p].expected /\ \A q \in Promoters : ~PastSwap(q)
<1> USE ReleasesAreOrdered DEF IInv, TypeOK, Jobs
<1>1. ASSUME NEW q \in Promoters, PastSwap(q)
      PROVE  FALSE
  <2>1. q # p /\ Busy(q) /\ Busy(p)
    BY <1>1 DEF PastSwap, Busy
  <2>2. ~GoesBack(p) /\ ~GoesBack(q)
    BY <2>1 DEF OrderInv
  <2>3. job[q].release > current
    <3>1. job[q].expected = current /\ job[q].release # current
      BY <1>1, <2>1 DEF SwapInv, OrderInv
    <3> QED
      BY <2>1, <2>2, <3>1, Comparable DEF GoesBack, Busy
  <2>4. alias = job[q].release /\ job[p].expected <= current
    BY <1>1, <2>1 DEF OrderInv, SwapInv
  <2> QED
    BY <2>3, <2>4, Comparable
<1>2. Busy(p)
  BY DEF Busy
<1> QED
  BY <1>1, <1>2 DEF AgreeInv, Stuck

(* Who is not alone promotes to a newer release.                           *)
LEMMA OnlyForward ==
    ASSUME IInv, NEW p \in Promoters, NEW q \in Promoters, Busy(p), Busy(q), q # p
    PROVE  job[p].expected < job[p].release
<1>1. job[p].release # job[p].expected /\ ~(job[p].release < job[p].expected)
  BY DEF IInv, OrderInv, GoesBack, Busy
<1>2. job[p].release \in Nat /\ job[p].expected \in Nat
  BY Comparable DEF IInv
<1> QED
  BY ONLY <1>1, <1>2

-----------------------------------------------------------------------------
(* The invariant is inductive                                              *)

LEMMA TypeInit == Init => TypeOK
BY ReleasesAreOrdered DEF Init, TypeOK, Steps, Jobs

LEMMA TypeStep == TypeOK /\ [Next]_vars => TypeOK'
<1> SUFFICES ASSUME TypeOK, [Next]_vars
             PROVE  TypeOK'
  OBVIOUS
<1> USE DEF TypeOK, Steps, Jobs, Goto, Fail
<1>1. ASSUME NEW p \in Promoters, NEW release \in Releases, Call(p, release)
      PROVE  TypeOK'
  BY <1>1 DEF Call
<1>2. ASSUME NEW p \in Promoters, CheckManifest(p)
      PROVE  TypeOK'
  BY <1>2 DEF CheckManifest
<1>3. ASSUME NEW p \in Promoters, CheckAlias(p)
      PROVE  TypeOK'
  BY <1>3 DEF CheckAlias
<1>4. ASSUME NEW p \in Promoters, CreatePending(p)
      PROVE  TypeOK'
  <2>1. job[p].release \in Releases
    OBVIOUS
  <2>2. pending' \subseteq Releases /\ doubtful' \subseteq Releases
    BY <1>4, <2>1 DEF CreatePending
  <2> QED
    BY <1>4, <2>2 DEF CreatePending
<1>5. ASSUME NEW p \in Promoters, Swap(p)
      PROVE  TypeOK'
  BY <1>5 DEF Swap
<1>6. ASSUME NEW p \in Promoters, Replace(p)
      PROVE  TypeOK'
  BY <1>6 DEF Replace
<1>7. ASSUME NEW p \in Promoters, RollBack(p)
      PROVE  TypeOK'
  BY <1>7 DEF RollBack
<1>8. CASE UNCHANGED vars
  BY <1>8 DEF vars
<1> QED
  BY <1>1, <1>2, <1>3, <1>4, <1>5, <1>6, <1>7, <1>8 DEF Next, Promote

(* A step of one promoter that moves neither the alias nor the manifest    *)
(* and does not take it past the swap.                                     *)
LEMMA QuietStep ==
    ASSUME IInv, TypeOK', NEW p \in Promoters,
           UNCHANGED <<alias, current, job>>, doubtful \subseteq doubtful',
           \A q \in Promoters : pc'[q] = pc[q] \/ (q = p /\ Busy(p) /\ ~PastSwap(p)),
           pc'[p] \notin {"swapped", "rollback"}
    PROVE  IInv'
<1>1. \A q \in Promoters : (Busy(q)' => Busy(q)) /\ (PastSwap(q)' <=> PastSwap(q))
  BY DEF Busy, PastSwap
<1>2. OrderInv'
  BY <1>1 DEF IInv, OrderInv, GoesBack, Busy
<1>3. SwapInv'
  BY <1>1 DEF IInv, SwapInv
<1>4. AgreeInv'
  BY <1>1 DEF IInv, AgreeInv, Stuck
<1> QED
  BY <1>2, <1>3, <1>4 DEF IInv

LEMMA CallStep ==
    ASSUME IInv, TypeOK', NEW p \in Promoters, NEW release \in Releases,
           Admitted(release), Call(p, release)
    PROVE  IInv'
<1> USE ReleasesAreOrdered DEF IInv, TypeOK, Jobs
<1>1. /\ pc[p] = "idle" /\ release # current
      /\ job' = [job EXCEPT ![p] = [release |-> release, expected |-> current]]
      /\ pc' = [pc EXCEPT ![p] = "called"]
      /\ UNCHANGED <<alias, current, pending, doubtful>>
  BY DEF Call, Goto
<1>2. \A q \in Promoters : q # p => pc'[q] = pc[q] /\ job'[q] = job[q]
  BY <1>1
<1>3. job'[p].release = release /\ job'[p].expected = current /\ pc'[p] = "called"
  BY <1>1
<1>4. OrderInv'
  <2> SUFFICES ASSUME NEW q \in Promoters, Busy(q)'
               PROVE  /\ job'[q].release # job'[q].expected
                      /\ job'[q].expected <= current'
                      /\ GoesBack(q)' => /\ job'[q].expected = current'
                                         /\ \A r \in Promoters : Busy(r)' => r = q
    BY DEF OrderInv
  <2>1. CASE q = p
    <3>1. GoesBack(p)' => \A r \in Promoters : Busy(r)' => r = p
      BY <1>1, <1>2, <1>3 DEF Admitted, GoesBack, Busy
    <3> QED
      BY <1>1, <1>3, <2>1, <3>1
  <2>2. CASE q # p
    <3>1. Busy(q) /\ (GoesBack(q)' <=> GoesBack(q))
      BY <1>2, <2>2 DEF Busy, GoesBack
    <3>2. ~GoesBack(q)
      BY <3>1 DEF Admitted, Busy
    <3> QED
      BY <1>1, <1>2, <2>2, <3>1, <3>2 DEF OrderInv
  <2> QED
    BY <2>1, <2>2
<1>5. \A q \in Promoters : PastSwap(q)' <=> q # p /\ PastSwap(q)
  BY <1>1, <1>2, <1>3 DEF PastSwap
<1>6. SwapInv'
  BY <1>1, <1>2, <1>5 DEF SwapInv
<1>7. AgreeInv'
  <2> SUFFICES ASSUME \A q \in Promoters : ~PastSwap(q)', alias' # current'
               PROVE  Stuck'
    BY DEF AgreeInv
  <2>1. \A q \in Promoters : ~PastSwap(q)
    BY <1>1, <1>5 DEF PastSwap
  <2>2. Stuck
    BY <1>1, <2>1 DEF AgreeInv
  <2> QED
    BY <1>1, <1>2, <1>3, <2>2 DEF Stuck, Busy
<1> QED
  BY <1>4, <1>6, <1>7

LEMMA SwapStep ==
    ASSUME IInv, TypeOK', NEW p \in Promoters, Swap(p)
    PROVE  IInv'
<1> USE ReleasesAreOrdered DEF IInv, TypeOK, Jobs
<1>1. CASE alias = job[p].expected /\ alias' = job[p].release /\ Goto(p, "swapped")
           /\ UNCHANGED <<pending, doubtful, current, job>> /\ pc[p] = "pending"
  <2>1. current = job[p].expected /\ \A q \in Promoters : ~PastSwap(q)
    BY <1>1, SwapIsExclusive
  <2>2. pc'[p] = "swapped" /\ \A q \in Promoters : q # p => pc'[q] = pc[q]
    BY <1>1 DEF Goto
  <2>3. \A q \in Promoters : (Busy(q)' <=> Busy(q)) /\ (PastSwap(q)' <=> q = p)
    BY <1>1, <2>1, <2>2 DEF Busy, PastSwap
  <2>4. OrderInv'
    BY <1>1, <2>2, <2>3 DEF OrderInv, GoesBack, Busy
  <2>5. SwapInv'
    BY <1>1, <2>1, <2>3 DEF SwapInv
  <2>6. AgreeInv'
    BY <2>3 DEF AgreeInv
  <2> QED
    BY <2>4, <2>5, <2>6
<1>2. CASE Fail(p, "alias_update_failed") /\ UNCHANGED <<alias, current, job>> /\ pc[p] = "pending"
  <2>1. pc'[p] = "idle" /\ \A q \in Promoters : q # p => pc'[q] = pc[q]
    BY <1>2 DEF Fail, Goto
  <2>2. doubtful \subseteq doubtful'
    BY <1>2 DEF Fail
  <2> QED
    BY <1>2, <2>1, <2>2, QuietStep DEF Busy, PastSwap
<1>3. CASE /\ alias = job[p].expected /\ alias' = job[p].release
           /\ Fail(p, "alias_update_failed") /\ UNCHANGED <<current, job>> /\ pc[p] = "pending"
  <2>1. current = job[p].expected /\ \A q \in Promoters : ~PastSwap(q)
    BY <1>3, SwapIsExclusive
  <2>2. pc' = [pc EXCEPT ![p] = "idle"] /\ job[p].release \in doubtful'
    BY <1>3 DEF Fail, Goto, Doubts
  <2>3. \A q \in Promoters : (Busy(q)' <=> q # p /\ Busy(q)) /\ ~PastSwap(q)'
    BY <2>1, <2>2 DEF Busy, PastSwap
  <2>4. OrderInv'
    BY <1>3, <2>2, <2>3 DEF OrderInv, GoesBack, Busy
  <2>5. AgreeInv'
    <3> SUFFICES ASSUME NEW q \in Promoters, Busy(q)'
                 PROVE  job[q].expected # alias'
      BY <1>3, <2>2 DEF AgreeInv, Stuck
    <3>1. q # p /\ Busy(q) /\ Busy(p)
      BY <1>3, <2>3 DEF Busy
    <3>2. job[q].expected <= current
      BY <3>1 DEF OrderInv
    <3> QED
      BY <1>3, <2>1, <3>1, <3>2, OnlyForward, Comparable
  <2> QED
    BY <2>3, <2>4, <2>5 DEF SwapInv
<1> QED
  BY <1>1, <1>2, <1>3 DEF Swap

LEMMA ReplaceStep ==
    ASSUME IInv, TypeOK', NEW p \in Promoters, Replace(p)
    PROVE  IInv'
<1> USE ReleasesAreOrdered DEF IInv, TypeOK, Jobs
<1>1. /\ Busy(p) /\ PastSwap(p) /\ alias = job[p].release /\ current = job[p].expected
      /\ \A q \in Promoters : PastSwap(q) => q = p
  BY DEF Replace, Busy, PastSwap, SwapInv
<1>2. CASE current' = job[p].release /\ Goto(p, "idle") /\ UNCHANGED <<alias, doubtful, job>>
  <2>1. /\ pc'[p] = "idle" /\ ~Busy(p)'
        /\ \A q \in Promoters : q # p => pc'[q] = pc[q] /\ (Busy(q)' <=> Busy(q))
    BY <1>2 DEF Goto, Busy
  <2>2. OrderInv'
    <3> SUFFICES ASSUME NEW q \in Promoters, Busy(q)'
                 PROVE  /\ job[q].release # job[q].expected
                        /\ job[q].expected <= current'
                        /\ ~GoesBack(q)'
      BY <1>2 DEF OrderInv
    <3>1. q # p /\ Busy(q) /\ (GoesBack(q)' <=> GoesBack(q))
      BY <1>2, <2>1 DEF GoesBack, Busy
    <3>2. ~GoesBack(p) /\ ~GoesBack(q)
      BY <1>1, <3>1 DEF OrderInv
    <3>3. job[p].expected < job[p].release
      BY <1>1, <3>1, OnlyForward
    <3>4. job[q].release # job[q].expected /\ job[q].expected <= current
      BY <3>1 DEF OrderInv
    <3> QED
      BY <1>1, <1>2, <3>1, <3>2, <3>3, <3>4, Comparable
  <2>3. \A q \in Promoters : ~PastSwap(q)'
    BY <1>1, <2>1 DEF PastSwap
  <2> QED
    BY <1>1, <1>2, <2>2, <2>3 DEF SwapInv, AgreeInv
<1>3. CASE Goto(p, "rollback") /\ UNCHANGED <<current, alias, doubtful, job>>
  <2>1. \A q \in Promoters : (Busy(q)' <=> Busy(q)) /\ (PastSwap(q)' <=> PastSwap(q))
    BY <1>1, <1>3 DEF Goto, Busy, PastSwap
  <2>2. OrderInv'
    BY <1>3, <2>1 DEF OrderInv, GoesBack, Busy
  <2> QED
    BY <1>1, <1>3, <2>1, <2>2 DEF SwapInv, AgreeInv
<1> QED
  BY <1>2, <1>3 DEF Replace

LEMMA RollBackStep ==
    ASSUME IInv, TypeOK', NEW p \in Promoters, RollBack(p)
    PROVE  IInv'
<1> USE ReleasesAreOrdered DEF IInv, TypeOK, Jobs
<1>0. TypeOK'
  OBVIOUS
<1>1. /\ Busy(p) /\ PastSwap(p) /\ alias = job[p].release /\ current = job[p].expected
      /\ \A q \in Promoters : PastSwap(q) => q = p
  BY DEF RollBack, Busy, PastSwap, SwapInv
<1>2. UNCHANGED <<current, job>> /\ pc' = [pc EXCEPT ![p] = "idle"]
  BY DEF RollBack, Fail, Goto
<1>3. \A q \in Promoters : (Busy(q)' <=> q # p /\ Busy(q)) /\ ~PastSwap(q)'
  BY <1>1, <1>2 DEF Busy, PastSwap
<1>4. OrderInv'
  BY <1>2, <1>3 DEF OrderInv, GoesBack, Busy
<1>5. AgreeInv'
  <2>1. CASE alias' = job[p].expected
    BY <1>1, <1>2, <2>1 DEF AgreeInv
  <2>2. CASE Fail(p, "alias_rollback_failed") /\ UNCHANGED alias
    <3> SUFFICES ASSUME NEW q \in Promoters, Busy(q)'
                 PROVE  job'[q].expected # alias'
      BY <1>1, <2>2 DEF AgreeInv, Stuck, Fail, Doubts
    <3>1. q # p /\ Busy(q)
      BY <1>3
    <3>2. job[p].expected < job[p].release
      BY <1>1, <3>1, OnlyForward
    <3>3. job[q].expected <= current
      BY <3>1 DEF OrderInv
    <3> QED
      BY <1>1, <1>2, <2>2, <3>1, <3>2, <3>3, Comparable
  <2> QED
    BY <2>1, <2>2 DEF RollBack
<1>6. SwapInv'
  BY <1>3 DEF SwapInv
<1> QED
  BY <1>0, <1>4, <1>5, <1>6

LEMMA Step == IInv /\ [Next]_vars => IInv'
<1> SUFFICES ASSUME IInv, [Next]_vars
             PROVE  IInv'
  OBVIOUS
<1>0. TypeOK'
  BY TypeStep DEF IInv
<1>1. ASSUME NEW p \in Promoters, NEW release \in Releases, Admitted(release), Call(p, release)
      PROVE  IInv'
  BY <1>0, <1>1, CallStep
<1>2. ASSUME NEW p \in Promoters, CheckManifest(p) \/ CheckAlias(p) \/ CreatePending(p)
      PROVE  IInv'
  <2>1. /\ Busy(p) /\ ~PastSwap(p) /\ pc'[p] \notin {"swapped", "rollback"}
        /\ \A q \in Promoters : q # p => pc'[q] = pc[q]
    BY <1>2 DEF CheckManifest, CheckAlias, CreatePending, Fail, Goto, Busy, PastSwap, IInv, TypeOK
  <2>2. UNCHANGED <<alias, current, job>> /\ doubtful \subseteq doubtful'
    BY <1>2 DEF CheckManifest, CheckAlias, CreatePending, Fail
  <2> QED
    BY <1>0, <2>1, <2>2, QuietStep
<1>3. ASSUME NEW p \in Promoters, Swap(p)
      PROVE  IInv'
  BY <1>0, <1>3, SwapStep
<1>4. ASSUME NEW p \in Promoters, Replace(p)
      PROVE  IInv'
  BY <1>0, <1>4, ReplaceStep
<1>5. ASSUME NEW p \in Promoters, RollBack(p)
      PROVE  IInv'
  BY <1>0, <1>5, RollBackStep
<1>6. CASE UNCHANGED vars
  BY <1>6 DEF vars, IInv, TypeOK, OrderInv, SwapInv, AgreeInv, Stuck, GoesBack, Busy, PastSwap
<1> QED
  BY <1>1, <1>2, <1>3, <1>4, <1>5, <1>6 DEF Next, Promote

-----------------------------------------------------------------------------
(* The variables keep their types.                                         *)
THEOREM TypeCorrect == Spec => []TypeOK
BY TypeInit, TypeStep, PTL DEF Spec

(* Whatever promoters do and whatever fails, the inductive invariant       *)
(* holds: one promotion at a time is past the swap of the alias, and one   *)
(* that left the alias behind lets nobody past.                            *)
THEOREM Invariance == Spec => []IInv
<1>1. Init => IInv
  BY TypeInit DEF Init, IInv, OrderInv, SwapInv, AgreeInv, Busy, PastSwap
<1> QED
  BY <1>1, Step, PTL DEF Spec

(* For any number of promoters and releases, and for calls whose answers   *)
(* are lost: when nobody promotes, alias and manifest agree, unless the    *)
(* promotion of the release that the alias is at said it may not.          *)
THEOREM QuietPromotersAgree == Spec => []QuietAgreement
<1>1. IInv => QuietAgreement
  BY DEF IInv, AgreeInv, Stuck, PastSwap, QuietAgreement
<1> QED
  BY <1>1, Invariance, PTL

(* For any number of promoters and releases: os.replace, which compares    *)
(* nothing, only ever replaces the manifest the promotion started from.    *)
THEOREM NoPromotionIsLost == Spec => ManifestFollowsExpected
<1>1. ASSUME IInv, [Next]_vars
      PROVE  [\E p \in Promoters : job[p].release = current' /\ job[p].expected = current]_current
  <2> SUFFICES ASSUME current' # current
               PROVE  \E p \in Promoters : job[p].release = current' /\ job[p].expected = current
    OBVIOUS
  <2>1. PICK p \in Promoters : Replace(p)
    BY <1>1 DEF Next, Promote, vars, Call, CheckManifest, CheckAlias, CreatePending, Swap, RollBack
  <2> QED
    BY <1>1, <2>1 DEF Replace, IInv, SwapInv, PastSwap
<1> QED
  BY <1>1, Invariance, PTL DEF Spec, ManifestFollowsExpected
=============================================================================
