----------------------- MODULE QuarantineResolution_proofs -----------------------
(***************************************************************************)
(* Proofs about QuarantineResolution.  The inductive invariant says what   *)
(* the holder of the flock has read, written and made durable; nobody else *)
(* can touch the sidecar meanwhile.                                        *)
(***************************************************************************)
EXTENDS QuarantineResolution, TLAPS

-----------------------------------------------------------------------------
(* Chains                                                                  *)

(* A chain extends itself.                                                 *)
LEMMA ExtendsItself ==
    ASSUME NEW c \in Chains
    PROVE  Extends(c, c)
BY DEF Extends, Chains

(* Extension is transitive.                                                *)
LEMMA ExtendsTransitive ==
    ASSUME NEW c \in Chains, NEW d \in Chains, NEW e \in Chains,
           Extends(c, d), Extends(d, e)
    PROVE  Extends(c, e)
BY DEF Extends, Chains

(* append_resolution_event extends the chain.                              *)
LEMMA AppendExtends ==
    ASSUME NEW c \in Chains, NEW e \in Events
    PROVE  /\ Append(c, e) \in Chains
           /\ Extends(Append(c, e), c)
BY DEF Extends, Chains

(* What a power loss leaves of a chain is extended by the chain, and       *)
(* extends what was durable.                                               *)
LEMMA PrefixExtends ==
    ASSUME NEW c \in Chains, NEW d \in Chains, Extends(c, d),
           NEW n \in Len(d) .. Len(c)
    PROVE  /\ SubSeq(c, 1, n) \in Chains
           /\ Extends(SubSeq(c, 1, n), d)
           /\ Extends(c, SubSeq(c, 1, n))
<1>1. Len(d) \in Nat /\ Len(c) \in Nat /\ n \in 0 .. Len(c)
  BY DEF Chains
<1>2. SubSeq(c, 1, n) \in Chains
  BY <1>1 DEF Chains
<1>3. Len(SubSeq(c, 1, n)) = n /\ \A i \in 1 .. n : SubSeq(c, 1, n)[i] = c[i]
  BY <1>1 DEF Chains
<1> QED
  BY <1>1, <1>2, <1>3 DEF Extends

(* What a valid chain extends is valid.                                    *)
LEMMA PrefixValid ==
    ASSUME NEW c \in Chains, NEW d \in Chains, Extends(c, d), Valid(c)
    PROVE  Valid(d)
<1>1. Len(d) \in Nat /\ Len(c) \in Nat /\ Len(d) <= Len(c)
  BY DEF Extends, Chains
<1>2. \A i \in 1 .. Len(d) : i \in 1 .. Len(c) /\ d[i] = c[i]
  BY <1>1 DEF Extends
<1> QED
  BY <1>2 DEF Valid

(* The checks of the broker are enough for has_exact_occurrence_set.       *)
LEMMA AppendValid ==
    ASSUME NEW c \in Chains, NEW e \in Events, NEW m \in Manifests, Valid(c),
           ~Replayed(c, m), Decidable(c, m),
           e.event = m.event, e.occurrence = m.occurrence
    PROVE  Valid(Append(c, e))
<1>1. Len(c) \in Nat /\ Len(Append(c, e)) = Len(c) + 1
  BY DEF Chains
<1>2. \A i \in 1 .. Len(c) : Append(c, e)[i] = c[i]
  BY DEF Chains
<1>3. Append(c, e)[Len(c) + 1] = e
  BY DEF Chains
<1> QED
  BY <1>1, <1>2, <1>3 DEF Valid, Replayed, Decidable

(* Two events in the same place of a chain are one event.                  *)
LEMMA SamePlace ==
    ASSUME NEW c \in Chains, NEW h \in Chains, NEW e \in Events, NEW f \in Events,
           Extends(c, Append(h, e)), Extends(c, Append(h, f))
    PROVE  e = f
<1>1. Len(h) \in Nat /\ Len(Append(h, e)) = Len(h) + 1 /\ Len(Append(h, f)) = Len(h) + 1
  BY DEF Chains
<1>2. Append(h, e)[Len(h) + 1] = e /\ Append(h, f)[Len(h) + 1] = f
  BY DEF Chains
<1> QED
  BY <1>1, <1>2 DEF Extends

-----------------------------------------------------------------------------
(* The inductive invariant                                                 *)

\* A broker at work has a whole request, whose reviewer waits for it.
ServingInv ==
    /\ \A r \in Reviewers : reviewer[r].state = "sent" => reviewer[r].manifest \in Manifests
    /\ \A b \in Brokers :
          pc[b] # "idle" => /\ serving[b] \in Reviewers
                            /\ Request(b).state = "sent"
                            /\ Request(b).broker = b

\* The flock is held exactly during the locked steps.
LockInv == \A b \in Brokers : lock = b <=> pc[b] \in LockedSteps

\* What the holder of the flock knows of the file, and what a broker that is
\* about to report a success knows of it.
WriteInv(b) ==
    /\ pc[b] \in {"writing", "replacing"} =>
          /\ base[b] = Request(b).head
          /\ sidecar = base[b]
          /\ ~Replayed(base[b], Request(b).manifest)
          /\ Decidable(base[b], Request(b).manifest)
    /\ pc[b] \in {"syncing", "reading"} =>
          /\ base[b] = Request(b).head
          /\ sidecar = Append(base[b], EventOf(b))
    /\ pc[b] = "reading" => durable = sidecar
    /\ pc[b] = "appended" => Extends(durable, Append(Request(b).head, EventOf(b)))

\* The file never lacks what was durable.
FileInv == Extends(sidecar, durable) /\ Valid(sidecar)

IInv ==
    /\ TypeOK
    /\ ServingInv
    /\ LockInv
    /\ \A b \in Brokers : WriteInv(b)
    /\ FileInv
    /\ AcknowledgedIsKept

USE ManifestsDecide, NoneIsNoBroker, NoneIsFresh

(* The initial states satisfy the inductive invariant.                     *)
LEMMA InitInv == Init => IInv
<1> SUFFICES ASSUME Init PROVE IInv
  OBVIOUS
<1> USE DEF Init
<1>1. TypeOK
  BY DEF TypeOK, Chains, Steps, Drafting, ReviewerStates, Acknowledgements
<1>2. ServingInv
  BY DEF ServingInv, Drafting
<1>3. LockInv
  BY DEF LockInv, LockedSteps
<1>4. \A b \in Brokers : WriteInv(b)
  BY DEF WriteInv
<1>5. FileInv
  BY DEF FileInv, Extends, Valid
<1>6. AcknowledgedIsKept
  BY DEF AcknowledgedIsKept
<1> QED
  BY <1>1, <1>2, <1>3, <1>4, <1>5, <1>6 DEF IInv

(* A broker that works decides on a decision of a reviewer the broker      *)
(* allows.                                                                 *)
LEMMA EventIsEvent ==
    ASSUME TypeOK, ServingInv, NEW b \in Brokers, pc[b] # "idle"
    PROVE  /\ EventOf(b) \in Events
           /\ Request(b).manifest \in Manifests
           /\ Request(b).head \in Chains
           /\ EventOf(b).event = Request(b).manifest.event
           /\ EventOf(b).occurrence = Request(b).manifest.occurrence
<1>1. serving[b] \in Reviewers /\ reviewer[serving[b]] \in ReviewerStates
  BY DEF TypeOK, ServingInv
<1>2. Request(b).manifest \in Manifests /\ Request(b).head \in Chains
  BY <1>1 DEF ServingInv, Request, ReviewerStates
<1>3. Request(b).manifest.event \in EventIds /\ Request(b).manifest.occurrence \in Occurrences
  BY <1>2
<1> QED
  BY <1>1, <1>2, <1>3 DEF EventOf, Events

-----------------------------------------------------------------------------
(* Type correctness and the control state                                  *)

(* Every step keeps the types.                                             *)
LEMMA TypeStep ==
    ASSUME TypeOK, ServingInv, [Next]_vars
    PROVE  TypeOK'
<1> USE DEF TypeOK
<1>1. ASSUME NEW r \in Reviewers, ReadHead(r)
      PROVE  TypeOK'
  BY <1>1 DEF ReadHead, Drafting, ReviewerStates, file
<1>2. ASSUME NEW r \in Reviewers, NEW m \in Manifests, NEW b \in Brokers, Send(r, m, b)
      PROVE  TypeOK'
  <2>1. reviewer[r].head \in Chains
    BY DEF ReviewerStates
  <2> QED
    BY <1>2, <2>1 DEF Send, ReviewerStates, file
<1>3. ASSUME NEW b \in Brokers, NEW r \in Reviewers, Accept(b, r)
      PROVE  TypeOK'
  BY <1>3 DEF Accept, Goto, Steps, file
<1>4. ASSUME NEW b \in Brokers, NEW outcome \in Outcomes, Release(b, outcome)
      PROVE  /\ lock' \in Brokers \cup {None}
             /\ pc' \in [Brokers -> Steps]
             /\ base' \in [Brokers -> Chains]
  BY <1>4 DEF Release, Goto, Steps, Chains
<1>5. ASSUME NEW b \in Brokers, Lock(b)
      PROVE  TypeOK'
  BY <1>4, <1>5 DEF Lock, Goto, Steps, LockedSteps, Outcomes, file
<1>6. ASSUME NEW b \in Brokers, Decide(b)
      PROVE  TypeOK'
  BY <1>4, <1>6 DEF Decide, Goto, Steps, LockedSteps, Outcomes, file
<1>7. ASSUME NEW b \in Brokers, WriteTemporary(b)
      PROVE  TypeOK'
  BY <1>4, <1>7 DEF WriteTemporary, Goto, Steps, LockedSteps, Outcomes, file
<1>8. ASSUME NEW b \in Brokers, Replace(b)
      PROVE  TypeOK'
  <2>1. Append(base[b], EventOf(b)) \in Chains
    BY <1>8, EventIsEvent, AppendExtends DEF Replace
  <2> QED
    BY <1>8, <2>1 DEF Replace, Goto, Steps, LockedSteps
<1>9. ASSUME NEW b \in Brokers, SyncDirectory(b)
      PROVE  TypeOK'
  BY <1>4, <1>9 DEF SyncDirectory, Goto, Steps, LockedSteps, Outcomes
<1>10. ASSUME NEW b \in Brokers, ReadBack(b)
       PROVE  TypeOK'
  BY <1>4, <1>10 DEF ReadBack, Outcomes, file
<1>11. ASSUME NEW b \in Brokers, Answer(b)
       PROVE  TypeOK'
  <2>1. serving[b] \in Reviewers /\ EventOf(b) \in Events /\ Request(b).head \in Chains
    BY <1>11, EventIsEvent DEF Answer, Outcomes, ServingInv
  <2>2. acknowledged' \subseteq Acknowledgements
    BY <1>11, <2>1 DEF Answer, Acknowledgements
  <2>3. reviewer' \in [Reviewers -> ReviewerStates]
    BY <1>11, <2>1 DEF Answer, Drafting, ReviewerStates, Request
  <2> QED
    BY <1>11, <2>2, <2>3 DEF Answer, Goto, Steps, file
<1>12. ASSUME NEW gone
       PROVE  Dropped(gone) \in [Reviewers -> ReviewerStates]
  BY DEF Dropped, Drafting, ReviewerStates
<1>13. ASSUME NEW b \in Brokers, Crash(b)
       PROVE  TypeOK'
  BY <1>12, <1>13 DEF Crash, Goto, Steps, Chains, file
<1>14. CASE PowerLoss
  <2>1. Len(sidecar) \in Nat /\ Len(durable) \in Nat
    BY DEF Chains
  <2>2. \A n \in Len(durable) .. Len(sidecar) : SubSeq(sidecar, 1, n) \in Chains
    BY <2>1 DEF Chains
  <2>3. sidecar' \in Chains /\ durable' \in Chains
    BY <1>14, <2>2 DEF PowerLoss
  <2>4. reviewer' \in [Reviewers -> ReviewerStates]
    BY <1>12, <1>14 DEF PowerLoss
  <2>5. <<>> \in Chains /\ "idle" \in Steps
    BY DEF Chains, Steps
  <2> QED
    BY <1>14, <2>3, <2>4, <2>5 DEF PowerLoss
<1>15. CASE UNCHANGED vars
  BY <1>15 DEF vars, file
<1> QED
  BY <1>1, <1>2, <1>3, <1>5, <1>6, <1>7, <1>8, <1>9, <1>10, <1>11, <1>13, <1>14, <1>15
     DEF Next, ReviewerNext, BrokerNext

(* A broker that goes on working keeps its request.                        *)
LEMMA RequestStays ==
    ASSUME TypeOK, ServingInv, [Next]_vars, NEW b \in Brokers,
           pc[b] # "idle", pc'[b] # "idle"
    PROVE  serving'[b] = serving[b] /\ reviewer'[serving[b]] = reviewer[serving[b]]
<1> USE DEF TypeOK
<1>0. serving[b] \in Reviewers /\ reviewer[serving[b]].state = "sent"
          /\ reviewer[serving[b]].broker = b
  BY DEF ServingInv, Request
<1>1. ASSUME NEW r \in Reviewers, ReadHead(r)
      PROVE  serving' = serving /\ reviewer'[serving[b]] = reviewer[serving[b]]
  BY <1>0, <1>1 DEF ReadHead
<1>2. ASSUME NEW r \in Reviewers, NEW m \in Manifests, NEW c \in Brokers, Send(r, m, c)
      PROVE  serving' = serving /\ reviewer'[serving[b]] = reviewer[serving[b]]
  BY <1>0, <1>2 DEF Send
<1>3. ASSUME NEW c \in Brokers, NEW r \in Reviewers, Accept(c, r)
      PROVE  serving'[b] = serving[b] /\ reviewer' = reviewer
  BY <1>3 DEF Accept
<1>4. ASSUME NEW c \in Brokers,
             Lock(c) \/ Decide(c) \/ WriteTemporary(c) \/ Replace(c)
                 \/ SyncDirectory(c) \/ ReadBack(c)
      PROVE  serving' = serving /\ reviewer' = reviewer
  BY <1>4 DEF Lock, Decide, WriteTemporary, Replace, SyncDirectory, ReadBack
<1>5. ASSUME NEW c \in Brokers, Answer(c)
      PROVE  serving'[b] = serving[b] /\ reviewer'[serving[b]] = reviewer[serving[b]]
  <2>1. pc[c] # "idle" /\ c # b
    BY <1>5 DEF Answer, Goto, Outcomes
  <2>2. serving[c] # serving[b]
    BY <1>0, <2>1 DEF ServingInv, Request
  <2> QED
    BY <1>0, <1>5, <2>1, <2>2 DEF Answer
<1>6. ASSUME NEW c \in Brokers, Crash(c)
      PROVE  serving'[b] = serving[b] /\ reviewer'[serving[b]] = reviewer[serving[b]]
  <2>1. c # b
    BY <1>6 DEF Crash, Goto
  <2> QED
    BY <1>0, <1>6, <2>1 DEF Crash, Dropped
<1>7. ~PowerLoss
  BY DEF PowerLoss
<1>8. CASE UNCHANGED vars
  BY <1>8 DEF vars
<1> QED
  BY <1>1, <1>2, <1>3, <1>4, <1>5, <1>6, <1>7, <1>8 DEF Next, ReviewerNext, BrokerNext

(* Every step keeps the requests of working brokers whole.                 *)
LEMMA ServingStep ==
    ASSUME TypeOK, ServingInv, [Next]_vars
    PROVE  ServingInv'
<1> USE DEF TypeOK
<1>1. ASSUME NEW r \in Reviewers, reviewer'[r].state = "sent"
      PROVE  reviewer'[r].manifest \in Manifests
  <2>1. reviewer'[r] = reviewer[r] \/ reviewer'[r].state = "drafting"
            \/ \E m \in Manifests, b \in Brokers : Send(r, m, b)
    <3>1. ASSUME NEW q \in Reviewers, ReadHead(q)
          PROVE  reviewer'[r] = reviewer[r] \/ reviewer'[r].state = "drafting"
      BY <3>1 DEF ReadHead, Drafting
    <3>2. ASSUME NEW q \in Reviewers, NEW m \in Manifests, NEW b \in Brokers,
                 Send(q, m, b), q # r
          PROVE  reviewer'[r] = reviewer[r]
      BY <3>2 DEF Send
    <3>3. ASSUME NEW b \in Brokers, BrokerNext(b)
          PROVE  reviewer'[r] = reviewer[r] \/ reviewer'[r].state = "drafting"
      BY <3>3 DEF BrokerNext, Accept, Lock, Decide, WriteTemporary, Replace,
                  SyncDirectory, ReadBack, Answer, Drafting
    <3>4. ASSUME NEW b \in Brokers, Crash(b)
          PROVE  reviewer'[r] = reviewer[r] \/ reviewer'[r].state = "drafting"
      BY <3>4 DEF Crash, Dropped, Drafting
    <3>5. CASE PowerLoss
      BY <3>5 DEF PowerLoss, Dropped, Drafting
    <3>6. CASE UNCHANGED vars
      BY <3>6 DEF vars
    <3> QED
      BY <3>1, <3>2, <3>3, <3>4, <3>5, <3>6 DEF Next, ReviewerNext
  <2>2. ASSUME NEW m \in Manifests, NEW b \in Brokers, Send(r, m, b)
        PROVE  reviewer'[r].manifest \in Manifests
    BY <2>2 DEF Send
  <2> QED
    BY <1>1, <2>1, <2>2 DEF ServingInv
<1>2. ASSUME NEW b \in Brokers, pc'[b] # "idle"
      PROVE  serving'[b] \in Reviewers /\ reviewer'[serving'[b]].state = "sent"
                 /\ reviewer'[serving'[b]].broker = b
  <2>1. CASE pc[b] # "idle"
    BY <1>2, <2>1, RequestStays DEF ServingInv, Request
  <2>2. CASE pc[b] = "idle"
    <3>1. \E r \in Reviewers : Accept(b, r)
      <4>1. ASSUME NEW r \in Reviewers, ReviewerNext(r)
            PROVE  FALSE
        BY <1>2, <2>2, <4>1 DEF ReviewerNext, ReadHead, Send
      <4>2. ASSUME NEW c \in Brokers, c # b, BrokerNext(c)
            PROVE  FALSE
        BY <1>2, <2>2, <4>2 DEF BrokerNext, Accept, Lock, Decide, WriteTemporary,
               Replace, SyncDirectory, ReadBack, Answer, Goto, Release
      <4>3. ASSUME NEW c \in Brokers, Crash(c)
            PROVE  FALSE
        BY <1>2, <2>2, <4>3 DEF Crash, Goto
      <4>4. ~PowerLoss
        BY <1>2 DEF PowerLoss
      <4>5. ~UNCHANGED vars
        BY <1>2, <2>2 DEF vars
      <4>6. BrokerNext(b)
        BY <4>1, <4>2, <4>3, <4>4, <4>5 DEF Next
      <4> QED
        BY <2>2, <4>6 DEF BrokerNext, Lock, Decide, WriteTemporary, Replace,
               SyncDirectory, ReadBack, Answer, Outcomes
    <3> QED
      BY <3>1 DEF Accept
  <2> QED
    BY <2>1, <2>2
<1> QED
  BY <1>1, <1>2 DEF ServingInv, Request

-----------------------------------------------------------------------------
(* The flock                                                               *)

(* Every step keeps the flock with the broker in the locked steps.         *)
LEMMA LockStep ==
    ASSUME TypeOK, LockInv, [Next]_vars
    PROVE  LockInv'
<1> USE DEF TypeOK, LockInv, Goto
<1>1. ASSUME NEW r \in Reviewers, ReviewerNext(r)
      PROVE  LockInv'
  BY <1>1 DEF ReviewerNext, ReadHead, Send
<1>2. ASSUME NEW b \in Brokers, NEW outcome \in Outcomes, Release(b, outcome)
      PROVE  LockInv'
  BY <1>2 DEF Release, LockedSteps, Outcomes
<1>3. ASSUME NEW b \in Brokers, NEW r \in Reviewers, Accept(b, r)
      PROVE  LockInv'
  BY <1>3 DEF Accept, LockedSteps
<1>4. ASSUME NEW b \in Brokers, Lock(b)
      PROVE  LockInv'
  BY <1>2, <1>4 DEF Lock, LockedSteps, Outcomes
<1>5. ASSUME NEW b \in Brokers, Decide(b)
      PROVE  LockInv'
  BY <1>2, <1>5 DEF Decide, LockedSteps, Outcomes
<1>6. ASSUME NEW b \in Brokers, WriteTemporary(b)
      PROVE  LockInv'
  BY <1>2, <1>6 DEF WriteTemporary, LockedSteps, Outcomes
<1>7. ASSUME NEW b \in Brokers, Replace(b)
      PROVE  LockInv'
  BY <1>7 DEF Replace, LockedSteps
<1>8. ASSUME NEW b \in Brokers, SyncDirectory(b)
      PROVE  LockInv'
  BY <1>2, <1>8 DEF SyncDirectory, LockedSteps, Outcomes
<1>9. ASSUME NEW b \in Brokers, ReadBack(b)
      PROVE  LockInv'
  BY <1>2, <1>9 DEF ReadBack, Outcomes
<1>10. ASSUME NEW b \in Brokers, Answer(b)
       PROVE  LockInv'
  BY <1>10 DEF Answer, LockedSteps, Outcomes
<1>11. ASSUME NEW b \in Brokers, Crash(b)
       PROVE  LockInv'
  BY <1>11 DEF Crash, LockedSteps
<1>12. CASE PowerLoss
  BY <1>12 DEF PowerLoss, LockedSteps
<1>13. CASE UNCHANGED vars
  BY <1>13 DEF vars
<1> QED
  BY <1>1, <1>3, <1>4, <1>5, <1>6, <1>7, <1>8, <1>9, <1>10, <1>11, <1>12, <1>13
     DEF Next, BrokerNext

(* A broker moves only itself, and while it is in the locked steps nobody  *)
(* else moves the file.                                                    *)
LEMMA OthersStay ==
    ASSUME TypeOK, LockInv, NEW b \in Brokers, NEW c \in Brokers, c # b,
           BrokerNext(c) \/ Crash(c)
    PROVE  /\ pc'[b] = pc[b] /\ base'[b] = base[b]
           /\ pc[b] \in LockedSteps => sidecar' = sidecar /\ durable' = durable
<1> USE DEF TypeOK, Goto, file
<1>1. pc'[b] = pc[b] /\ base'[b] = base[b]
  BY DEF BrokerNext, Accept, Lock, Decide, WriteTemporary, Replace, SyncDirectory,
         ReadBack, Answer, Crash, Release
<1>2. ASSUME pc[b] \in LockedSteps
      PROVE  sidecar' = sidecar /\ durable' = durable
  <2>1. pc[c] \notin LockedSteps
    BY <1>2 DEF LockInv
  <2>2. ~Replace(c) /\ ~SyncDirectory(c)
    BY <2>1 DEF Replace, SyncDirectory, LockedSteps
  <2> QED
    BY <2>2 DEF BrokerNext, Accept, Lock, Decide, WriteTemporary, ReadBack, Answer, Crash
<1> QED
  BY <1>1, <1>2

-----------------------------------------------------------------------------
(* The file                                                                *)

(* A power loss leaves something between what was durable and what was     *)
(* seen.                                                                   *)
LEMMA PowerLossKeeps ==
    ASSUME TypeOK, FileInv, PowerLoss
    PROVE  /\ sidecar' \in Chains /\ durable' = sidecar'
           /\ Extends(sidecar', durable)
           /\ Extends(sidecar, sidecar')
<1> USE DEF TypeOK, FileInv
<1>1. CASE sidecar' = durable
  BY <1>1, ExtendsItself DEF PowerLoss
<1>2. CASE sidecar' # durable
  <2>1. PICK n \in Len(durable) .. Len(sidecar) : sidecar' = SubSeq(sidecar, 1, n)
    BY <1>2 DEF PowerLoss
  <2>2. /\ SubSeq(sidecar, 1, n) \in Chains
        /\ Extends(SubSeq(sidecar, 1, n), durable)
        /\ Extends(sidecar, SubSeq(sidecar, 1, n))
    BY PrefixExtends
  <2> QED
    BY <2>1, <2>2 DEF PowerLoss
<1> QED
  BY <1>1, <1>2

(* What is durable only grows.                                             *)
LEMMA DurableGrows ==
    ASSUME TypeOK, FileInv, [Next]_vars
    PROVE  Extends(durable', durable)
<1> USE DEF TypeOK, FileInv, file
<1>1. CASE durable' = durable
  BY <1>1, ExtendsItself
<1>2. CASE durable' = sidecar
  BY <1>2
<1>3. CASE PowerLoss
  BY <1>3, PowerLossKeeps
<1>4. ASSUME NEW b \in Brokers, BrokerNext(b)
      PROVE  durable' \in {durable, sidecar}
  BY <1>4 DEF BrokerNext, Accept, Lock, Decide, WriteTemporary, Replace,
              SyncDirectory, ReadBack, Answer
<1>5. ASSUME NEW r \in Reviewers, ReviewerNext(r)
      PROVE  durable' = durable
  BY <1>5 DEF ReviewerNext, ReadHead, Send
<1>6. ASSUME NEW b \in Brokers, Crash(b)
      PROVE  durable' = durable
  BY <1>6 DEF Crash
<1>7. CASE UNCHANGED vars
  BY <1>1, <1>7 DEF vars
<1> QED
  BY <1>1, <1>2, <1>3, <1>4, <1>5, <1>6, <1>7 DEF Next

(* Every step keeps the file valid and behind nothing that was durable.    *)
LEMMA FileStep ==
    ASSUME TypeOK, ServingInv, FileInv, \A b \in Brokers : WriteInv(b), [Next]_vars
    PROVE  FileInv'
<1> USE DEF TypeOK, file
<1>1. ASSUME sidecar' = sidecar, durable' \in {durable, sidecar}
      PROVE  FileInv'
  BY <1>1, ExtendsItself DEF FileInv
<1>2. ASSUME NEW b \in Brokers, Replace(b)
      PROVE  FileInv'
  <2>1. /\ pc[b] = "replacing" /\ sidecar = base[b] /\ durable' = durable
        /\ sidecar' = Append(sidecar, EventOf(b))
    BY <1>2 DEF Replace, WriteInv
  <2>2. EventOf(b) \in Events /\ Request(b).manifest \in Manifests
            /\ EventOf(b).event = Request(b).manifest.event
            /\ EventOf(b).occurrence = Request(b).manifest.occurrence
    BY <2>1, EventIsEvent
  <2>3. Extends(sidecar', sidecar) /\ sidecar' \in Chains
    BY <2>1, <2>2, AppendExtends
  <2>4. ~Replayed(sidecar, Request(b).manifest) /\ Decidable(sidecar, Request(b).manifest)
    BY <2>1 DEF WriteInv
  <2>5. Valid(sidecar')
    BY <2>1, <2>2, <2>4, AppendValid DEF FileInv
  <2>6. Extends(sidecar', durable)
    BY <2>3, ExtendsTransitive DEF FileInv
  <2> QED
    BY <2>1, <2>5, <2>6 DEF FileInv
<1>3. CASE PowerLoss
  <2>1. durable' = sidecar' /\ sidecar' \in Chains /\ Extends(sidecar, sidecar')
    BY <1>3, PowerLossKeeps
  <2> QED
    BY <2>1, ExtendsItself, PrefixValid DEF FileInv
<1>4. ASSUME NEW b \in Brokers, BrokerNext(b), ~Replace(b)
      PROVE  sidecar' = sidecar /\ durable' \in {durable, sidecar}
  BY <1>4 DEF BrokerNext, Accept, Lock, Decide, WriteTemporary, SyncDirectory,
              ReadBack, Answer
<1>5. ASSUME NEW r \in Reviewers, ReviewerNext(r)
      PROVE  sidecar' = sidecar /\ durable' = durable
  BY <1>5 DEF ReviewerNext, ReadHead, Send
<1>6. ASSUME NEW b \in Brokers, Crash(b)
      PROVE  sidecar' = sidecar /\ durable' = durable
  BY <1>6 DEF Crash
<1>7. CASE UNCHANGED vars
  BY <1>1, <1>7 DEF vars
<1> QED
  BY <1>1, <1>2, <1>3, <1>4, <1>5, <1>6, <1>7 DEF Next

(* Every step keeps what the holder of the flock knows.                    *)
LEMMA WriteStep ==
    ASSUME TypeOK, ServingInv, LockInv, FileInv, NEW b \in Brokers, WriteInv(b),
           [Next]_vars
    PROVE  WriteInv(b)'
<1> USE DEF TypeOK, file
<1>1. ASSUME pc'[b] \notin {"writing", "replacing", "syncing", "reading", "appended"}
      PROVE  WriteInv(b)'
  BY <1>1 DEF WriteInv
<1>2. ASSUME pc[b] # "idle", pc'[b] # "idle"
      PROVE  /\ Request(b)' = Request(b) /\ EventOf(b)' = EventOf(b)
             /\ Request(b).head \in Chains /\ EventOf(b) \in Events
  BY <1>2, RequestStays, EventIsEvent DEF Request, EventOf
<1>3. ASSUME pc'[b] = pc[b], base'[b] = base[b],
             pc[b] \in LockedSteps => sidecar' = sidecar /\ durable' = durable
      PROVE  WriteInv(b)'
  <2>1. CASE pc[b] \in {"writing", "replacing", "syncing", "reading"}
    BY <1>2, <1>3, <2>1 DEF WriteInv, LockedSteps
  <2>2. CASE pc[b] = "appended"
    <3>1. Extends(durable', durable) /\ durable' \in Chains
      BY DurableGrows, TypeStep
    <3>2. Extends(durable, Append(Request(b).head, EventOf(b)))
              /\ Append(Request(b).head, EventOf(b)) \in Chains
      BY <1>2, <1>3, <2>2, AppendExtends DEF WriteInv
    <3> QED
      BY <1>2, <1>3, <2>2, <3>1, <3>2, ExtendsTransitive DEF WriteInv
  <2> QED
    BY <1>1, <1>3, <2>1, <2>2
<1>4. CASE Decide(b)
  BY <1>1, <1>2, <1>4 DEF Decide, Release, Goto, WriteInv
<1>5. CASE WriteTemporary(b)
  BY <1>1, <1>2, <1>5 DEF WriteTemporary, Release, Goto, WriteInv
<1>6. CASE Replace(b)
  BY <1>2, <1>6 DEF Replace, Goto, WriteInv
<1>7. CASE SyncDirectory(b)
  BY <1>1, <1>2, <1>7 DEF SyncDirectory, Release, Goto, WriteInv
<1>8. CASE ReadBack(b)
  <2>1. durable = Append(Request(b).head, EventOf(b))
    BY <1>8 DEF ReadBack, WriteInv
  <2>2. Extends(durable, Append(Request(b).head, EventOf(b)))
    BY <2>1, ExtendsItself
  <2> QED
    BY <1>1, <1>2, <1>8, <2>2 DEF ReadBack, Release, Goto, WriteInv
<1>9. ASSUME (\E r \in Reviewers : Accept(b, r)) \/ Lock(b) \/ Answer(b) \/ Crash(b) \/ PowerLoss
      PROVE  WriteInv(b)'
  BY <1>1, <1>9 DEF Accept, Lock, Answer, Crash, PowerLoss, Release, Goto
<1>10. ASSUME NEW c \in Brokers, c # b, BrokerNext(c) \/ Crash(c)
       PROVE  WriteInv(b)'
  BY <1>3, <1>10, OthersStay
<1>11. ASSUME NEW r \in Reviewers, ReviewerNext(r)
       PROVE  WriteInv(b)'
  BY <1>3, <1>11 DEF ReviewerNext, ReadHead, Send
<1>12. CASE UNCHANGED vars
  BY <1>3, <1>12 DEF vars
<1> QED
  BY <1>4, <1>5, <1>6, <1>7, <1>8, <1>9, <1>10, <1>11, <1>12 DEF Next, BrokerNext

(* No step loses a decision that was reported as a success.                *)
LEMMA AcknowledgedStep ==
    ASSUME TypeOK, ServingInv, FileInv, \A b \in Brokers : WriteInv(b),
           AcknowledgedIsKept, [Next]_vars
    PROVE  AcknowledgedIsKept'
<1> USE DEF TypeOK
<1>1. Extends(durable', durable) /\ durable' \in Chains
  BY DurableGrows, TypeStep
<1>2. ASSUME NEW a \in acknowledged
      PROVE  Extends(durable', Append(a.head, a.event))
  <2>1. Append(a.head, a.event) \in Chains
    BY AppendExtends DEF Acknowledgements
  <2> QED
    BY <1>1, <2>1, ExtendsTransitive DEF AcknowledgedIsKept
<1>3. ASSUME NEW b \in Brokers, Answer(b)
      PROVE  AcknowledgedIsKept'
  <2>1. durable' = durable
    BY <1>3 DEF Answer, file
  <2>2. pc[b] = "appended" => Extends(durable, Append(Request(b).head, EventOf(b)))
    BY DEF WriteInv
  <2> QED
    BY <1>2, <1>3, <2>1, <2>2 DEF Answer, AcknowledgedIsKept
<1>4. ASSUME \A b \in Brokers : ~Answer(b)
      PROVE  acknowledged' = acknowledged
  BY <1>4 DEF Next, ReviewerNext, BrokerNext, ReadHead, Send, Accept, Lock, Decide,
              WriteTemporary, Replace, SyncDirectory, ReadBack, Crash, PowerLoss, vars
<1> QED
  BY <1>2, <1>3, <1>4 DEF AcknowledgedIsKept

-----------------------------------------------------------------------------
(* Theorems                                                                *)

(* The inductive invariant holds in every reachable state.                 *)
THEOREM Invariant == Spec => []IInv
<1>1. IInv /\ [Next]_vars => IInv'
  BY TypeStep, ServingStep, LockStep, WriteStep, FileStep, AcknowledgedStep DEF IInv
<1> QED
  BY <1>1, InitInv, PTL DEF Spec

(* Type correctness of the brokers, the reviewers and the sidecar.         *)
THEOREM TypeCorrect == Spec => []TypeOK
<1>1. IInv => TypeOK
  BY DEF IInv
<1> QED
  BY <1>1, Invariant, PTL

(* The flock is held by a broker that works, whatever ended before.        *)
THEOREM LockIsWorking == Spec => []LockHolderWorks
<1>1. IInv => LockHolderWorks
  BY DEF IInv, TypeOK, LockInv, LockHolderWorks
<1> QED
  BY <1>1, Invariant, PTL

(* The sidecar validates after any crash, race and power loss.             *)
THEOREM SidecarStaysValid == Spec => []SidecarIsValid
<1>1. IInv => SidecarIsValid
  BY PrefixValid DEF IInv, TypeOK, FileInv, SidecarIsValid
<1> QED
  BY <1>1, Invariant, PTL

(* A decision reported as a success is durable for ever, on its head.      *)
THEOREM AcknowledgedStays == Spec => []AcknowledgedIsKept
<1>1. IInv => AcknowledgedIsKept
  BY DEF IInv
<1> QED
  BY <1>1, Invariant, PTL

(* Of any number of reviewers that name one head, one at most succeeds.    *)
THEOREM OneSucceeds == Spec => []OneSuccessPerHead
<1>1. ASSUME IInv
      PROVE  OneSuccessPerHead
  <2>1. ASSUME NEW a1 \in acknowledged, NEW a2 \in acknowledged, a1.head = a2.head
        PROVE  a1 = a2
    <3>1. a1 \in Acknowledgements /\ a2 \in Acknowledgements
      BY <1>1 DEF IInv, TypeOK
    <3>2. Extends(durable, Append(a1.head, a1.event))
              /\ Extends(durable, Append(a1.head, a2.event))
      BY <1>1, <2>1 DEF IInv, AcknowledgedIsKept
    <3>3. a1.event = a2.event
      BY <1>1, <3>1, <3>2, SamePlace DEF IInv, TypeOK, Acknowledgements
    <3> QED
      BY <2>1, <3>1, <3>3 DEF Acknowledgements
  <2> QED
    BY <2>1 DEF OneSuccessPerHead
<1> QED
  BY <1>1, Invariant, PTL

(* The durable sidecar implements the log of decisions.                    *)
THEOREM Refinement == Spec => ImplementsDecisionLog
<1>1. Init => Log!Init
  BY DEF Init, Log!Init
<1>2. ASSUME IInv, IInv', [Next]_vars
      PROVE  [Log!Grow]_durable
  <2>1. durable' \in Chains /\ Valid(durable')
    BY <1>2, PrefixValid DEF IInv, TypeOK, FileInv
  <2>2. Extends(durable', durable)
    BY <1>2, DurableGrows DEF IInv
  <2> QED
    BY <2>1, <2>2 DEF Log!Grow, Log!Valid, Log!Extends, Log!Events, Valid, Extends, Chains, Events
<1> QED
  BY <1>1, <1>2, Invariant, PTL DEF Spec, ImplementsDecisionLog, Log!Spec
=============================================================================
