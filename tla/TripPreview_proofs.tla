--------------------------- MODULE TripPreview_proofs ---------------------------
(***************************************************************************)
(* Proofs about TripPreview, for any number of requests, modes, permits    *)
(* and attempts.  The bound on what is open upstream rests on the queues:  *)
(* a job that leaves a queue is one that was waiting in it, so that it     *)
(* holds what a job holds at that point and nothing else.                  *)
(***************************************************************************)
EXTENDS TripPreview, TripAllowance, FiniteSetTheorems, SequenceTheorems, NaturalsInduction, TLAPS

Pc(j) == job[j].pc

Working == {"http", "line", "fuel"}

Holders == {j \in Jobs : job[j].permit = TRUE}

\* A display job holds a permit exactly while it is at work.
Permitted(j, k) == k.permit = TRUE <=> j \in Display /\ k.pc \in Working

\* A worker that is being cancelled has an upstream request open.
Abortable(k) == k.aborting = TRUE => k.pc \in {"http", "fuel"}

JobInv == \A j \in Jobs : Permitted(j, job[j]) /\ Abortable(job[j])

\* The permits that are out are never more than there are.
CountInv == Cardinality(Holders) <= MaxConcurrency

Items(q) == {q[k] : k \in 1 .. Len(q)}

Distinct(q) == \A k, l \in 1 .. Len(q) : q[k] = q[l] => k = l

\* Each queue holds jobs that wait in it, once.
WaitInv == Distinct(waiting) /\ \A j \in Items(waiting) : Pc(j) = "waiting"

LineInv ==
    \A c \in Clients :
        Distinct(line[c]) /\ \A j \in Items(line[c]) : Pc(j) = "line" /\ Client(j) = c

\* Who asks for a fuel price holds the lock.
LockInv == \A j \in Jobs : Pc(j) = "fuel" => locked[Client(j)] = j

\* The jobs that a request has not come to are idle.
PhaseInv ==
    \A r \in Requests :
        /\ req[r] = "new" => \A k \in Kinds : Pc(<<r, k>>) = "idle"
        /\ req[r] \in {"new", "display"} => Pc(<<r, "OUT">>) = "idle"
        /\ req[r] \in {"new", "display", "out"} => Pc(<<r, "BACK">>) = "idle"

IInv == /\ TypeOK /\ JobInv /\ CountInv
        /\ WaitInv /\ LineInv /\ LockInv /\ PhaseInv

-----------------------------------------------------------------------------
(* Queues                                                                  *)

LEMMA AppendQueue ==
    ASSUME NEW S, NEW q \in Seq(S), NEW e \in S, Distinct(q), e \notin Items(q)
    PROVE  /\ Append(q, e) \in Seq(S)
           /\ Distinct(Append(q, e))
           /\ Items(Append(q, e)) = Items(q) \cup {e}
<1> DEFINE a == Append(q, e)
<1>1. /\ a \in Seq(S) /\ Len(a) = Len(q) + 1 /\ Len(q) \in Nat
      /\ \A k \in 1 .. Len(q) : a[k] = q[k]
      /\ a[Len(q) + 1] = e
  BY AppendProperties
<1> HIDE DEF a
<1>2. \A k \in 1 .. Len(a) : k \in 1 .. Len(q) \/ k = Len(q) + 1
  BY <1>1
<1>3. Distinct(a)
  BY <1>1, <1>2 DEF Distinct, Items
<1>4. Items(a) \subseteq Items(q) \cup {e}
  BY <1>1, <1>2 DEF Items
<1>5. Items(q) \cup {e} \subseteq Items(a)
  BY <1>1 DEF Items
<1> QED
  BY <1>1, <1>3, <1>4, <1>5 DEF a

LEMMA TailQueue ==
    ASSUME NEW S, NEW q \in Seq(S), q # <<>>, Distinct(q)
    PROVE  /\ Tail(q) \in Seq(S) /\ Head(q) \in Items(q)
           /\ Distinct(Tail(q))
           /\ Items(Tail(q)) = Items(q) \ {Head(q)}
<1> DEFINE t == Tail(q)
<1>1. /\ t \in Seq(S) /\ Len(t) = Len(q) - 1 /\ Len(q) \in Nat \ {0}
      /\ \A k \in 1 .. Len(t) : t[k] = q[k + 1]
      /\ Head(q) = q[1]
  BY HeadTailProperties, EmptySeq
<1> HIDE DEF t
<1>2. Distinct(t)
  BY <1>1 DEF Distinct
<1>3. Items(t) \subseteq Items(q) \ {q[1]}
  <2> SUFFICES ASSUME NEW k \in 1 .. Len(t)
               PROVE  t[k] \in Items(q) \ {q[1]}
    BY DEF Items
  <2>1. k + 1 \in 1 .. Len(q) /\ 1 \in 1 .. Len(q) /\ k + 1 # 1
    BY <1>1
  <2> QED
    BY <1>1, <2>1 DEF Items, Distinct
<1>4. Items(q) \ {q[1]} \subseteq Items(t)
  <2> SUFFICES ASSUME NEW k \in 1 .. Len(q), q[k] # q[1]
               PROVE  q[k] \in Items(t)
    BY DEF Items
  <2>1. k - 1 \in 1 .. Len(t) /\ (k - 1) + 1 = k
    BY <1>1
  <2> QED
    BY <1>1, <2>1 DEF Items
<1>5. Head(q) \in Items(q) /\ Items(t) = Items(q) \ {Head(q)}
  <2>1. q[1] \in Items(q)
    BY <1>1 DEF Items
  <2> QED
    BY <1>1, <1>3, <1>4, <2>1
<1> QED
  BY <1>1, <1>2, <1>5 DEF t

LEMMA RemoveQueue ==
    ASSUME NEW S, NEW q \in Seq(S), NEW i \in 1 .. Len(q)
    PROVE  /\ RemoveAt(q, i) \in Seq(S)
           /\ Distinct(q) => /\ Distinct(RemoveAt(q, i))
                             /\ Items(RemoveAt(q, i)) = Items(q) \ {q[i]}
<1> DEFINE a == SubSeq(q, 1, i - 1)
           b == SubSeq(q, i + 1, Len(q))
           d == RemoveAt(q, i)
<1>1. Len(q) \in Nat /\ i \in Nat /\ i >= 1 /\ i <= Len(q)
  BY LenProperties
<1>2. a \in Seq(S) /\ Len(a) = i - 1 /\ \A k \in 1 .. i - 1 : a[k] = q[k]
  <2>1. \A k \in 1 .. i - 1 : q[k] \in S
    BY <1>1, ElementOfSeq
  <2> QED
    BY <1>1, <2>1, SubSeqProperties
<1>3. b \in Seq(S) /\ Len(b) = Len(q) - i /\ \A k \in 1 .. Len(q) - i : b[k] = q[i + k]
  <2>1. \A k \in i + 1 .. Len(q) : q[k] \in S
    BY <1>1, ElementOfSeq
  <2> QED
    BY <1>1, <2>1, SubSeqProperties
<1> HIDE DEF a, b
<1>4. d = a \o b
  BY DEF RemoveAt, a, b
<1> HIDE DEF d
<1>5. /\ d \in Seq(S) /\ Len(d) = Len(q) - 1
      /\ \A k \in 1 .. Len(q) - 1 : d[k] = IF k <= i - 1 THEN a[k] ELSE b[k - (i - 1)]
  <2>1. /\ d \in Seq(S) /\ Len(d) = Len(a) + Len(b)
        /\ \A k \in 1 .. Len(a) + Len(b) : d[k] = IF k <= Len(a) THEN a[k] ELSE b[k - Len(a)]
    BY <1>2, <1>3, <1>4, ConcatProperties
  <2>2. Len(a) = i - 1 /\ Len(a) + Len(b) = Len(q) - 1
    BY <1>1, <1>2, <1>3
  <2> QED
    BY <2>1, <2>2
<1>6. \A k \in 1 .. Len(q) - 1 : d[k] = IF k < i THEN q[k] ELSE q[k + 1]
  <2> SUFFICES ASSUME NEW k \in 1 .. Len(q) - 1
               PROVE  d[k] = IF k < i THEN q[k] ELSE q[k + 1]
    OBVIOUS
  <2>1. CASE k < i
    BY <1>1, <1>2, <1>5, <2>1
  <2>2. CASE ~(k < i)
    <3>1. k - (i - 1) \in 1 .. Len(q) - i /\ i + (k - (i - 1)) = k + 1
      BY <1>1, <2>2
    <3> QED
      BY <1>1, <1>3, <1>5, <2>2, <3>1
  <2> QED
    BY <2>1, <2>2
<1>7. ASSUME Distinct(q)
      PROVE  Distinct(d) /\ Items(d) = Items(q) \ {q[i]}
  <2>1. Distinct(d)
    <3> SUFFICES ASSUME NEW k \in 1 .. Len(q) - 1, NEW l \in 1 .. Len(q) - 1, d[k] = d[l]
                 PROVE  k = l
      BY <1>5 DEF Distinct
    <3> DEFINE k2 == IF k < i THEN k ELSE k + 1
               l2 == IF l < i THEN l ELSE l + 1
    <3>1. k2 \in 1 .. Len(q) /\ l2 \in 1 .. Len(q)
      BY <1>1
    <3>2. d[k] = q[k2] /\ d[l] = q[l2]
      BY <1>6
    <3>3. k2 = l2
      BY <1>7, <3>1, <3>2 DEF Distinct
    <3> QED
      BY <1>1, <3>3
  <2>2. Items(d) \subseteq Items(q) \ {q[i]}
    <3> SUFFICES ASSUME NEW k \in 1 .. Len(q) - 1
                 PROVE  d[k] \in Items(q) \ {q[i]}
      BY <1>5 DEF Items
    <3>1. CASE k < i
      <4>1. k \in 1 .. Len(q) /\ k # i
        BY <1>1, <3>1
      <4> QED
        BY <1>1, <1>6, <1>7, <3>1, <4>1 DEF Items, Distinct
    <3>2. CASE ~(k < i)
      <4>1. k + 1 \in 1 .. Len(q) /\ k + 1 # i
        BY <1>1, <3>2
      <4> QED
        BY <1>1, <1>6, <1>7, <3>2, <4>1 DEF Items, Distinct
    <3> QED
      BY <3>1, <3>2
  <2>3. Items(q) \ {q[i]} \subseteq Items(d)
    <3> SUFFICES ASSUME NEW k \in 1 .. Len(q), k # i
                 PROVE  q[k] \in Items(d)
      BY DEF Items
    <3>1. CASE k < i
      BY <1>1, <1>5, <1>6, <3>1 DEF Items
    <3>2. CASE ~(k < i)
      <4>1. k - 1 \in 1 .. Len(q) - 1 /\ ~(k - 1 < i) /\ (k - 1) + 1 = k
        BY <1>1, <3>2
      <4> QED
        BY <1>5, <1>6, <4>1 DEF Items
    <3> QED
      BY <3>1, <3>2
  <2> QED
    BY <2>1, <2>2, <2>3
<1> QED
  BY <1>5, <1>7 DEF d

-----------------------------------------------------------------------------
(* Jobs, clients and the cache                                             *)

LEMMA JobNames ==
    /\ Display \subseteq Jobs /\ NoJob \notin Jobs
    /\ \A j \in Jobs : Client(j) \in Clients /\ Kind(j) \in Kinds
    /\ \A r \in Requests : <<r, "OUT">> \in Jobs \ Display /\ <<r, "BACK">> \in Jobs \ Display
    /\ \A r \in Requests, k \in Kinds : <<r, k>> \in Jobs
<1>1. Display \subseteq Jobs /\ \A j \in Jobs : Client(j) \in Clients
  BY DEF Display, Jobs, Kinds, Client, Clients
<1>2. \A j \in Jobs : Kind(j) \in Kinds
  BY DEF Jobs, Kind
<1>3. NoJob \notin Jobs
  BY DEF Jobs, NoJob
<1>4. \A r \in Requests : <<r, "OUT">> \in Jobs \ Display /\ <<r, "BACK">> \in Jobs \ Display
  BY ModesAssumption DEF Jobs, Display, Kinds
<1>5. \A r \in Requests, k \in Kinds : <<r, k>> \in Jobs
  BY DEF Jobs
<1> QED
  BY <1>1, <1>2, <1>3, <1>4, <1>5

LEMMA FiniteJobs == IsFiniteSet(Kinds) /\ IsFiniteSet(Jobs)
<1>1. IsFiniteSet({"OUT", "BACK"})
  <2>1. IsFiniteSet({"OUT"} \cup {"BACK"})
    BY FS_Singleton, FS_AddElement
  <2>2. {"OUT"} \cup {"BACK"} = {"OUT", "BACK"}
    OBVIOUS
  <2> QED
    BY <2>1, <2>2
<1>2. IsFiniteSet(Kinds)
  BY <1>1, FinitenessAssumption, FS_Union DEF Kinds
<1> QED
  BY <1>2, FinitenessAssumption, FS_Product DEF Jobs

(* A nonempty set of natural numbers has a least element.                  *)
LEMMA LeastElement ==
    ASSUME NEW I \in SUBSET Nat, I # {}
    PROVE  Min(I) \in I
<1> DEFINE R == OpToRel(<, Nat)
<1>1. IsWellFoundedOn(R, Nat)
  BY NatLessThanWellFounded
<1>2. \A x, y \in Nat : <<y, x>> \in R <=> y < x
  BY DEF OpToRel
<1> HIDE DEF R
<1>3. PICK x \in I : \A y \in I : ~ (<<y, x>> \in R)
  BY <1>1, WFMin
<1>4. \A y \in I : x \in Nat /\ y \in Nat /\ ~(y < x)
  BY <1>2, <1>3
<1>5. \A y \in I : x =< y
  BY <1>4
<1> QED
  BY <1>5 DEF Min

LEMMA EntryIsThere ==
    ASSUME cache \in Seq(Entries), NEW k
    PROVE  Entry(k) \in 0 .. Len(cache)
<1> DEFINE I == {i \in 1 .. Len(cache) : cache[i].key = k}
<1>1. Entry(k) = IF I # {} THEN Min(I) ELSE 0
  BY DEF Entry, SelectInSeq
<1>2. I \in SUBSET Nat /\ I \subseteq 1 .. Len(cache) /\ Len(cache) \in Nat
  BY LenProperties
<1>3. I # {} => Min(I) \in I
  BY <1>2, LeastElement
<1> HIDE DEF I
<1>4. CASE I = {}
  BY <1>1, <1>2, <1>4
<1>5. CASE I # {}
  <2>1. Min(I) \in 1 .. Len(cache) /\ Entry(k) = Min(I)
    BY <1>1, <1>2, <1>3, <1>5
  <2> QED
    BY <1>2, <2>1
<1> QED
  BY <1>4, <1>5

LEMMA CacheTypes ==
    ASSUME TypeOK, NEW k \in Kinds, NEW got \in {"none", "routes"}
    PROVE  /\ CacheGet(k) \in Seq(Entries) /\ CacheSet(k, got) \in Seq(Entries)
           /\ Hit(k) => cache[Entry(k)].got \in {"none", "routes"}
<1>1. cache \in Seq(Entries) /\ Entry(k) \in 0 .. Len(cache)
  BY EntryIsThere DEF TypeOK
<1>2. Without(k) \in Seq(Entries)
  <2>1. CASE Entry(k) = 0
    BY <1>1, <2>1 DEF Without
  <2>2. CASE Entry(k) # 0
    <3>1. Entry(k) \in 1 .. Len(cache)
      BY <1>1, <2>2, LenProperties
    <3> QED
      BY <1>1, <2>2, <3>1, RemoveQueue DEF Without
  <2> QED
    BY <2>1, <2>2
<1>3. Hit(k) => cache[Entry(k)] \in Entries
  <2>1. Hit(k) => Entry(k) \in 1 .. Len(cache)
    BY <1>1, LenProperties DEF Hit
  <2> QED
    BY <1>1, <2>1, ElementOfSeq
<1>4. CacheGet(k) \in Seq(Entries)
  BY <1>2, <1>3, AppendProperties DEF CacheGet
<1>5. CacheSet(k, got) \in Seq(Entries)
  <2> DEFINE e == [key |-> k, got |-> got, until |-> now + Ttl[k]]
             a == Append(Without(k), e)
  <2>1. e \in Entries
    BY TimesAssumption DEF Entries, TypeOK, Kinds
  <2>2. a \in Seq(Entries) /\ a # <<>>
    BY <1>2, <2>1, AppendProperties
  <2>3. Tail(a) \in Seq(Entries)
    BY <2>2, HeadTailProperties
  <2>4. CacheSet(k, got) = IF Len(a) > MaxEntries THEN Tail(a) ELSE a
    BY DEF CacheSet
  <2> QED
    BY <2>2, <2>3, <2>4
<1> QED
  BY <1>3, <1>4, <1>5 DEF Entries

-----------------------------------------------------------------------------
(* What a step keeps, by what it does to the jobs                          *)

LEMMA CountKept ==
    ASSUME IInv, \A i \in Jobs : job'[i].permit = TRUE => job[i].permit = TRUE
    PROVE  CountInv'
<1>1. Holders' \subseteq Holders
  BY DEF Holders
<1>2. IsFiniteSet(Holders)
  BY FiniteJobs, FS_Subset DEF Holders
<1>3. /\ Cardinality(Holders') <= Cardinality(Holders)
      /\ Cardinality(Holders') \in Nat /\ Cardinality(Holders) \in Nat
  BY <1>1, <1>2, FS_Subset, FS_CardinalityType
<1> QED
  BY <1>3, ConcurrencyAssumption DEF IInv, CountInv

LEMMA PhaseKept ==
    ASSUME IInv, UNCHANGED req, \A i \in Jobs : Pc(i) = "idle" => Pc(i)' = "idle"
    PROVE  PhaseInv'
BY JobNames DEF IInv, PhaseInv

LEMMA WaitKept ==
    ASSUME IInv, UNCHANGED waiting, \A i \in Jobs : Pc(i) = "waiting" => Pc(i)' = "waiting"
    PROVE  WaitInv'
<1>1. Items(waiting) \subseteq Jobs
  BY JobNames, ElementOfSeq DEF IInv, TypeOK, Items
<1> QED
  BY <1>1 DEF IInv, WaitInv

LEMMA LineItems ==
    ASSUME TypeOK, NEW c \in Clients
    PROVE  line[c] \in Seq(Jobs) /\ Items(line[c]) \subseteq Jobs
BY ElementOfSeq DEF TypeOK, Items

LEMMA LineKept ==
    ASSUME IInv, UNCHANGED line, \A i \in Jobs : Pc(i) = "line" => Pc(i)' = "line"
    PROVE  LineInv'
BY LineItems DEF IInv, LineInv

LEMMA LockKept ==
    ASSUME IInv, UNCHANGED locked, \A i \in Jobs : Pc(i)' = "fuel" => Pc(i) = "fuel"
    PROVE  LockInv'
BY DEF IInv, LockInv

(* The holder of a lock gives it back.                                     *)
LEMMA LockFreed ==
    ASSUME IInv, NEW j \in Jobs, Pc(j) = "fuel", Unlock(j),
           \A i \in Jobs : Pc(i)' = "fuel" => Pc(i) = "fuel" /\ i # j
    PROVE  LockInv' /\ locked' \in [Clients -> Jobs \cup {NoJob}]
<1>1. locked \in [Clients -> Jobs \cup {NoJob}] /\ locked' = [locked EXCEPT ![Client(j)] = NoJob]
  BY DEF IInv, TypeOK, Unlock
<1>2. ASSUME NEW i \in Jobs, Pc(i)' = "fuel"
      PROVE  locked'[Client(i)] = i
  <2>1. locked[Client(i)] = i /\ locked[Client(j)] = j /\ i # j
    BY <1>2 DEF IInv, LockInv
  <2>2. Client(i) \in Clients /\ Client(i) # Client(j)
    BY <2>1, JobNames
  <2> QED
    BY <1>1, <2>1, <2>2
<1> QED
  BY <1>1, <1>2 DEF LockInv

(* A free lock is taken.                                                   *)
LEMMA LockTaken ==
    ASSUME IInv, NEW j \in Jobs, locked[Client(j)] = NoJob,
           locked' = [locked EXCEPT ![Client(j)] = j],
           \A i \in Jobs : Pc(i)' = "fuel" => Pc(i) = "fuel" \/ i = j
    PROVE  LockInv' /\ locked' \in [Clients -> Jobs \cup {NoJob}]
<1>1. locked \in [Clients -> Jobs \cup {NoJob}] /\ Client(j) \in Clients
  BY JobNames DEF IInv, TypeOK
<1>2. ASSUME NEW i \in Jobs, Pc(i)' = "fuel"
      PROVE  locked'[Client(i)] = i
  <2>1. CASE i = j
    BY <1>1, <2>1
  <2>2. CASE i # j
    <3>1. locked[Client(i)] = i
      BY <1>2, <2>2 DEF IInv, LockInv
    <3>2. Client(i) \in Clients /\ Client(i) # Client(j)
      BY <3>1, JobNames
    <3> QED
      BY <1>1, <3>1, <3>2
  <2> QED
    BY <2>1, <2>2
<1> QED
  BY <1>1, <1>2 DEF LockInv

(* The jobs after a step of one of them, which becomes k.                  *)
LEMMA OneJob ==
    ASSUME IInv, NEW j \in Jobs, NEW k \in JobState,
           job' = [job EXCEPT ![j] = k], Permitted(j, k), Abortable(k)
    PROVE  /\ job' \in [Jobs -> JobState] /\ JobInv'
           /\ job'[j] = k /\ \A i \in Jobs : i # j => job'[i] = job[i]
<1>1. /\ job' \in [Jobs -> JobState]
      /\ job'[j] = k /\ \A i \in Jobs : i # j => job'[i] = job[i]
  BY DEF IInv, TypeOK
<1> QED
  BY <1>1 DEF IInv, JobInv, Permitted, Abortable

(* A job leaves the lock's line, from whatever place.                      *)
LEMMA LineLeft ==
    ASSUME IInv, NEW j \in Jobs, NEW i \in 1 .. Len(line[Client(j)]), line[Client(j)][i] = j,
           NEW q \in Seq(Jobs), Distinct(q), Items(q) = Items(line[Client(j)]) \ {j},
           line' = [line EXCEPT ![Client(j)] = q],
           \A h \in Jobs : h # j => job'[h] = job[h]
    PROVE  LineInv' /\ line' \in [Clients -> Seq(Jobs)]
<1>1. line \in [Clients -> Seq(Jobs)] /\ Client(j) \in Clients
  BY JobNames DEF IInv, TypeOK
<1>2. /\ line' \in [Clients -> Seq(Jobs)] /\ line'[Client(j)] = q
      /\ \A c \in Clients : c # Client(j) => line'[c] = line[c]
  BY <1>1
<1>3. ASSUME NEW c \in Clients
      PROVE  Distinct(line'[c]) /\ \A h \in Items(line'[c]) : Pc(h)' = "line" /\ Client(h) = c
  <2>1. Distinct(line'[c]) /\ Items(line'[c]) \subseteq Items(line[c]) \ {j}
    <3>1. CASE c = Client(j)
      BY <1>2, <3>1
    <3>2. CASE c # Client(j)
      BY <1>2, <3>2 DEF IInv, LineInv
    <3> QED
      BY <3>1, <3>2
  <2>2. \A h \in Items(line[c]) : h \in Jobs /\ Pc(h) = "line" /\ Client(h) = c
    BY LineItems DEF IInv, LineInv
  <2>3. \A h \in Jobs : h # j => Pc(h)' = Pc(h)
    BY DEF Pc
  <2> QED
    BY <2>1, <2>2, <2>3
<1> QED
  BY <1>2, <1>3 DEF LineInv

-----------------------------------------------------------------------------
(* The end of a provider's turn                                            *)

\* What a step of job j alone may be: no job starts or comes to hold a permit.
Quietly(j) ==
    /\ UNCHANGED req /\ Pc(j) # "idle"
    /\ job'[j].permit = TRUE => job[j].permit = TRUE

LEMMA QuietJob ==
    ASSUME IInv, NEW j \in Jobs, NEW k \in JobState,
           job' = [job EXCEPT ![j] = k], Permitted(j, k), Abortable(k), Quietly(j)
    PROVE  /\ job' \in [Jobs -> JobState] /\ JobInv' /\ CountInv' /\ PhaseInv'
           /\ job'[j] = k /\ \A i \in Jobs : i # j => job'[i] = job[i]
<1>1. /\ job' \in [Jobs -> JobState] /\ JobInv'
      /\ job'[j] = k /\ \A i \in Jobs : i # j => job'[i] = job[i]
  BY OneJob
<1>2. CountInv'
  BY <1>1, CountKept DEF Quietly
<1>3. PhaseInv'
  <2>1. \A i \in Jobs : Pc(i) = "idle" => Pc(i)' = "idle"
    BY <1>1 DEF Quietly, Pc
  <2> QED
    BY <2>1, PhaseKept DEF Quietly
<1> QED
  BY <1>1, <1>2, <1>3

LEMMA Returns ==
    ASSUME IInv, NEW j \in Jobs, NEW got \in {"none", "routes"}, Pc(j) \in Working,
           Return(j, got), UNCHANGED req
    PROVE  /\ job' \in [Jobs -> JobState] /\ JobInv' /\ CountInv' /\ PhaseInv' /\ WaitInv'
           /\ cache' \in Seq(Entries) /\ waiting' \in Seq(Display)
           /\ Pc(j)' \notin Working /\ \A i \in Jobs : i # j => job'[i] = job[i]
<1> DEFINE k == Returned(j, got)
<1>1. job[j] \in JobState /\ Kind(j) \in Kinds
  BY JobNames DEF IInv, TypeOK
<1>2. /\ k \in JobState /\ k.permit = FALSE /\ k.aborting = FALSE
      /\ k.pc \in {"collected", "done", "waiting"}
      /\ k.pc = "waiting" <=> ~LastHop(j)
  <2> DEFINE free == [job[j] EXCEPT !.permit = FALSE, !.aborting = FALSE, !.tries = 0, !.asked = 0]
  <2>1. free \in JobState /\ free.permit = FALSE /\ free.aborting = FALSE /\ free.hop \in Nat
    <3>1. 0 \in 0 .. MaxTime /\ 0 \in Nat
      BY TimesAssumption
    <3>2. free \in JobState
      BY <1>1, <3>1 DEF JobState
    <3>3. free.permit = FALSE /\ free.aborting = FALSE
      BY <1>1 DEF JobState
    <3>4. free.hop \in Nat
      BY <3>2 DEF JobState
    <3> QED
      BY <3>2, <3>3, <3>4
  <2>2. k = IF LastHop(j)
            THEN [free EXCEPT !.pc = IF j \in Display THEN "collected" ELSE "done",
                              !.got = got, !.hop = 0]
            ELSE [free EXCEPT !.pc = "waiting", !.hop = free.hop + 1, !.got = "none"]
    BY DEF Returned
  <2> HIDE DEF free, k
  <2>3. CASE LastHop(j)
    BY <2>1, <2>2, <2>3 DEF JobState
  <2>4. CASE ~LastHop(j)
    <3>1. free.hop + 1 \in Nat
      BY <2>1
    <3> QED
      BY <2>1, <2>2, <2>4, <3>1 DEF JobState
  <2> QED
    BY <2>3, <2>4
<1>3. job' = [job EXCEPT ![j] = k] /\ waiting' = Rejoin(j) /\ cache' = Remember(j, got)
  BY DEF Return
<1> HIDE DEF k
<1>4. Permitted(j, k) /\ Abortable(k) /\ Quietly(j)
  <2>1. Permitted(j, k) /\ Abortable(k)
    BY <1>2 DEF Permitted, Abortable, Working
  <2>2. job'[j] = k
    BY <1>3 DEF IInv, TypeOK
  <2> QED
    BY <1>2, <2>1, <2>2 DEF Quietly, Working
<1>5. /\ job' \in [Jobs -> JobState] /\ JobInv' /\ CountInv' /\ PhaseInv'
      /\ job'[j] = k /\ \A i \in Jobs : i # j => job'[i] = job[i]
  BY <1>2, <1>3, <1>4, QuietJob
<1>6. waiting' \in Seq(Display) /\ WaitInv'
  <2>1. /\ waiting \in Seq(Display) /\ Distinct(waiting)
        /\ \A i \in Items(waiting) : i \in Jobs /\ Pc(i) = "waiting"
    BY JobNames, ElementOfSeq DEF IInv, TypeOK, WaitInv, Items
  <2>2. j \notin Items(waiting)
    BY <2>1 DEF Working
  <2>3. \A i \in Items(waiting) : Pc(i)' = "waiting"
    BY <1>5, <2>1, <2>2 DEF Pc
  <2>4. CASE LastHop(j)
    BY <1>3, <2>1, <2>3, <2>4 DEF Rejoin, WaitInv
  <2>5. CASE ~LastHop(j)
    <3>1. j \in Display /\ waiting' = Append(waiting, j)
      BY <1>3, <2>5 DEF LastHop, Rejoin
    <3>2. /\ waiting' \in Seq(Display) /\ Distinct(waiting')
          /\ Items(waiting') = Items(waiting) \cup {j}
      BY <2>1, <2>2, <3>1, AppendQueue
    <3>3. Pc(j)' = "waiting"
      BY <1>2, <1>5, <2>5 DEF Pc
    <3> QED
      BY <2>3, <3>2, <3>3 DEF WaitInv
  <2> QED
    BY <2>4, <2>5
<1>7. cache' \in Seq(Entries)
  BY <1>1, <1>3, CacheTypes DEF Remember, IInv, TypeOK
<1> QED
  BY <1>2, <1>5, <1>6, <1>7 DEF Pc, Working

(* The same for a job that is in no line and holds no lock.                *)
LEMMA ReturnsFree ==
    ASSUME IInv, NEW j \in Jobs, NEW got \in {"none", "routes"}, Pc(j) = "http",
           Return(j, got), UNCHANGED <<req, locked, line, price, counts, now>>
    PROVE  IInv'
<1>1. /\ job' \in [Jobs -> JobState] /\ JobInv' /\ CountInv' /\ PhaseInv' /\ WaitInv'
      /\ cache' \in Seq(Entries) /\ waiting' \in Seq(Display)
      /\ Pc(j)' \notin Working /\ \A i \in Jobs : i # j => job'[i] = job[i]
  BY Returns DEF Working
<1>2. LineInv'
  <2>1. \A i \in Jobs : Pc(i) = "line" => Pc(i)' = "line"
    BY <1>1 DEF Pc
  <2> QED
    BY <2>1, LineKept
<1>3. LockInv'
  <2>1. \A i \in Jobs : Pc(i)' = "fuel" => Pc(i) = "fuel"
    BY <1>1 DEF Pc, Working
  <2> QED
    BY <2>1, LockKept
<1>4. TypeOK'
  BY <1>1 DEF IInv, TypeOK
<1> QED
  BY <1>1, <1>2, <1>3, <1>4 DEF IInv

(* The same for the holder of a lock, who gives it back.                   *)
LEMMA ReturnsLock ==
    ASSUME IInv, NEW j \in Jobs, NEW got \in {"none", "routes"}, Pc(j) = "fuel",
           Return(j, got), Unlock(j), UNCHANGED <<req, line, counts, now>>,
           price' \in [Clients -> 0 .. MaxTime + FuelTtl]
    PROVE  IInv'
<1>1. /\ job' \in [Jobs -> JobState] /\ JobInv' /\ CountInv' /\ PhaseInv' /\ WaitInv'
      /\ cache' \in Seq(Entries) /\ waiting' \in Seq(Display)
      /\ Pc(j)' \notin Working /\ \A i \in Jobs : i # j => job'[i] = job[i]
  BY Returns DEF Working
<1>2. LineInv'
  <2>1. \A i \in Jobs : Pc(i) = "line" => Pc(i)' = "line"
    BY <1>1 DEF Pc
  <2> QED
    BY <2>1, LineKept
<1>3. LockInv' /\ locked' \in [Clients -> Jobs \cup {NoJob}]
  <2>1. \A i \in Jobs : Pc(i)' = "fuel" => Pc(i) = "fuel" /\ i # j
    BY <1>1 DEF Pc, Working
  <2> QED
    BY <2>1, LockFreed
<1>4. TypeOK'
  BY <1>1, <1>3 DEF IInv, TypeOK
<1> QED
  BY <1>1, <1>2, <1>3, <1>4 DEF IInv

-----------------------------------------------------------------------------
(* The steps                                                               *)

\* The other jobs stay what they are.
Alone(j) == \A i \in Jobs : i # j => job'[i] = job[i]

LEMMA QueuesKept ==
    ASSUME IInv, NEW j \in Jobs, Alone(j), UNCHANGED <<waiting, line, locked>>,
           Pc(j) \notin {"waiting", "line"}, Pc(j)' = "fuel" => Pc(j) = "fuel"
    PROVE  WaitInv' /\ LineInv' /\ LockInv'
<1>1. /\ \A i \in Jobs : Pc(i) = "waiting" => Pc(i)' = "waiting"
      /\ \A i \in Jobs : Pc(i) = "line" => Pc(i)' = "line"
      /\ \A i \in Jobs : Pc(i)' = "fuel" => Pc(i) = "fuel"
  BY DEF Alone, Pc
<1> QED
  BY <1>1, WaitKept, LineKept, LockKept

LEMMA ArriveKeeps ==
    ASSUME IInv, NEW r \in Requests, Arrive(r)
    PROVE  IInv'
<1>1. /\ req[r] = "new" /\ UNCHANGED <<waiting, locked, line, price, cache, now>>
      /\ \A k \in Kinds : Pc(<<r, k>>) = "idle"
  BY DEF Arrive, shared, IInv, PhaseInv
<1>2. /\ req' \in [Requests -> {"new", "refused", "display", "out", "back", "answered"}]
      /\ counts' \in 0 .. RateLimit
  <2>1. /\ req \in [Requests -> {"new", "refused", "display", "out", "back", "answered"}]
        /\ counts \in 0 .. RateLimit /\ RateLimit \in Nat
    BY TimesAssumption DEF IInv, TypeOK
  <2>2. \/ req' = [req EXCEPT ![r] = "refused"]
        \/ req' = [req EXCEPT ![r] = "display"]
        \/ req' = [req EXCEPT ![r] = "answered"]
    BY DEF Arrive
  <2>3. counts' = counts \/ (counts < RateLimit /\ counts' = counts + 1)
    BY DEF Arrive
  <2>4. counts' \in 0 .. RateLimit
    BY <2>1, <2>3
  <2>5. req' \in [Requests -> {"new", "refused", "display", "out", "back", "answered"}]
    BY <2>1, <2>2
  <2> QED
    BY <2>4, <2>5
<1>3. CASE UNCHANGED job /\ \E a \in {"refused", "answered"} : req' = [req EXCEPT ![r] = a]
  <2>1. PhaseInv'
    BY <1>3 DEF PhaseInv, IInv, TypeOK, Pc
  <2>2. CountInv' /\ JobInv'
    BY <1>3 DEF CountInv, JobInv, Holders, IInv
  <2>3. WaitInv' /\ LineInv' /\ LockInv'
    BY <1>1, <1>3 DEF WaitInv, LineInv, LockInv, IInv, Pc
  <2> QED
    BY <1>1, <1>2, <1>3, <2>1, <2>2, <2>3 DEF IInv, TypeOK
<1>4. CASE /\ req' = [req EXCEPT ![r] = "display"]
           /\ job' = [j \in Jobs |-> IF j[1] = r /\ j \in Display
                                     THEN [job[j] EXCEPT !.pc = "ready"] ELSE job[j]]
  <2>1. \A j \in Jobs : job[j] \in JobState /\ (j[1] = r => Pc(j) = "idle")
    BY <1>1 DEF IInv, TypeOK, Jobs
  <2>2. ASSUME NEW j \in Jobs
        PROVE  /\ job'[j] \in JobState
               /\ job'[j].permit = job[j].permit /\ job'[j].aborting = job[j].aborting
               /\ \/ job'[j] = job[j]
                  \/ Pc(j) = "idle" /\ Pc(j)' = "ready" /\ j[1] = r /\ j \in Display
    <3>1. CASE j[1] = r /\ j \in Display
      <4>1. job'[j] = [job[j] EXCEPT !.pc = "ready"]
        BY <1>4, <3>1
      <4>2. Pc(j)' = "ready"
        BY <2>1, <4>1 DEF Pc, JobState
      <4> QED
        BY <2>1, <3>1, <4>1, <4>2 DEF JobState
    <3>2. CASE ~(j[1] = r /\ j \in Display)
      <4>1. job'[j] = job[j]
        BY <1>4, <3>2
      <4> QED
        BY <2>1, <4>1
    <3> QED
      BY <3>1, <3>2
  <2>3. job' \in [Jobs -> JobState]
    BY <1>4, <2>2
  <2>4. JobInv'
    BY <2>2 DEF IInv, JobInv, Permitted, Abortable, Working, Pc
  <2>5. CountInv'
    BY <2>2, CountKept
  <2>6. WaitInv' /\ LineInv' /\ LockInv'
    <3>1. /\ \A i \in Jobs : Pc(i) = "waiting" => Pc(i)' = "waiting"
          /\ \A i \in Jobs : Pc(i) = "line" => Pc(i)' = "line"
          /\ \A i \in Jobs : Pc(i)' = "fuel" => Pc(i) = "fuel"
      BY <2>2 DEF Pc
    <3> QED
      BY <1>1, <3>1, WaitKept, LineKept, LockKept
  <2>7. PhaseInv'
    <3> SUFFICES ASSUME NEW s \in Requests
                 PROVE  /\ req'[s] = "new" => \A k \in Kinds : Pc(<<s, k>>)' = "idle"
                        /\ req'[s] \in {"new", "display"} => Pc(<<s, "OUT">>)' = "idle"
                        /\ req'[s] \in {"new", "display", "out"} => Pc(<<s, "BACK">>)' = "idle"
      BY DEF PhaseInv
    <3>1. "OUT" \in Kinds /\ "BACK" \in Kinds
      BY DEF Kinds
    <3>2. CASE s = r
      <4>1. job'[<<r, "OUT">>] = job[<<r, "OUT">>] /\ job'[<<r, "BACK">>] = job[<<r, "BACK">>]
        BY <2>2, JobNames
      <4>2. req'[r] = "display"
        BY <1>4 DEF IInv, TypeOK
      <4> QED
        BY <1>1, <3>1, <3>2, <4>1, <4>2 DEF Pc
    <3>3. CASE s # r
      <4>1. \A k \in Kinds : job'[<<s, k>>] = job[<<s, k>>]
        BY <2>2, <3>3, JobNames
      <4>2. req'[s] = req[s]
        BY <1>4, <3>3
      <4> QED
        BY <3>1, <4>1, <4>2 DEF IInv, PhaseInv, Pc
    <3> QED
      BY <3>2, <3>3
  <2> QED
    BY <1>1, <1>2, <2>3, <2>4, <2>5, <2>6, <2>7 DEF IInv, TypeOK
<1> QED
  BY <1>3, <1>4 DEF Arrive

LEMMA LookupKeeps ==
    ASSUME IInv, NEW j \in Jobs, Lookup(j)
    PROVE  IInv'
<1>1. /\ Pc(j) = "ready" /\ job[j] \in JobState /\ job[j].permit = FALSE /\ job[j].aborting = FALSE
      /\ UNCHANGED <<req, locked, line, price, counts, now>>
  <2>1. Pc(j) = "ready" /\ job[j] \in JobState /\ UNCHANGED <<req, locked, line, price, counts, now>>
    BY DEF Lookup, Pc, IInv, TypeOK
  <2> QED
    BY <2>1 DEF IInv, JobInv, Permitted, Abortable, Working, Pc, JobState
<1>2. cache' \in Seq(Entries) /\ (Hit(Kind(j)) => cache[Entry(Kind(j))].got \in {"none", "routes"})
  BY CacheTypes, JobNames DEF Lookup, IInv
<1>3. CASE Hit(Kind(j))
  <2> DEFINE g == cache[Entry(Kind(j))].got
             k == [job[j] EXCEPT !.pc = "done", !.got = g]
  <2>1. job' = [job EXCEPT ![j] = k] /\ UNCHANGED waiting
    BY <1>3 DEF Lookup
  <2>2. k \in JobState /\ k.pc = "done" /\ k.permit = FALSE /\ k.aborting = FALSE
    BY <1>1, <1>2, <1>3 DEF JobState
  <2> HIDE DEF k
  <2>3. Permitted(j, k) /\ Abortable(k) /\ job'[j] = k
    BY <2>1, <2>2 DEF Permitted, Abortable, Working, IInv, TypeOK
  <2>4. Quietly(j)
    BY <1>1, <2>2, <2>3 DEF Quietly
  <2>5. /\ job' \in [Jobs -> JobState] /\ JobInv' /\ CountInv' /\ PhaseInv' /\ Alone(j)
    BY <2>1, <2>2, <2>3, <2>4, QuietJob DEF Alone
  <2>6. Pc(j)' = "done"
    BY <2>2, <2>3 DEF Pc
  <2>7. WaitInv' /\ LineInv' /\ LockInv'
    BY <1>1, <2>1, <2>5, <2>6, QueuesKept
  <2> QED
    BY <1>1, <1>2, <2>1, <2>5, <2>7 DEF IInv, TypeOK
<1>4. CASE ~Hit(Kind(j)) /\ j \in Display
  <2> DEFINE k == [job[j] EXCEPT !.pc = "waiting", !.hop = 1]
  <2>1. job' = [job EXCEPT ![j] = k] /\ waiting' = Append(waiting, j)
    BY <1>4 DEF Lookup
  <2>2. k \in JobState /\ k.pc = "waiting" /\ k.permit = FALSE /\ k.aborting = FALSE
    BY <1>1 DEF JobState
  <2> HIDE DEF k
  <2>3. Permitted(j, k) /\ Abortable(k) /\ job'[j] = k
    BY <2>1, <2>2 DEF Permitted, Abortable, Working, IInv, TypeOK
  <2>4. Quietly(j)
    BY <1>1, <2>2, <2>3 DEF Quietly
  <2>5. /\ job' \in [Jobs -> JobState] /\ JobInv' /\ CountInv' /\ PhaseInv' /\ Alone(j)
    BY <2>1, <2>2, <2>3, <2>4, QuietJob DEF Alone
  <2>6. Pc(j)' = "waiting"
    BY <2>2, <2>3 DEF Pc
  <2>7. waiting' \in Seq(Display) /\ WaitInv'
    <3>1. /\ waiting \in Seq(Display) /\ Distinct(waiting)
          /\ \A i \in Items(waiting) : i \in Jobs /\ Pc(i) = "waiting"
      BY JobNames, ElementOfSeq DEF IInv, TypeOK, WaitInv, Items
    <3>2. j \notin Items(waiting)
      BY <1>1, <3>1
    <3>3. /\ waiting' \in Seq(Display) /\ Distinct(waiting')
          /\ Items(waiting') = Items(waiting) \cup {j}
      BY <1>4, <2>1, <3>1, <3>2, AppendQueue
    <3>4. \A i \in Items(waiting) : Pc(i)' = Pc(i)
      BY <2>5, <3>1, <3>2 DEF Alone, Pc
    <3> QED
      BY <2>6, <3>1, <3>3, <3>4 DEF WaitInv
  <2>8. LineInv' /\ LockInv'
    <3>1. /\ \A i \in Jobs : Pc(i) = "line" => Pc(i)' = "line"
          /\ \A i \in Jobs : Pc(i)' = "fuel" => Pc(i) = "fuel"
      BY <1>1, <2>5, <2>6 DEF Alone, Pc
    <3> QED
      BY <1>1, <3>1, LineKept, LockKept
  <2> QED
    BY <1>1, <1>2, <2>5, <2>7, <2>8 DEF IInv, TypeOK
<1>5. CASE ~Hit(Kind(j)) /\ j \notin Display
  <2> DEFINE k == [job[j] EXCEPT !.pc = "http", !.hop = 1, !.tries = 1]
  <2>1. job' = [job EXCEPT ![j] = k] /\ UNCHANGED waiting
    BY <1>5 DEF Lookup
  <2>2. k \in JobState /\ k.pc = "http" /\ k.permit = FALSE /\ k.aborting = FALSE
    BY <1>1 DEF JobState
  <2> HIDE DEF k
  <2>3. Permitted(j, k) /\ Abortable(k) /\ job'[j] = k
    BY <1>5, <2>1, <2>2 DEF Permitted, Abortable, Working, IInv, TypeOK
  <2>4. Quietly(j)
    BY <1>1, <2>2, <2>3 DEF Quietly
  <2>5. /\ job' \in [Jobs -> JobState] /\ JobInv' /\ CountInv' /\ PhaseInv' /\ Alone(j)
    BY <2>1, <2>2, <2>3, <2>4, QuietJob DEF Alone
  <2>6. Pc(j)' = "http"
    BY <2>2, <2>3 DEF Pc
  <2>7. WaitInv' /\ LineInv' /\ LockInv'
    BY <1>1, <2>1, <2>5, <2>6, QueuesKept
  <2> QED
    BY <1>1, <1>2, <2>1, <2>5, <2>7 DEF IInv, TypeOK
<1> QED
  BY <1>3, <1>4, <1>5

(* The permit is one of those that are left.                               *)
LEMMA AcquireKeeps ==
    ASSUME IInv, NEW j \in Jobs, Acquire(j)
    PROVE  IInv'
<1>1. /\ waiting # <<>> /\ Head(waiting) = j /\ Permits > 0 /\ waiting' = Tail(waiting)
      /\ UNCHANGED <<req, locked, line, price, cache, counts, now>>
  BY DEF Acquire
<1>2. /\ waiting \in Seq(Display) /\ Distinct(waiting)
      /\ \A i \in Items(waiting) : i \in Jobs /\ i \in Display /\ Pc(i) = "waiting"
  BY JobNames, ElementOfSeq DEF IInv, TypeOK, WaitInv, Items
<1>3. /\ waiting' \in Seq(Display) /\ j \in Items(waiting) /\ Distinct(waiting')
      /\ Items(waiting') = Items(waiting) \ {j}
  BY <1>1, <1>2, TailQueue
<1>4. /\ j \in Display /\ Pc(j) = "waiting" /\ job[j] \in JobState
      /\ job[j].permit = FALSE /\ job[j].aborting = FALSE
  <2>1. j \in Display /\ Pc(j) = "waiting" /\ job[j] \in JobState
    BY <1>2, <1>3 DEF IInv, TypeOK
  <2> QED
    BY <2>1 DEF IInv, JobInv, Permitted, Abortable, Working, Pc, JobState
<1> DEFINE k == [job[j] EXCEPT !.pc = "http", !.permit = TRUE, !.tries = 1]
<1>5. job' = [job EXCEPT ![j] = k]
  BY DEF Acquire
<1>6. k \in JobState /\ k.pc = "http" /\ k.permit = TRUE /\ k.aborting = FALSE
  BY <1>4 DEF JobState
<1> HIDE DEF k
<1>7. Permitted(j, k) /\ Abortable(k)
  BY <1>4, <1>6 DEF Permitted, Abortable, Working
<1>8. /\ job' \in [Jobs -> JobState] /\ JobInv'
      /\ job'[j] = k /\ \A i \in Jobs : i # j => job'[i] = job[i]
  BY <1>5, <1>6, <1>7, OneJob
<1>9. Pc(j)' = "http" /\ \A i \in Jobs : i # j => Pc(i)' = Pc(i)
  BY <1>6, <1>8 DEF Pc
<1>10. CountInv'
  <2>1. Holders' = Holders \cup {j} /\ j \notin Holders
    BY <1>4, <1>6, <1>8 DEF Holders
  <2>2. IsFiniteSet(Holders) /\ Cardinality(Holders) \in Nat
    BY FiniteJobs, FS_Subset, FS_CardinalityType DEF Holders
  <2>3. Cardinality(Holders') = Cardinality(Holders) + 1
    BY <2>1, <2>2, FS_AddElement
  <2>4. {i \in Jobs : job[i].permit} = Holders
    BY DEF Holders, IInv, TypeOK, JobState
  <2>5. MaxConcurrency - Cardinality(Holders) > 0
    BY <1>1, <2>4 DEF Permits
  <2> QED
    BY <2>2, <2>3, <2>5, ConcurrencyAssumption DEF CountInv
<1>11. WaitInv'
  BY <1>2, <1>3, <1>9 DEF WaitInv
<1>12. LineInv' /\ LockInv'
  <2>1. /\ \A i \in Jobs : Pc(i) = "line" => Pc(i)' = "line"
        /\ \A i \in Jobs : Pc(i)' = "fuel" => Pc(i) = "fuel"
    BY <1>4, <1>9
  <2> QED
    BY <1>1, <2>1, LineKept, LockKept
<1>13. PhaseInv'
  <2>1. \A i \in Jobs : Pc(i) = "idle" => Pc(i)' = "idle"
    BY <1>4, <1>9
  <2> QED
    BY <1>1, <2>1, PhaseKept
<1> QED
  BY <1>1, <1>3, <1>8, <1>10, <1>11, <1>12, <1>13 DEF IInv, TypeOK

(* A step of a job that is at work and stays where it is.                  *)
LEMMA StaysAtWork ==
    ASSUME IInv, NEW j \in Jobs, NEW k \in JobState, job' = [job EXCEPT ![j] = k],
           Pc(j) \in {"http", "fuel"}, k.pc = Pc(j), k.permit = job[j].permit,
           UNCHANGED <<req, shared, cache, counts, now>>
    PROVE  IInv'
<1>1. job'[j] = k /\ job[j] \in JobState /\ UNCHANGED <<waiting, locked, line, price>>
  BY DEF IInv, TypeOK, shared
<1>2. Permitted(j, k) /\ Abortable(k) /\ Quietly(j)
  BY <1>1 DEF IInv, JobInv, Permitted, Abortable, Quietly, Pc
<1>3. /\ job' \in [Jobs -> JobState] /\ JobInv' /\ CountInv' /\ PhaseInv' /\ Alone(j)
  BY <1>2, QuietJob DEF Alone
<1>4. WaitInv' /\ LineInv' /\ LockInv'
  <2>1. Pc(j)' = Pc(j)
    BY <1>1 DEF Pc
  <2> QED
    BY <1>1, <1>3, <2>1, QueuesKept
<1> QED
  BY <1>1, <1>3, <1>4 DEF IInv, TypeOK

LEMMA AnotherKeeps ==
    ASSUME IInv, NEW j \in Jobs, Another(j)
    PROVE  IInv'
<1> DEFINE k == [job[j] EXCEPT !.tries = @ + 1]
<1>1. /\ Pc(j) \in {"http", "fuel"} /\ job[j] \in JobState /\ job' = [job EXCEPT ![j] = k]
      /\ UNCHANGED <<req, shared, cache, counts, now>>
  BY DEF Another, Pc, IInv, TypeOK
<1>2. k \in JobState /\ k.pc = Pc(j) /\ k.permit = job[j].permit
  BY <1>1 DEF JobState, Pc
<1> HIDE DEF k
<1> QED
  BY <1>1, <1>2, StaysAtWork

LEMMA TimeoutKeeps ==
    ASSUME IInv, NEW j \in Jobs, Timeout(j)
    PROVE  IInv'
<1> DEFINE k == [job[j] EXCEPT !.aborting = TRUE]
<1>1. /\ Pc(j) \in {"http", "fuel"} /\ job[j] \in JobState /\ job' = [job EXCEPT ![j] = k]
      /\ UNCHANGED <<req, shared, cache, counts, now>>
  BY DEF Timeout, Pc, IInv, TypeOK
<1>2. k \in JobState /\ k.pc = Pc(j) /\ k.permit = job[j].permit
  BY <1>1 DEF JobState, Pc
<1> HIDE DEF k
<1> QED
  BY <1>1, <1>2, StaysAtWork

(* A job takes the lock: it was at work before, and no one holds it.       *)
LEMMA TakesLock ==
    ASSUME IInv, NEW j \in Jobs, NEW k \in JobState, job' = [job EXCEPT ![j] = k],
           Pc(j) \in {"http", "line"}, k.pc = "fuel",
           k.permit = job[j].permit, k.aborting = job[j].aborting,
           locked[Client(j)] = NoJob, locked' = [locked EXCEPT ![Client(j)] = j],
           UNCHANGED <<req, waiting, price, cache, counts, now>>,
           line' \in [Clients -> Seq(Jobs)], LineInv'
    PROVE  IInv'
<1>1. job'[j] = k /\ job[j] \in JobState
  BY DEF IInv, TypeOK
<1>2. Permitted(j, k) /\ Abortable(k) /\ Quietly(j)
  BY <1>1 DEF IInv, JobInv, Permitted, Abortable, Quietly, Pc, Working
<1>3. /\ job' \in [Jobs -> JobState] /\ JobInv' /\ CountInv' /\ PhaseInv' /\ Alone(j)
  BY <1>2, QuietJob DEF Alone
<1>4. Pc(j)' = "fuel" /\ \A i \in Jobs : i # j => Pc(i)' = Pc(i)
  BY <1>1, <1>3 DEF Pc, Alone
<1>5. LockInv' /\ locked' \in [Clients -> Jobs \cup {NoJob}]
  BY <1>4, LockTaken
<1>6. WaitInv'
  BY <1>4, WaitKept
<1> QED
  BY <1>3, <1>5, <1>6 DEF IInv, TypeOK

LEMMA NeedPriceKeeps ==
    ASSUME IInv, NEW j \in Jobs, NEW got \in {"none", "routes"}, Pc(j) = "http",
           job[j].aborting = FALSE, NeedPrice(j, got), UNCHANGED <<req, price, counts, now>>
    PROVE  IInv'
<1>1. job[j] \in JobState /\ Client(j) \in Clients /\ line \in [Clients -> Seq(Jobs)]
  BY JobNames DEF IInv, TypeOK
<1>2. CASE Fresh(Client(j))
  BY <1>2, ReturnsFree DEF NeedPrice
<1>3. CASE ~Fresh(Client(j)) /\ locked[Client(j)] = NoJob /\ line[Client(j)] = <<>>
  <2> DEFINE k == [job[j] EXCEPT !.pc = "fuel", !.tries = 1, !.asked = now, !.got = got]
  <2>1. /\ job' = [job EXCEPT ![j] = k] /\ locked' = [locked EXCEPT ![Client(j)] = j]
        /\ UNCHANGED <<waiting, cache, line>>
    BY <1>3 DEF NeedPrice
  <2>2. now \in 0 .. MaxTime
    BY DEF IInv, TypeOK
  <2>3. k \in JobState /\ k.pc = "fuel" /\ k.permit = job[j].permit /\ k.aborting = job[j].aborting
    BY <1>1, <2>2 DEF JobState
  <2> HIDE DEF k
  <2>4. \A i \in Jobs : Pc(i) = "line" => Pc(i)' = "line"
    BY <2>1 DEF Pc, IInv, TypeOK
  <2>5. LineInv'
    BY <2>1, <2>4, LineKept
  <2> QED
    BY <1>1, <1>3, <2>1, <2>3, <2>5, TakesLock
<1>4. CASE ~Fresh(Client(j)) /\ ~(locked[Client(j)] = NoJob /\ line[Client(j)] = <<>>)
  <2> DEFINE k == [job[j] EXCEPT !.pc = "line", !.got = got]
             c == Client(j)
  <2>1. /\ job' = [job EXCEPT ![j] = k] /\ line' = [line EXCEPT ![c] = Append(line[c], j)]
        /\ UNCHANGED <<waiting, cache, locked>>
    BY <1>4 DEF NeedPrice
  <2>2. k \in JobState /\ k.pc = "line" /\ k.permit = job[j].permit /\ k.aborting = FALSE
    BY <1>1 DEF JobState
  <2> HIDE DEF k
  <2>3. job'[j] = k /\ Permitted(j, k) /\ Abortable(k) /\ Quietly(j)
    BY <2>1, <2>2 DEF IInv, TypeOK, JobInv, Permitted, Abortable, Quietly, Pc, Working
  <2>4. /\ job' \in [Jobs -> JobState] /\ JobInv' /\ CountInv' /\ PhaseInv' /\ Alone(j)
    BY <2>1, <2>2, <2>3, QuietJob DEF Alone
  <2>5. Pc(j)' = "line" /\ \A i \in Jobs : i # j => Pc(i)' = Pc(i)
    BY <2>2, <2>3, <2>4 DEF Pc, Alone
  <2>6. WaitInv' /\ LockInv'
    BY <2>1, <2>5, WaitKept, LockKept
  <2>7. /\ Append(line[c], j) \in Seq(Jobs) /\ Distinct(Append(line[c], j))
        /\ Items(Append(line[c], j)) = Items(line[c]) \cup {j}
    <3>1. line[c] \in Seq(Jobs) /\ Distinct(line[c]) /\ j \notin Items(line[c])
      BY <1>1 DEF IInv, LineInv
    <3> QED
      BY <3>1, AppendQueue
  <2>8. /\ line' \in [Clients -> Seq(Jobs)] /\ line'[c] = Append(line[c], j)
        /\ \A d \in Clients : d # c => line'[d] = line[d]
    BY <1>1, <2>1, <2>7
  <2>9. LineInv'
    <3> SUFFICES ASSUME NEW d \in Clients
                 PROVE  Distinct(line'[d]) /\ \A h \in Items(line'[d]) : Pc(h)' = "line" /\ Client(h) = d
      BY DEF LineInv
    <3>1. /\ Distinct(line[d]) /\ \A h \in Items(line[d]) : Pc(h) = "line" /\ Client(h) = d
          /\ Items(line[d]) \subseteq Jobs
      BY LineItems DEF IInv, LineInv
    <3>2. CASE d = c
      BY <2>5, <2>7, <2>8, <3>1, <3>2
    <3>3. CASE d # c
      BY <2>5, <2>8, <3>1, <3>3
    <3> QED
      BY <3>2, <3>3
  <2> QED
    BY <2>1, <2>4, <2>6, <2>8, <2>9 DEF IInv, TypeOK
<1> QED
  BY <1>2, <1>3, <1>4

LEMMA AnsweredKeeps ==
    ASSUME IInv, NEW j \in Jobs, Answered(j)
    PROVE  IInv'
<1>1. PICK got \in {"routes", "none"} :
         IF IsCar(j) THEN NeedPrice(j, got) ELSE Return(j, got) /\ UNCHANGED <<locked, line>>
  BY DEF Answered
<1>2. Pc(j) = "http" /\ job[j].aborting = FALSE /\ UNCHANGED <<req, price, counts, now>>
  BY DEF Answered, Pc, IInv, TypeOK, JobState
<1>3. CASE IsCar(j)
  BY <1>1, <1>2, <1>3, NeedPriceKeeps
<1>4. CASE ~IsCar(j)
  BY <1>1, <1>2, <1>4, ReturnsFree
<1> QED
  BY <1>3, <1>4

LEMMA FailedKeeps ==
    ASSUME IInv, NEW j \in Jobs, Failed(j)
    PROVE  IInv'
<1>1. Pc(j) = "http" /\ Return(j, "none") /\ UNCHANGED <<req, locked, line, price, counts, now>>
  BY DEF Failed, Pc
<1> QED
  BY <1>1, ReturnsFree

(* A job that leaves the lock's line without having taken the lock.        *)
LEMMA ReturnsFromLine ==
    ASSUME IInv, NEW j \in Jobs, NEW got \in {"none", "routes"}, Pc(j) = "line",
           NEW i \in 1 .. Len(line[Client(j)]), line[Client(j)][i] = j,
           NEW q \in Seq(Jobs), Distinct(q), Items(q) = Items(line[Client(j)]) \ {j},
           line' = [line EXCEPT ![Client(j)] = q],
           Return(j, got), UNCHANGED <<req, locked, price, counts, now>>
    PROVE  IInv'
<1>1. /\ job' \in [Jobs -> JobState] /\ JobInv' /\ CountInv' /\ PhaseInv' /\ WaitInv'
      /\ cache' \in Seq(Entries) /\ waiting' \in Seq(Display)
      /\ Pc(j)' \notin Working /\ \A h \in Jobs : h # j => job'[h] = job[h]
  BY Returns DEF Working
<1>2. LineInv' /\ line' \in [Clients -> Seq(Jobs)]
  BY <1>1, LineLeft
<1>3. LockInv'
  <2>1. \A h \in Jobs : Pc(h)' = "fuel" => Pc(h) = "fuel"
    BY <1>1 DEF Pc, Working
  <2> QED
    BY <2>1, LockKept
<1> QED
  BY <1>1, <1>2, <1>3 DEF IInv, TypeOK

LEMMA TakeLockKeeps ==
    ASSUME IInv, NEW j \in Jobs, TakeLock(j)
    PROVE  IInv'
<1> DEFINE c == Client(j)
           q == Tail(line[c])
<1>1. /\ line[c] # <<>> /\ Head(line[c]) = j /\ locked[c] = NoJob
      /\ line' = [line EXCEPT ![c] = q] /\ UNCHANGED <<req, price, counts, now>>
  BY DEF TakeLock
<1>2. /\ c \in Clients /\ line[c] \in Seq(Jobs) /\ Distinct(line[c]) /\ job[j] \in JobState
      /\ \A h \in Items(line[c]) : Pc(h) = "line"
  BY JobNames DEF IInv, TypeOK, LineInv
<1>3. /\ q \in Seq(Jobs) /\ j \in Items(line[c]) /\ Distinct(q)
      /\ Items(q) = Items(line[c]) \ {j}
  BY <1>1, <1>2, TailQueue
<1>4. Pc(j) = "line" /\ 1 \in 1 .. Len(line[c]) /\ line[c][1] = j
  BY <1>1, <1>2, <1>3, HeadTailProperties, EmptySeq
<1> HIDE DEF q
<1>5. CASE Fresh(c)
  <2>1. Return(j, job[j].got) /\ UNCHANGED locked
    BY <1>5 DEF TakeLock
  <2>2. job[j].got \in {"none", "routes"}
    BY <1>2 DEF JobState
  <2> QED
    BY <1>1, <1>3, <1>4, <2>1, <2>2, ReturnsFromLine
<1>6. CASE ~Fresh(c)
  <2> DEFINE k == [job[j] EXCEPT !.pc = "fuel", !.tries = 1, !.asked = now]
  <2>1. /\ job' = [job EXCEPT ![j] = k] /\ locked' = [locked EXCEPT ![c] = j]
        /\ UNCHANGED <<waiting, cache>>
    BY <1>6 DEF TakeLock
  <2>2. now \in 0 .. MaxTime
    BY DEF IInv, TypeOK
  <2>3. k \in JobState /\ k.pc = "fuel" /\ k.permit = job[j].permit /\ k.aborting = job[j].aborting
    BY <1>2, <2>2 DEF JobState
  <2> HIDE DEF k
  <2>4. \A h \in Jobs : h # j => job'[h] = job[h]
    BY <2>1 DEF IInv, TypeOK
  <2>5. LineInv' /\ line' \in [Clients -> Seq(Jobs)]
    BY <1>1, <1>3, <1>4, <2>4, LineLeft
  <2> QED
    BY <1>1, <1>4, <2>1, <2>3, <2>5, TakesLock
<1> QED
  BY <1>5, <1>6

LEMMA TimeoutInLineKeeps ==
    ASSUME IInv, NEW j \in Jobs, TimeoutInLine(j)
    PROVE  IInv'
<1> DEFINE c == Client(j)
<1>1. /\ Pc(j) = "line" /\ Return(j, "none") /\ UNCHANGED <<req, locked, price, counts, now>>
  BY DEF TimeoutInLine, Pc
<1>2. c \in Clients /\ line[c] \in Seq(Jobs) /\ Distinct(line[c])
  BY JobNames DEF IInv, TypeOK, LineInv
<1>3. PICK i \in 1 .. Len(line[c]) :
         line[c][i] = j /\ line' = [line EXCEPT ![c] = RemoveAt(line[c], i)]
  <2>1. DOMAIN line[c] = 1 .. Len(line[c])
    BY <1>2, LenProperties
  <2> QED
    BY <2>1 DEF TimeoutInLine
<1>4. /\ RemoveAt(line[c], i) \in Seq(Jobs) /\ Distinct(RemoveAt(line[c], i))
      /\ Items(RemoveAt(line[c], i)) = Items(line[c]) \ {j}
  BY <1>2, <1>3, RemoveQueue
<1> QED
  BY <1>1, <1>3, <1>4, ReturnsFromLine

LEMMA FuelEnds ==
    ASSUME IInv, NEW j \in Jobs, FuelAnswered(j) \/ FuelFailed(j)
    PROVE  IInv'
<1>1. /\ Pc(j) = "fuel" /\ Unlock(j) /\ Return(j, job[j].got)
      /\ UNCHANGED <<req, line, counts, now>>
  BY DEF FuelAnswered, FuelFailed, Pc
<1>2. job[j].got \in {"none", "routes"} /\ job[j].asked \in 0 .. MaxTime
  BY DEF IInv, TypeOK, JobState
<1>3. price' \in [Clients -> 0 .. MaxTime + FuelTtl]
  <2>1. price \in [Clients -> 0 .. MaxTime + FuelTtl] /\ Client(j) \in Clients
    BY JobNames DEF IInv, TypeOK
  <2>2. job[j].asked + FuelTtl \in 0 .. MaxTime + FuelTtl
    BY <1>2, TimesAssumption
  <2>3. UNCHANGED price \/ price' = [price EXCEPT ![Client(j)] = job[j].asked + FuelTtl]
    BY DEF FuelAnswered, FuelFailed
  <2> QED
    BY <2>1, <2>2, <2>3
<1> QED
  BY <1>1, <1>2, <1>3, ReturnsLock

(* A worker that was cancelled ends: only then is what it held given back. *)
LEMMA WorkerEndsKeeps ==
    ASSUME IInv, NEW j \in Jobs, WorkerEnds(j)
    PROVE  IInv'
<1>1. /\ Return(j, "none") /\ UNCHANGED <<req, line, price, counts, now>>
      /\ Pc(j) = "fuel" => Unlock(j)
      /\ Pc(j) # "fuel" => UNCHANGED locked
  BY DEF WorkerEnds, Pc
<1>2. Pc(j) \in {"http", "fuel"}
  BY DEF WorkerEnds, IInv, JobInv, Abortable, Pc, TypeOK, JobState
<1>3. price' \in [Clients -> 0 .. MaxTime + FuelTtl]
  BY <1>1 DEF IInv, TypeOK
<1>4. CASE Pc(j) = "http"
  BY <1>1, <1>4, ReturnsFree
<1>5. CASE Pc(j) = "fuel"
  BY <1>1, <1>3, <1>5, ReturnsLock
<1> QED
  BY <1>2, <1>4, <1>5

LEMMA StoreKeeps ==
    ASSUME IInv, NEW j \in Jobs, Store(j)
    PROVE  IInv'
<1> DEFINE k == [job[j] EXCEPT !.pc = "done"]
<1>1. /\ Pc(j) = "collected" /\ job[j] \in JobState /\ job' = [job EXCEPT ![j] = k]
      /\ UNCHANGED <<req, waiting, locked, line, price, counts, now>>
  BY DEF Store, Pc, IInv, TypeOK, shared
<1>2. k \in JobState /\ k.pc = "done" /\ k.permit = job[j].permit /\ k.aborting = job[j].aborting
  BY <1>1 DEF JobState
<1> HIDE DEF k
<1>3. job'[j] = k /\ Permitted(j, k) /\ Abortable(k) /\ Quietly(j)
  BY <1>1, <1>2 DEF IInv, TypeOK, JobInv, Permitted, Abortable, Quietly, Pc, Working
<1>4. /\ job' \in [Jobs -> JobState] /\ JobInv' /\ CountInv' /\ PhaseInv' /\ Alone(j)
  BY <1>1, <1>2, <1>3, QuietJob DEF Alone
<1>5. WaitInv' /\ LineInv' /\ LockInv'
  <2>1. Pc(j)' = "done"
    BY <1>2, <1>3 DEF Pc
  <2> QED
    BY <1>1, <1>4, <2>1, QueuesKept
<1>6. cache' \in Seq(Entries)
  <2>1. job[j].got \in {"none", "routes"} /\ cache' = CacheSet(Kind(j), job[j].got)
    BY <1>1 DEF Store, JobState
  <2> QED
    BY <2>1, CacheTypes, JobNames DEF IInv
<1> QED
  BY <1>1, <1>4, <1>5, <1>6 DEF IInv, TypeOK

LEMMA ProceedKeeps ==
    ASSUME IInv, NEW r \in Requests, Proceed(r)
    PROVE  IInv'
<1>1. UNCHANGED <<waiting, locked, line, price, cache, counts, now>>
  BY DEF Proceed, shared
<1>2. req \in [Requests -> {"new", "refused", "display", "out", "back", "answered"}]
  BY DEF IInv, TypeOK
<1>3. CASE UNCHANGED job
  <2>1. req[r] = "back" /\ req' = [req EXCEPT ![r] = "answered"]
    <3>1. \A j \in Jobs : job[j] \in JobState
      BY DEF IInv, TypeOK
    <3>2. \A j \in Jobs : [job EXCEPT ![j].pc = "ready"] = job => Pc(j) = "ready"
      BY <3>1 DEF Pc, JobState, IInv, TypeOK
    <3>3. req[r] = "display" => Pc(<<r, "OUT">>) = "idle"
      BY DEF IInv, PhaseInv
    <3>4. req[r] = "out" => Pc(<<r, "BACK">>) = "idle"
      BY DEF IInv, PhaseInv
    <3>5. <<r, "OUT">> \in Jobs /\ <<r, "BACK">> \in Jobs
      BY JobNames
    <3> QED
      BY <1>3, <3>2, <3>3, <3>4, <3>5 DEF Proceed
  <2>2. PhaseInv'
    BY <1>2, <1>3, <2>1 DEF PhaseInv, IInv, Pc
  <2>3. JobInv' /\ CountInv' /\ WaitInv' /\ LineInv' /\ LockInv'
    BY <1>1, <1>3 DEF JobInv, CountInv, Holders, WaitInv, LineInv, LockInv, IInv, Pc
  <2> QED
    BY <1>1, <1>2, <1>3, <2>1, <2>2, <2>3 DEF IInv, TypeOK
<1>4. ASSUME NEW m \in {"OUT", "BACK"}, job' = [job EXCEPT ![<<r, m>>].pc = "ready"],
             \/ m = "OUT" /\ req[r] = "display" /\ req' = [req EXCEPT ![r] = "out"]
             \/ m = "BACK" /\ req[r] = "out" /\ req' = [req EXCEPT ![r] = "back"]
      PROVE  IInv'
  <2> DEFINE j == <<r, m>>
             k == [job[j] EXCEPT !.pc = "ready"]
  <2>1. j \in Jobs \ Display /\ job[j] \in JobState /\ Pc(j) = "idle"
    <3>1. j \in Jobs \ Display
      BY JobNames
    <3> QED
      BY <1>4, <3>1 DEF IInv, TypeOK, PhaseInv
  <2>2. k \in JobState /\ k.pc = "ready" /\ k.permit = job[j].permit /\ k.aborting = job[j].aborting
    BY <2>1 DEF JobState
  <2>3. job' = [job EXCEPT ![j] = k]
    BY <1>4
  <2> HIDE DEF k
  <2>4. Permitted(j, k) /\ Abortable(k)
    BY <2>1, <2>2 DEF IInv, JobInv, Permitted, Abortable, Pc, Working
  <2>5. /\ job' \in [Jobs -> JobState] /\ JobInv'
        /\ job'[j] = k /\ \A i \in Jobs : i # j => job'[i] = job[i]
    BY <2>1, <2>2, <2>3, <2>4, OneJob
  <2>6. CountInv'
    BY <2>2, <2>5, CountKept
  <2>7. Pc(j)' = "ready" /\ \A i \in Jobs : i # j => Pc(i)' = Pc(i)
    BY <2>2, <2>5 DEF Pc
  <2>8. WaitInv' /\ LineInv' /\ LockInv'
    <3>1. /\ \A i \in Jobs : Pc(i) = "waiting" => Pc(i)' = "waiting"
          /\ \A i \in Jobs : Pc(i) = "line" => Pc(i)' = "line"
          /\ \A i \in Jobs : Pc(i)' = "fuel" => Pc(i) = "fuel"
      BY <2>1, <2>7
    <3> QED
      BY <1>1, <3>1, WaitKept, LineKept, LockKept
  <2>9. PhaseInv'
    <3> SUFFICES ASSUME NEW s \in Requests
                 PROVE  /\ req'[s] = "new" => \A n \in Kinds : Pc(<<s, n>>)' = "idle"
                        /\ req'[s] \in {"new", "display"} => Pc(<<s, "OUT">>)' = "idle"
                        /\ req'[s] \in {"new", "display", "out"} => Pc(<<s, "BACK">>)' = "idle"
      BY DEF PhaseInv
    <3>1. "OUT" \in Kinds /\ "BACK" \in Kinds /\ \A n \in Kinds : <<s, n>> \in Jobs
      BY JobNames DEF Kinds
    <3>2. CASE s = r
      <4>1. m = "OUT" => Pc(<<r, "BACK">>)' = Pc(<<r, "BACK">>)
        BY <2>7, <3>1, <3>2
      <4> QED
        BY <1>2, <1>4, <3>2, <4>1 DEF IInv, PhaseInv
    <3>3. CASE s # r
      <4>1. \A n \in Kinds : Pc(<<s, n>>)' = Pc(<<s, n>>)
        BY <2>7, <3>1, <3>3
      <4>2. req'[s] = req[s]
        BY <1>2, <1>4, <3>3
      <4> QED
        BY <3>1, <4>1, <4>2 DEF IInv, PhaseInv
    <3> QED
      BY <3>2, <3>3
  <2>10. req' \in [Requests -> {"new", "refused", "display", "out", "back", "answered"}]
    BY <1>2, <1>4
  <2> QED
    BY <1>1, <2>5, <2>6, <2>8, <2>9, <2>10 DEF IInv, TypeOK
<1> QED
  BY <1>3, <1>4 DEF Proceed

LEMMA TickKeeps ==
    ASSUME IInv, Tick
    PROVE  IInv'
<1>1. now' \in 0 .. MaxTime /\ counts' \in 0 .. RateLimit
  BY TimesAssumption DEF Tick, IInv, TypeOK
<1>2. UNCHANGED <<req, job, waiting, locked, line, price, cache>>
  BY DEF Tick, shared
<1>3. JobInv' /\ CountInv' /\ WaitInv' /\ LineInv' /\ LockInv' /\ PhaseInv'
  BY <1>2 DEF JobInv, CountInv, Holders, WaitInv, LineInv, LockInv, PhaseInv, IInv, Pc
<1> QED
  BY <1>1, <1>2, <1>3 DEF IInv, TypeOK

-----------------------------------------------------------------------------
(* The theorems                                                            *)

LEMMA WarmEntries ==
    ASSUME NEW S \in SUBSET Kinds
    PROVE  SetToSeq({Warm(k) : k \in S}) \in Seq(Entries)
<1> DEFINE T == {Warm(k) : k \in S}
           f == [k \in S |-> Warm(k)]
<1>1. IsFiniteSet(S)
  BY FiniteJobs, FS_Subset
<1>2. f \in Surjection(S, T)
  BY DEF Surjection
<1>3. IsFiniteSet(T)
  BY <1>1, <1>2, FS_Surjection
<1>4. T \subseteq Entries
  BY TimesAssumption DEF Warm, Entries
<1> HIDE DEF T
<1>5. Cardinality(T) \in Nat /\ Bijection(1 .. Cardinality(T), T) # {}
  BY <1>3, FS_CardinalityType DEF ExistsBijection
<1>6. \E g \in [1 .. Cardinality(T) -> T] : IsInjective(g)
  BY <1>5 DEF Bijection, Injection
<1>7. SetToSeq(T) \in [1 .. Cardinality(T) -> T]
  BY <1>6 DEF SetToSeq
<1>8. SetToSeq(T) \in Seq(T)
  BY <1>5, <1>7, SeqDef
<1>9. SetToSeq(T) \in Seq(Entries)
  BY <1>4, <1>8, SeqMonotonic
<1> QED
  BY <1>9 DEF T

LEMMA InitHolds == Init => IInv
<1> SUFFICES ASSUME Init
             PROVE  IInv
  OBVIOUS
<1>1. cache \in Seq(Entries)
  <2>1. \E S \in SUBSET Kinds : cache = SetToSeq({Warm(k) : k \in S})
    BY DEF Init
  <2> QED
    BY <2>1, WarmEntries
<1>2. /\ job \in [Jobs -> JobState]
      /\ \A j \in Jobs : Pc(j) = "idle" /\ job[j].permit = FALSE /\ job[j].aborting = FALSE
  BY TimesAssumption DEF Init, JobState, Pc
<1>3. waiting = <<>> /\ line = [c \in Clients |-> <<>>]
  BY DEF Init
<1>4. TypeOK
  BY <1>1, <1>2, <1>3, TimesAssumption, EmptySeq DEF Init, TypeOK
<1>5. JobInv /\ LockInv /\ PhaseInv
  BY <1>2, JobNames DEF JobInv, Permitted, Abortable, Working, LockInv, PhaseInv, Pc
<1>6. CountInv
  <2>1. Holders = {}
    BY <1>2 DEF Holders
  <2> QED
    BY <2>1, FS_EmptySet, ConcurrencyAssumption DEF CountInv
<1>7. WaitInv /\ LineInv
  <2>1. Len(<<>>) = 0 /\ 1 .. 0 = {}
    OBVIOUS
  <2> QED
    BY <1>3, <2>1 DEF WaitInv, LineInv, Distinct, Items
<1> QED
  BY <1>4, <1>5, <1>6, <1>7 DEF IInv

LEMMA Inductive == IInv /\ [Next]_vars => IInv'
<1> SUFFICES ASSUME IInv, [Next]_vars
             PROVE  IInv'
  OBVIOUS
<1>1. CASE \E r \in Requests : Arrive(r) \/ Proceed(r)
  BY <1>1, ArriveKeeps, ProceedKeeps
<1>2. CASE \E j \in Jobs : Step(j)
  BY <1>2, LookupKeeps, AcquireKeeps, TakeLockKeeps, StoreKeeps DEF Step
<1>3. CASE \E j \in Jobs : Upstream(j)
  BY <1>3, AnsweredKeeps, FailedKeeps, FuelEnds, WorkerEndsKeeps DEF Upstream
<1>4. CASE \E j \in Jobs : Another(j) \/ Timeout(j) \/ TimeoutInLine(j)
  BY <1>4, AnotherKeeps, TimeoutKeeps, TimeoutInLineKeeps
<1>5. CASE Tick
  BY <1>5, TickKeeps
<1>6. CASE UNCHANGED vars
  <2>1. UNCHANGED <<req, job, waiting, locked, line, price, cache, counts, now>>
    BY <1>6 DEF vars, shared
  <2>2. JobInv' /\ CountInv' /\ WaitInv' /\ LineInv' /\ LockInv' /\ PhaseInv'
    BY <2>1 DEF JobInv, CountInv, Holders, WaitInv, LineInv, LockInv, PhaseInv, IInv, Pc
  <2> QED
    BY <2>1, <2>2 DEF IInv, TypeOK
<1> QED
  BY <1>1, <1>2, <1>3, <1>4, <1>5, <1>6 DEF Next

(* The invariant holds of every preview that is on its way, whatever       *)
(* arrives, fails, times out or is cancelled.                              *)
THEOREM Invariance == Spec => []IInv
<1> QED
  BY InitHolds, Inductive, PTL DEF Spec

(* The state keeps its type: no queue, cache entry or price is anything    *)
(* else than what the orchestrator put there.                              *)
THEOREM TypeCorrect == Spec => []TypeOK
<1>1. IInv => TypeOK
  BY DEF IInv
<1> QED
  BY <1>1, Invariance, PTL

(* For every number of requests and every permit count: the display routes *)
(* never have more open upstream than there are permits, although a        *)
(* cancelled request keeps its own until it has ended, and a fuel price is *)
(* only asked for by the holder of its lock.                               *)
THEOREM BoundedUpstream == Spec => []UpstreamIsBounded
<1>1. ASSUME IInv
      PROVE  UpstreamIsBounded
  <2> DEFINE open == {j \in Display : job[j].pc \in {"http", "fuel"}}
  <2>1. open \subseteq Holders
    BY <1>1, JobNames DEF IInv, JobInv, Permitted, Working, Holders
  <2>2. IsFiniteSet(Holders)
    BY FiniteJobs, FS_Subset DEF Holders
  <2>3. /\ Cardinality(open) <= Cardinality(Holders)
        /\ Cardinality(open) \in Nat /\ Cardinality(Holders) \in Nat
    BY <2>1, <2>2, FS_Subset, FS_CardinalityType
  <2>4. Cardinality(open) <= MaxConcurrency
    BY <1>1, <2>3, ConcurrencyAssumption DEF IInv, CountInv
  <2>5. \A j \in Jobs : job[j].pc = "fuel" => locked[Client(j)] = j
    BY <1>1 DEF IInv, LockInv, Pc
  <2> QED
    BY <2>4, <2>5 DEF UpstreamIsBounded
<1> QED
  BY <1>1, Invariance, PTL
-----------------------------------------------------------------------------
(* The allowance of a trip, for all amounts, distances and times.          *)

(* The rule of a day is the latest of those that were in force.            *)
LEMMA RuleOfDay ==
    ASSUME NEW day \in Nat, Policy!Eligible(Rules, day) # {}
    PROVE  Policy!ForDate(Rules, day) \in Rules
<1> DEFINE E == Policy!Eligible(Rules, day)
           Ages == {day - r.from : r \in E}
           R == OpToRel(<, Nat)
<1>1. E \subseteq Policy!RuleSets /\ E \subseteq Rules /\ \A r \in E : r.from \in Nat /\ r.from =< day
  BY RulesAssumption DEF Policy!Eligible, Policy!RuleSets
<1>2. Ages \in SUBSET Nat /\ Ages # {}
  BY <1>1
<1>3. IsWellFoundedOn(R, Nat)
  BY NatLessThanWellFounded
<1>4. \A x, y \in Nat : <<y, x>> \in R <=> y < x
  BY DEF OpToRel
<1> HIDE DEF R, Ages
<1>5. PICK age \in Ages : \A other \in Ages : ~ (<<other, age>> \in R)
  BY <1>2, <1>3, WFMin
<1>6. \A other \in Ages : ~ (other < age)
  BY <1>2, <1>4, <1>5
<1>7. PICK r \in E : age = day - r.from
  BY <1>5 DEF Ages
<1>8. \A s \in E : s.from =< r.from
  <2> SUFFICES ASSUME NEW s \in E
               PROVE  s.from =< r.from
    OBVIOUS
  <2>1. ~ (day - s.from < day - r.from)
    BY <1>6, <1>7 DEF Ages
  <2> QED
    BY <1>1, <1>7, <2>1
<1>9. Policy!ForDate(Rules, day) \in E
  BY <1>7, <1>8 DEF Policy!ForDate
<1> QED
  BY <1>1, <1>9

(* What a rule grants before other trips of the day are counted.           *)
LEMMA BaseIsBounded ==
    ASSUME NEW trip \in Policy!Trips, NEW rule \in Rules
    PROVE  /\ Policy!Base(trip, rule) \in 0 .. rule.orMore
           /\ Policy!Remaining(trip, rule) \in 0 .. rule.orMore
<1>1. /\ rule.under \in Nat /\ rule.orMore \in Nat /\ rule.deduction \in Nat /\ rule.fourHours \in Nat
      /\ rule.deduction =< rule.under /\ rule.under =< rule.orMore
  BY RulesAssumption DEF Policy!RuleSets, Policy!ValidRules, Policy!ValidRule
<1>2. trip.minutes \in Nat /\ trip.previous \in Nat
  BY DEF Policy!Trips
<1>3. Policy!Base(trip, rule) \in 0 .. rule.orMore
  BY <1>1, <1>2 DEF Policy!Base
<1>4. Policy!Remaining(trip, rule) \in 0 .. rule.orMore
  BY <1>1, <1>2 DEF Policy!Remaining
<1> QED
  BY <1>3, <1>4

(* The branches of PolicyEngine.calculate that end in an amount.           *)
LEMMA AmountIsDue ==
    ASSUME NEW trip \in Policy!Trips, NEW rule \in Rules, NEW metres \in Nat,
           Policy!Allowance(trip, metres, rule).amount # Policy!NoAmount
    PROVE  LET amount == Policy!Allowance(trip, metres, rule).amount
           IN  /\ amount \in 0 .. rule.orMore
               /\ trip.otherTrips /\ trip.previous =< rule.orMore => amount + trip.previous =< rule.orMore
               /\ trip.coverage = "SEOUL" \/ metres < rule.localBelow
<1> DEFINE amount == Policy!Allowance(trip, metres, rule).amount
           base == Policy!Base(trip, rule)
           rest == Policy!Remaining(trip, rule)
<1>1. base \in 0 .. rule.orMore /\ rest \in 0 .. rule.orMore
  BY BaseIsBounded
<1>2. rule.orMore \in Nat /\ trip.previous \in Nat /\ trip.otherTrips \in BOOLEAN
  BY RulesAssumption DEF Policy!RuleSets, Policy!Trips
<1>3. /\ Policy!Classify(trip, metres, rule) = "LOCAL"
      /\ amount \in {0, rest, base}
      /\ trip.otherTrips => amount = 0 \/ amount =< rest
  <2> HIDE DEF base, rest
  <2>1. /\ \A warning : Policy!Review(warning).amount = Policy!NoAmount
        /\ \A n : Policy!Calculated(trip, n).amount = n
    BY DEF Policy!Review, Policy!Calculated
  <2>2. /\ Policy!Classify(trip, metres, rule) = "LOCAL"
        /\ amount \in {0, rest, base}
    BY <2>1 DEF Policy!Allowance, base, rest
  <2>3. trip.otherTrips => amount = 0 \/ amount =< rest
    BY <1>1, <1>2, <2>1 DEF Policy!Allowance, base, rest
  <2> QED
    BY <2>2, <2>3
<1>4. trip.coverage = "SEOUL" \/ metres < rule.localBelow
  BY <1>3 DEF Policy!Classify
<1>5. trip.previous =< rule.orMore => rest = rule.orMore - trip.previous
  BY <1>2 DEF Policy!Remaining
<1> HIDE DEF base, rest, amount
<1>6. amount \in 0 .. rule.orMore
  BY <1>1, <1>2, <1>3
<1>7. trip.otherTrips /\ trip.previous =< rule.orMore => amount + trip.previous =< rule.orMore
  BY <1>1, <1>2, <1>3, <1>5, <1>6
<1> QED
  BY <1>4, <1>6, <1>7 DEF amount

(* An office car is worth a deduction at most.                             *)
LEMMA OfficeCarNeverRaises ==
    ASSUME NEW none \in Policy!Trips, NEW office \in Policy!Trips, NEW rule \in Rules, NEW metres \in Nat,
           none.vehicle = "NONE", office.vehicle = "OFFICIAL_OR_RENTED",
           \A f \in {"coverage", "profile", "minutes", "otherTrips", "previous"} : none[f] = office[f]
    PROVE  LET without == Policy!Allowance(none, metres, rule).amount
               with    == Policy!Allowance(office, metres, rule).amount
           IN  without # Policy!NoAmount /\ with # Policy!NoAmount => with =< without
<1> DEFINE base(t) == Policy!Base(t, rule)
           rest == Policy!Remaining(none, rule)
<1>1. /\ none.coverage = office.coverage /\ none.profile = office.profile /\ none.minutes = office.minutes
      /\ none.otherTrips = office.otherTrips /\ none.previous = office.previous
  OBVIOUS
<1>2. /\ Policy!Remaining(office, rule) = rest
      /\ Policy!Classify(office, metres, rule) = Policy!Classify(none, metres, rule)
  BY <1>1 DEF Policy!Remaining, Policy!Classify
<1>3. rest \in Nat /\ base(none) \in Nat /\ base(office) \in Nat
  BY BaseIsBounded, RulesAssumption DEF Policy!RuleSets
<1>4. base(office) =< base(none)
  <2>1. /\ rule.under \in Nat /\ rule.orMore \in Nat /\ rule.deduction \in Nat /\ rule.fourHours \in Nat
        /\ none.minutes \in Nat
    BY RulesAssumption DEF Policy!RuleSets, Policy!Trips
  <2> QED
    BY <1>1, <2>1 DEF Policy!Base
<1>5. /\ \A warning : Policy!Review(warning).amount = Policy!NoAmount
      /\ \A t, n : Policy!Calculated(t, n).amount = n
  BY DEF Policy!Review, Policy!Calculated
<1> HIDE DEF base, rest
<1>6. ASSUME NEW t \in {none, office}, Policy!Allowance(t, metres, rule).amount # Policy!NoAmount
      PROVE  Policy!Allowance(t, metres, rule).amount =
                IF none.otherTrips /\ rest < base(t) THEN rest ELSE base(t)
  <2>1. /\ t.vehicle # "ASSIGNED_OFFICIAL" /\ t.otherTrips = none.otherTrips
        /\ Policy!Remaining(t, rule) = rest /\ Policy!Base(t, rule) = base(t)
    BY <1>1, <1>2 DEF base, rest
  <2> QED
    BY <1>5, <1>6, <2>1 DEF Policy!Allowance
<1> QED
  BY <1>3, <1>4, <1>6

(* For every trip and all valid rules with one in force on its day: the    *)
(* amount shown never passes the ceiling of the day, needs both distances  *)
(* and a local trip, and no office car raises it.                          *)
THEOREM AllowanceAlways == input \in PolicyInputs => AllowanceIsOwed
<1> SUFFICES ASSUME input \in PolicyInputs
             PROVE  Policy!AllowanceIsDue(input.trip, input.out, input.back, Rules)
  BY DEF AllowanceIsOwed
<1> DEFINE trip == input.trip
           rule == Policy!ForDate(Rules, trip.day)
           metres == Policy!ClassificationDistance(input.out, input.back)
           with(vehicle) == [trip EXCEPT !.vehicle = vehicle]
           shown(vehicle) == Policy!Preview(with(vehicle), input.out, input.back, Rules).allowance.amount
<1>1. /\ trip \in Policy!Trips /\ trip.day \in Nat
      /\ input.out \in Nat \cup {Policy!NoDistance} /\ input.back \in Nat \cup {Policy!NoDistance}
  BY DEF PolicyInputs, Policy!Trips
<1>2. rule \in Rules
  BY <1>1, RuleOfDay DEF PolicyInputs
<1>3. ASSUME NEW v \in Policy!Vehicles
      PROVE  /\ with(v) \in Policy!Trips /\ with(v).vehicle = v /\ with(v).day = trip.day
             /\ \A f \in {"coverage", "profile", "minutes", "otherTrips", "previous"} : with(v)[f] = trip[f]
  BY <1>1, <1>3 DEF Policy!Trips
<1>4. ASSUME NEW v \in Policy!Vehicles, shown(v) # Policy!NoAmount
      PROVE  /\ input.out # Policy!NoDistance /\ input.back # Policy!NoDistance
             /\ metres = input.out + input.back /\ metres \in Nat
             /\ shown(v) = Policy!Allowance(with(v), metres, rule).amount
  <2>1. Policy!OutsideResult.allowance.amount = Policy!NoAmount
    BY DEF Policy!OutsideResult, Policy!Review
  <2>2. with(v).coverage # "OUTSIDE" /\ shown(v) = Policy!PolicyResult(with(v), metres, Rules).allowance.amount
    BY <1>4, <2>1 DEF Policy!Preview
  <2>3. metres # Policy!NoDistance
    BY <1>4, <2>2 DEF Policy!PolicyResult, Policy!Review
  <2>4. /\ input.out # Policy!NoDistance /\ input.back # Policy!NoDistance
        /\ metres = input.out + input.back /\ metres \in Nat
    BY <1>1, <2>3 DEF Policy!ClassificationDistance
  <2>5. shown(v) = Policy!Allowance(with(v), metres, rule).amount
    BY <1>3, <2>2, <2>3 DEF Policy!PolicyResult, Policy!Calculate
  <2> QED
    BY <2>4, <2>5
<1>5. trip.vehicle \in Policy!Vehicles /\ with(trip.vehicle) = trip
  BY <1>1 DEF Policy!Trips
<1>6. {"NONE", "OFFICIAL_OR_RENTED"} \subseteq Policy!Vehicles
  BY DEF Policy!Vehicles
<1> HIDE DEF trip, rule, metres, with, shown
<1>7. ASSUME shown(trip.vehicle) # Policy!NoAmount
      PROVE  /\ shown(trip.vehicle) \in 0 .. rule.orMore
             /\ trip.otherTrips /\ trip.previous =< rule.orMore =>
                   shown(trip.vehicle) + trip.previous =< rule.orMore
             /\ input.out # Policy!NoDistance /\ input.back # Policy!NoDistance
             /\ trip.coverage = "SEOUL" \/ input.out + input.back < rule.localBelow
  BY <1>1, <1>2, <1>4, <1>5, <1>7, AmountIsDue
<1>8. ASSUME shown("NONE") # Policy!NoAmount, shown("OFFICIAL_OR_RENTED") # Policy!NoAmount
      PROVE  shown("OFFICIAL_OR_RENTED") =< shown("NONE")
  <2>1. \A f \in {"coverage", "profile", "minutes", "otherTrips", "previous"} :
           with("NONE")[f] = with("OFFICIAL_OR_RENTED")[f]
    BY <1>3, <1>6
  <2> QED
    BY <1>2, <1>3, <1>4, <1>6, <1>8, <2>1, OfficeCarNeverRaises
<1> QED
  BY <1>7, <1>8 DEF Policy!AllowanceIsDue, trip, rule, metres, with, shown
=============================================================================
