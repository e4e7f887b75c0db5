-------------------------- MODULE ProfileStoreProofs --------------------------
(***************************************************************************)
(* Lists, files, index and editors of the profile store agree, what waits  *)
(* is taken up, generated files are accounted for, and what is announced   *)
(* is current: for any uids, URLs and contents, and any number of calls,   *)
(* generations, failures and crashes.                                      *)
(***************************************************************************)
EXTENDS ProfileStore, TLAPS, FiniteSetTheorems, FunctionTheorems, SequenceTheorems

-----------------------------------------------------------------------------
(* Sequences, and the saves in them *)

LEMMA AppendElements ==
    ASSUME NEW S, NEW q \in Seq(S), NEW e \in S
    PROVE  /\ Append(q, e) \in Seq(S) /\ Len(Append(q, e)) = Len(q) + 1
           /\ DOMAIN Append(q, e) = 1 .. Len(q) + 1 /\ DOMAIN q = 1 .. Len(q)
           /\ Append(q, e)[Len(q) + 1] = e
           /\ \A j \in 1 .. Len(q) : Append(q, e)[j] = q[j]
OBVIOUS

LEMMA RestElements ==
    ASSUME NEW S, NEW q \in Seq(S), q # <<>>
    PROVE  LET rest == SubSeq(q, 2, Len(q))
           IN /\ rest \in Seq(S) /\ Len(rest) = Len(q) - 1 /\ Len(q) >= 1
              /\ DOMAIN rest = 1 .. Len(q) - 1 /\ DOMAIN q = 1 .. Len(q) /\ q[1] \in S
              /\ \A j \in 1 .. Len(q) - 1 : rest[j] = q[j + 1]
<1> DEFINE n == Len(q)
           rest == SubSeq(q, 2, n)
<1>1. n \in Nat /\ n >= 1 /\ DOMAIN q = 1 .. n
  OBVIOUS
<1>2. q[1] \in S
  BY <1>1
<1>3. rest \in Seq(S) /\ Len(rest) = n - 1
  BY <1>1
<1>4. \A j \in 1 .. n - 1 : rest[j] = q[j + 1]
  BY <1>1
<1> HIDE DEF rest, n
<1>5. DOMAIN rest = 1 .. n - 1
  BY <1>3
<1> QED
  BY <1>1, <1>2, <1>3, <1>4, <1>5 DEF rest, n

LEMMA SavesAreFinite ==
    ASSUME NEW q \in Seq(RequestRec), NEW u
    PROVE  IsFiniteSet(Saves(q, u)) /\ Cardinality(Saves(q, u)) \in Nat
<1>1. Len(q) \in Nat /\ Saves(q, u) \subseteq 1 .. Len(q)
  BY DEF Saves
<1>2. IsFiniteSet(1 .. Len(q))
  BY <1>1, FS_Interval
<1>3. IsFiniteSet(Saves(q, u))
  BY <1>1, <1>2, FS_Subset
<1> QED
  BY <1>3, FS_CardinalityType

LEMMA NoSaves ==
    ASSUME NEW u
    PROVE  Cardinality(Saves(<<>>, u)) = 0
<1>1. Saves(<<>>, u) = {}
  BY DEF Saves
<1> QED
  BY <1>1, FS_EmptySet

IsSave(r, u) == r.kind = "Save" /\ r.uid = u

LEMMA OneSave ==
    ASSUME NEW r, NEW u
    PROVE  Cardinality(Saves(<<r>>, u)) = IF IsSave(r, u) THEN 1 ELSE 0
<1>1. Saves(<<r>>, u) = IF IsSave(r, u) THEN {1} ELSE {}
  BY DEF Saves, IsSave
<1> QED
  BY <1>1, FS_EmptySet, FS_Singleton

LEMMA SavesAppended ==
    ASSUME NEW q \in Seq(RequestRec), NEW r \in RequestRec, NEW u
    PROVE  Cardinality(Saves(Append(q, r), u))
               = Cardinality(Saves(q, u)) + (IF IsSave(r, u) THEN 1 ELSE 0)
<1> DEFINE p == Append(q, r)
           n == Len(q) + 1
<1>1. /\ p \in Seq(RequestRec) /\ DOMAIN p = 1 .. n /\ DOMAIN q = 1 .. Len(q)
      /\ p[n] = r /\ \A j \in 1 .. Len(q) : p[j] = q[j]
  BY AppendElements
<1>2. n \notin Saves(q, u) /\ n \in Nat /\ Len(q) \in Nat
  BY <1>1 DEF Saves
<1>3. IsFiniteSet(Saves(q, u)) /\ Cardinality(Saves(q, u)) \in Nat
  BY SavesAreFinite
<1> HIDE DEF p
<1>4. CASE IsSave(r, u)
  <2>1. Saves(p, u) = Saves(q, u) \cup {n}
    BY <1>1, <1>2, <1>4 DEF Saves, IsSave
  <2> QED
    BY <1>2, <1>3, <1>4, <2>1, FS_AddElement DEF p
<1>5. CASE ~IsSave(r, u)
  <2>1. Saves(p, u) = Saves(q, u)
    BY <1>1, <1>2, <1>5 DEF Saves, IsSave
  <2> QED
    BY <1>3, <1>5, <2>1 DEF p
<1> QED
  BY <1>4, <1>5

LEMMA SavesWithoutFirst ==
    ASSUME NEW q \in Seq(RequestRec), q # <<>>, NEW u
    PROVE  Cardinality(Saves(q, u))
               = Cardinality(Saves(SubSeq(q, 2, Len(q)), u)) + (IF IsSave(q[1], u) THEN 1 ELSE 0)
<1> DEFINE p == SubSeq(q, 2, Len(q))
           T == Saves(q, u) \ {1}
           F == [j \in Saves(p, u) |-> j + 1]
<1>1. /\ p \in Seq(RequestRec) /\ DOMAIN p = 1 .. Len(q) - 1 /\ DOMAIN q = 1 .. Len(q)
      /\ \A j \in 1 .. Len(q) - 1 : p[j] = q[j + 1]
      /\ Len(q) \in Nat /\ Len(q) >= 1
  BY RestElements
<1> HIDE DEF p
<1>2. \A j \in Saves(p, u) : j \in 1 .. Len(q) - 1 /\ j + 1 \in T
  BY <1>1 DEF Saves
<1>3. \A k \in T : k - 1 \in Saves(p, u) /\ k \in 2 .. Len(q)
  BY <1>1 DEF Saves
<1>4. F \in [Saves(p, u) -> T]
  BY <1>2
<1>5. \A a, b \in Saves(p, u) : F[a] = F[b] => a = b
  BY <1>2
<1>6. \A k \in T : \E j \in Saves(p, u) : F[j] = k
  BY <1>3
<1>7. F \in Bijection(Saves(p, u), T)
  BY <1>4, <1>5, <1>6, Fun_IsBij
<1>8. ExistsBijection(Saves(p, u), T)
  BY <1>7, Fun_ExistsBij
<1>9. IsFiniteSet(Saves(p, u)) /\ IsFiniteSet(Saves(q, u)) /\ Cardinality(Saves(q, u)) \in Nat
  BY <1>1, SavesAreFinite
<1>10. Cardinality(T) = Cardinality(Saves(p, u))
  BY <1>8, <1>9, FS_Bijection
<1>11. Cardinality(T) = IF 1 \in Saves(q, u) THEN Cardinality(Saves(q, u)) - 1
                                            ELSE Cardinality(Saves(q, u))
  BY <1>9, FS_RemoveElement
<1>12. 1 \in Saves(q, u) <=> IsSave(q[1], u)
  BY <1>1 DEF Saves, IsSave
<1> QED
  BY <1>9, <1>10, <1>11, <1>12 DEF p

-----------------------------------------------------------------------------
(* Calls that leave lists and files alone *)

\* Nothing but the queue may be emptied, with its answers, and work that is
\* in progress may be cancelled; a generation that goes on keeps its inputs.
Calm(s, t) ==
    /\ t \in StoreRec /\ t.profiles = s.profiles /\ t.shown = s.shown
    /\ t.write.request = s.write.request /\ t.write.stage = s.write.stage
    /\ FileRunning(s) /\ s.write.cancelled => t.write.cancelled
    /\ \/ t.fileQueue = s.fileQueue /\ t.owed = s.owed
       \/ t.fileQueue = <<>> /\ t.owed = Answer(s.owed, s.fileQueue)
    /\ t.runtimeRequested => s.runtimeRequested
    /\ t.maintenance => s.maintenance \/ (t.fileQueue = <<>> /\ ~t.runtimeRequested)
    /\ t.runtime.uid = s.runtime.uid /\ t.runtime.settings = s.runtime.settings
    /\ t.runtime.content = s.runtime.content /\ t.runtime.stage = s.runtime.stage
    /\ t.runtime.path = s.runtime.path /\ t.runtime.failed = s.runtime.failed
    /\ RuntimeRunning(s) /\ ~t.runtime.cancelled =>
           ~s.runtime.cancelled /\ t.currentUid = s.currentUid /\ t.settings = s.settings

LEMMA OwedIsNumber ==
    ASSUME NEW s, Orderly(s)
    PROVE  /\ s.fileQueue \in Seq(RequestRec) /\ s.owed \in [Uids -> Nat]
           /\ Answer(s.owed, s.fileQueue) \in [Uids -> Nat]
           /\ Answer(s.owed, <<>>) = s.owed
<1>1. s.fileQueue \in Seq(RequestRec) /\ s.owed \in [Uids -> Nat]
  BY DEF Orderly, StoreRec
<1>2. ASSUME NEW u \in Uids
      PROVE  s.owed[u] - Cardinality(Saves(s.fileQueue, u)) \in Nat
  <2>1. Cardinality(Saves(s.fileQueue, u)) \in Nat
    BY <1>1, SavesAreFinite
  <2>2. \E n \in {0, 1} : s.owed[u] = Cardinality(Saves(s.fileQueue, u)) + n
    BY DEF Orderly, Accounted
  <2> QED
    BY <2>1, <2>2
<1>3. \A u \in Uids : s.owed[u] - Cardinality(Saves(<<>>, u)) = s.owed[u]
  BY <1>1, NoSaves
<1> QED
  BY <1>1, <1>2, <1>3 DEF Answer

\* The records inside.
LEMMA StoreParts ==
    ASSUME NEW s \in StoreRec
    PROVE  /\ s.write \in WriteRec /\ s.runtime \in RuntimeRec
           /\ s.write.request \in RequestRec /\ s.fileQueue \in Seq(RequestRec)
           /\ s.profiles \in Seq(Uids)
BY DEF StoreRec, WriteRec

LEMMA RuntimeCancelled ==
    ASSUME NEW s \in StoreRec
    PROVE  LET t == CancelRuntimeGeneration(s)
           IN /\ t \in StoreRec /\ t.runtimeRequested = FALSE
              /\ t.runtime = [s.runtime EXCEPT !.cancelled = RuntimeRunning(s)]
              /\ t.write = s.write /\ t.fileQueue = s.fileQueue /\ t.owed = s.owed
              /\ t.profiles = s.profiles /\ t.shown = s.shown /\ t.url = s.url
              /\ t.maintenance = s.maintenance /\ t.shuttingDown = s.shuttingDown
              /\ t.currentUid = s.currentUid /\ t.settings = s.settings
              /\ t.secret = s.secret
BY DEF CancelRuntimeGeneration, StoreRec, RuntimeRec, RuntimeRunning

LEMMA FilesCancelled ==
    ASSUME NEW s, Orderly(s)
    PROVE  LET t == CancelFileOperations(s)
           IN /\ t \in StoreRec /\ t.fileQueue = <<>>
              /\ t.owed = Answer(s.owed, s.fileQueue)
              /\ t.write = [s.write EXCEPT !.cancelled = FileRunning(s)]
              /\ t.runtime = s.runtime /\ t.runtimeRequested = s.runtimeRequested
              /\ t.profiles = s.profiles /\ t.shown = s.shown /\ t.url = s.url
              /\ t.maintenance = s.maintenance /\ t.shuttingDown = s.shuttingDown
              /\ t.currentUid = s.currentUid /\ t.settings = s.settings
              /\ t.secret = s.secret
<1>1. s \in StoreRec /\ s.write \in WriteRec
  BY StoreParts DEF Orderly
<1>2. <<>> \in Seq(RequestRec)
  OBVIOUS
<1>3. Answer(s.owed, s.fileQueue) \in [Uids -> Nat]
  BY OwedIsNumber
<1>4. [s.write EXCEPT !.cancelled = FileRunning(s)] \in WriteRec
  BY <1>1 DEF WriteRec, FileRunning
<1> DEFINE o == Answer(s.owed, s.fileQueue)
<1> HIDE DEF o
<1>5. CancelFileOperations(s) = [s EXCEPT !.fileQueue = <<>>, !.owed = o,
                                          !.write = [s.write EXCEPT !.cancelled = FileRunning(s)]]
  BY <1>1 DEF CancelFileOperations, StoreRec, o
<1>6. o \in [Uids -> Nat]
  BY <1>3 DEF o
<1> QED
  BY <1>1, <1>2, <1>4, <1>5, <1>6 DEF StoreRec, o

LEMMA RuntimeCancelledIsCalm ==
    ASSUME NEW s, Orderly(s)
    PROVE  Calm(s, CancelRuntimeGeneration(s))
<1>1. s \in StoreRec /\ s.runtime \in RuntimeRec
  BY StoreParts DEF Orderly
<1> DEFINE t == CancelRuntimeGeneration(s)
<1>2. /\ t \in StoreRec /\ t.runtimeRequested = FALSE
      /\ t.runtime = [s.runtime EXCEPT !.cancelled = RuntimeRunning(s)]
      /\ t.write = s.write /\ t.fileQueue = s.fileQueue /\ t.owed = s.owed
      /\ t.profiles = s.profiles /\ t.shown = s.shown
      /\ t.maintenance = s.maintenance
  BY <1>1, RuntimeCancelled
<1> HIDE DEF t
<1>3. Calm(s, t)
  BY <1>1, <1>2 DEF Calm, RuntimeRec
<1> QED
  BY <1>3 DEF t

LEMMA FilesCancelledIsCalm ==
    ASSUME NEW s, Orderly(s)
    PROVE  Calm(s, CancelFileOperations(s))
<1>1. s \in StoreRec /\ s.write \in WriteRec
  BY StoreParts DEF Orderly
<1> DEFINE t == CancelFileOperations(s)
<1>2. /\ t \in StoreRec /\ t.fileQueue = <<>>
      /\ t.owed = Answer(s.owed, s.fileQueue)
      /\ t.write = [s.write EXCEPT !.cancelled = FileRunning(s)]
      /\ t.runtime = s.runtime /\ t.runtimeRequested = s.runtimeRequested
      /\ t.profiles = s.profiles /\ t.shown = s.shown
      /\ t.maintenance = s.maintenance
      /\ t.currentUid = s.currentUid /\ t.settings = s.settings
  BY FilesCancelled
<1> HIDE DEF t
<1>3. Calm(s, t)
  BY <1>1, <1>2 DEF Calm, WriteRec
<1> QED
  BY <1>3 DEF t

LEMMA SameIsCalm ==
    ASSUME NEW s \in StoreRec
    PROVE  Calm(s, s)
BY DEF Calm

\* A calm call leaves the store in order.
LEMMA CalmKeepsOrder ==
    ASSUME NEW s, NEW t, Orderly(s), Calm(s, t)
    PROVE  Orderly(t)
<1>1. s.fileQueue \in Seq(RequestRec) /\ s.owed \in [Uids -> Nat]
  BY OwedIsNumber
<1>2. FileRunning(t) = FileRunning(s) /\ RuntimeRunning(t) = RuntimeRunning(s)
  BY DEF Calm, FileRunning, RuntimeRunning
<1>3. Listed(t) = Listed(s)
  BY DEF Calm, Listed
<1>4. Accounted(t)
  <2>1. CASE t.fileQueue = s.fileQueue /\ t.owed = s.owed
    BY <1>2, <2>1 DEF Calm, Orderly, Accounted
  <2>2. CASE t.fileQueue = <<>> /\ t.owed = Answer(s.owed, s.fileQueue)
    <3> SUFFICES ASSUME NEW u \in Uids
                 PROVE  LET running == /\ FileRunning(t)
                                       /\ t.write.request.kind = "Save" /\ t.write.request.uid = u
                        IN t.owed[u] = Cardinality(Saves(t.fileQueue, u)) + (IF running THEN 1 ELSE 0)
      BY DEF Accounted
    <3>1. t.owed[u] = s.owed[u] - Cardinality(Saves(s.fileQueue, u))
      BY <2>2 DEF Answer
    <3>2. Cardinality(Saves(s.fileQueue, u)) \in Nat /\ Cardinality(Saves(t.fileQueue, u)) = 0
      BY <1>1, <2>2, SavesAreFinite, NoSaves
    <3> DEFINE running == /\ FileRunning(s)
                          /\ s.write.request.kind = "Save" /\ s.write.request.uid = u
    <3>3. s.owed[u] = Cardinality(Saves(s.fileQueue, u)) + (IF running THEN 1 ELSE 0)
      BY DEF Orderly, Accounted
    <3> QED
      BY <1>2, <3>1, <3>2, <3>3 DEF Calm
  <2> QED
    BY <2>1, <2>2 DEF Calm
<1> QED
  BY <1>2, <1>3, <1>4 DEF Calm, Orderly, Distinct

LEMMA CalmTwice ==
    ASSUME NEW s, NEW m, NEW t, Orderly(s), Calm(s, m), Calm(m, t)
    PROVE  Calm(s, t)
<1>1. Orderly(m)
  BY CalmKeepsOrder
<1>2. Answer(m.owed, <<>>) = m.owed
  BY <1>1, OwedIsNumber
<1>3. FileRunning(m) = FileRunning(s) /\ RuntimeRunning(m) = RuntimeRunning(s)
  BY DEF Calm, FileRunning, RuntimeRunning
<1>4. \/ t.fileQueue = s.fileQueue /\ t.owed = s.owed
      \/ t.fileQueue = <<>> /\ t.owed = Answer(s.owed, s.fileQueue)
  BY <1>2 DEF Calm
<1> QED
  BY <1>3, <1>4 DEF Calm

LEMMA CancelIfCurrentIsCalm ==
    ASSUME NEW s, Orderly(s), NEW u
    PROVE  Calm(s, CancelIfCurrent(s, u))
<1>1. s \in StoreRec
  BY DEF Orderly
<1> QED
  BY <1>1, RuntimeCancelledIsCalm, SameIsCalm DEF CancelIfCurrent

\* What runs is shown before and after, and the queue still has its worker.
LEMMA CalmKeepsStore ==
    ASSUME NEW s, NEW t, StoreKept(s), Calm(s, t)
    PROVE  StoreKept(t)
<1>1. Orderly(t)
  BY CalmKeepsOrder DEF StoreKept
<1> QED
  BY <1>1 DEF StoreKept, Calm, IsFileBusy, FileRunning, RuntimeRunning

-----------------------------------------------------------------------------
(* What the parts of the invariant depend on *)

LEMMA RequestsFrame ==
    ASSUME NEW s, NEW d, NEW g, NEW t, NEW e, NEW h, RequestsKept(s, d, g),
           g \subseteq h, t.fileQueue = s.fileQueue \/ t.fileQueue = <<>>,
           t.write.request = s.write.request, t.write.stage = s.write.stage,
           Listed(t) \cup Listed(e.index) \subseteq Listed(s) \cup Listed(d.index) \cup (h \ g)
    PROVE  RequestsKept(t, e, h)
<1>1. ASSUME NEW r, Proper(r, s, d, g) PROVE Proper(r, t, e, h)
  BY <1>1 DEF Proper
<1>2. FileRunning(t) = FileRunning(s)
  BY DEF FileRunning
<1>3. Listed(t) \cup Listed(e.index) \cup {FirstUid} \subseteq h
  BY DEF RequestsKept
<1>4. CASE t.fileQueue = s.fileQueue
  BY <1>1, <1>2, <1>3, <1>4 DEF RequestsKept
<1>5. CASE t.fileQueue = <<>>
  BY <1>1, <1>2, <1>3, <1>5 DEF RequestsKept
<1> QED
  BY <1>4, <1>5

LEMMA SnapshotsFrame ==
    ASSUME NEW s, NEW d, NEW a, NEW l, NEW n, NEW t, NEW e, SnapshotsKept(s, d, a, l, n),
           t.runtime.stage = s.runtime.stage, t.runtime.path = s.runtime.path,
           t.runtime.failed = s.runtime.failed, e.snapshots = d.snapshots
    PROVE  SnapshotsKept(t, e, a, l, n)
BY DEF SnapshotsKept, RuntimeRunning

LEMMA RuntimeFrame ==
    ASSUME NEW s, NEW d, NEW dirty, NEW t, NEW e, NEW soiled, RuntimeKept(s, d, dirty),
           t.runtime.uid = s.runtime.uid, t.runtime.settings = s.runtime.settings,
           t.runtime.content = s.runtime.content, t.runtime.stage = s.runtime.stage,
           t.runtime.failed = s.runtime.failed,
           RuntimeRunning(s) /\ ~t.runtime.cancelled =>
               /\ ~s.runtime.cancelled
               /\ t.currentUid = s.currentUid /\ t.settings = s.settings
               /\ s.currentUid \in Listed(s) => s.currentUid \in Listed(t)
               /\ s.currentUid \in Listed(s) => e.file[s.currentUid] = d.file[s.currentUid]
               /\ Committed(s, s.currentUid) => Committed(t, s.currentUid) \/ s.currentUid \in soiled
               /\ s.currentUid \in dirty => s.currentUid \in soiled
    PROVE  RuntimeKept(t, e, soiled)
<1> SUFFICES ASSUME RuntimeRunning(t), ~t.runtime.cancelled
             PROVE  LET r == t.runtime
                    IN /\ r.uid = t.currentUid /\ r.uid \in Listed(t) /\ r.settings = t.settings
                       /\ r.stage # "reading" /\ ~r.failed =>
                              r.content = e.file[r.uid] \/ Committed(t, r.uid) \/ r.uid \in soiled
  BY DEF RuntimeKept
<1>1. RuntimeRunning(s) /\ ~s.runtime.cancelled
  BY DEF RuntimeRunning
<1>2. /\ s.runtime.uid = s.currentUid /\ s.currentUid \in Listed(s)
      /\ s.runtime.settings = s.settings
      /\ s.runtime.stage # "reading" /\ ~s.runtime.failed =>
             \/ s.runtime.content = d.file[s.currentUid]
             \/ Committed(s, s.currentUid) \/ s.currentUid \in dirty
  BY <1>1 DEF RuntimeKept
<1> QED
  BY <1>1, <1>2

\* The lists and files are those of before, and so is what the write did.
LEMMA FilesFrame ==
    ASSUME NEW s, NEW d, NEW gone, NEW dirty, NEW t, NEW e, FilesKept(s, d, gone, dirty),
           Listed(t) = Listed(s), e.file = d.file,
           Listed(e.index) = Listed(d.index) \/ Listed(e.index) = Listed(t),
           t.write.request = s.write.request, t.write.stage = s.write.stage,
           FileRunning(s) /\ s.write.cancelled => t.write.cancelled
    PROVE  FilesKept(t, e, gone, dirty)
<1>1. \A u : Committed(t, u) <=> Committed(s, u)
  BY DEF Committed
<1>2. ASSUME NEW u \in Uids \ gone
      PROVE  /\ u \in Listed(t) <=> u \in Listed(e.index)
             /\ u \in Listed(t) => e.file[u] # Nothing
             /\ u \notin dirty /\ e.file[u] # Nothing => u \in Listed(t) \/ Committed(t, u)
  BY <1>1 DEF FilesKept
<1>3. t.write.stage = "committed" /\ ~t.write.cancelled =>
          e.file[t.write.request.uid] = t.write.request.content
  BY DEF FilesKept, FileRunning
<1> QED
  BY <1>2, <1>3 DEF FilesKept

\* A calm call, whose index is saved or not.
LEMMA CalmKeepsRest ==
    ASSUME NEW s, NEW t, Calm(s, t), NEW d, NEW e,
           e.file = d.file, e.snapshots = d.snapshots,
           Listed(e.index) = Listed(d.index) \/ Listed(e.index) = Listed(t)
    PROVE  /\ \A g : RequestsKept(s, d, g) => RequestsKept(t, e, g)
           /\ \A gone, dirty : FilesKept(s, d, gone, dirty) => FilesKept(t, e, gone, dirty)
           /\ \A a, l, n : SnapshotsKept(s, d, a, l, n) => SnapshotsKept(t, e, a, l, n)
           /\ \A dirty : RuntimeKept(s, d, dirty) => RuntimeKept(t, e, dirty)
<1>1. Listed(t) = Listed(s)
  BY DEF Calm, Listed
<1>2. ASSUME NEW g, RequestsKept(s, d, g) PROVE RequestsKept(t, e, g)
  BY <1>1, <1>2, RequestsFrame DEF Calm
<1>3. ASSUME NEW gone, NEW dirty, FilesKept(s, d, gone, dirty) PROVE FilesKept(t, e, gone, dirty)
  BY <1>1, <1>3, FilesFrame DEF Calm
<1>4. ASSUME NEW a, NEW l, NEW n, SnapshotsKept(s, d, a, l, n) PROVE SnapshotsKept(t, e, a, l, n)
  BY <1>4, SnapshotsFrame DEF Calm
<1>5. ASSUME NEW dirty, RuntimeKept(s, d, dirty) PROVE RuntimeKept(t, e, dirty)
  BY <1>1, <1>5, RuntimeFrame DEF Calm, Committed
<1> QED
  BY <1>2, <1>3, <1>4, <1>5

-----------------------------------------------------------------------------
(* The calm calls *)

LEMMA SaveIsOfIndex ==
    ASSUME NEW s \in StoreRec, NEW d \in DiskRec, NEW saved \in BOOLEAN, Save(s, d, saved),
           Distinct(s), Distinct(d.index), saveFailures \in 0 .. MaxSaveFailures
    PROVE  /\ disk' \in DiskRec /\ Distinct(disk'.index) /\ disk'.file = d.file /\ disk'.snapshots = d.snapshots
           /\ disk'.index = IF saved THEN Index(s) ELSE d.index
           /\ Listed(disk'.index) = IF saved THEN Listed(s) ELSE Listed(d.index)
           /\ saveFailures' \in 0 .. MaxSaveFailures
<1>1. Index(s) \in IndexRec /\ Listed(Index(s)) = Listed(s) /\ Distinct(Index(s))
  BY DEF Index, IndexRec, StoreRec, Listed, Distinct
<1>2. disk' = IF saved THEN [d EXCEPT !.index = Index(s)] ELSE d
  BY DEF Save
<1>3. /\ disk' \in DiskRec /\ disk'.file = d.file /\ disk'.snapshots = d.snapshots
      /\ disk'.index = IF saved THEN Index(s) ELSE d.index
  BY <1>1, <1>2 DEF DiskRec
<1>4. saveFailures' \in 0 .. MaxSaveFailures
  BY BoundsAssumption DEF Save
<1> QED
  BY <1>1, <1>3, <1>4

\* The store of now.
LEMMA StoreIsOrderly ==
    ASSUME IInv
    PROVE  Orderly(store) /\ store \in StoreRec
BY DEF IInv, StoreKept, Orderly

LEMMA CalmStep ==
    ASSUME IInv, Calm(store, store'), disk' \in DiskRec, Distinct(disk'.index),
           disk'.file = disk.file, disk'.snapshots = disk.snapshots,
           Listed(disk'.index) = Listed(disk.index) \/ Listed(disk'.index) = Listed(store'),
           UNCHANGED <<used, runs>>, UNCHANGED Ghosts,
           calls' \in 0 .. MaxCalls, saveFailures' \in 0 .. MaxSaveFailures
    PROVE  IInv'
<1>1. StoreKept(store')
  BY CalmKeepsStore DEF IInv
<1>2. /\ RequestsKept(store, disk, used) /\ FilesKept(store, disk, lost, tainted)
      /\ SnapshotsKept(store, disk, handed, leftover, runs) /\ RuntimeKept(store, disk, tainted)
  BY DEF IInv
<1>3. /\ RequestsKept(store', disk', used) /\ FilesKept(store', disk', lost, tainted)
      /\ SnapshotsKept(store', disk', handed, leftover, runs)
      /\ RuntimeKept(store', disk', tainted)
  BY <1>2, CalmKeepsRest
<1>4. Ranged'
  BY DEF IInv, Ranged, Ghosts
<1> QED
  BY <1>1, <1>3, <1>4 DEF IInv, Ghosts

LEMMA CalledCounts ==
    ASSUME IInv, Called
    PROVE  calls' \in 0 .. MaxCalls
BY BoundsAssumption DEF IInv, Ranged, Called

LEMMA CallSavingHolds ==
    ASSUME IInv, NEW s, Calm(store, s), NEW saved \in BOOLEAN, CallSaving(s, saved)
    PROVE  IInv'
<1>1. /\ s \in StoreRec /\ Distinct(s) /\ disk \in DiskRec /\ Distinct(disk.index)
      /\ saveFailures \in 0 .. MaxSaveFailures
  BY StoreIsOrderly, CalmKeepsOrder DEF Calm, IInv, Ranged, Orderly
<1>2. /\ store' = s /\ Called /\ Save(s, disk, saved)
      /\ UNCHANGED <<used, runs>> /\ UNCHANGED Ghosts
  BY DEF CallSaving
<1>3. /\ disk' \in DiskRec /\ Distinct(disk'.index)
      /\ disk'.file = disk.file /\ disk'.snapshots = disk.snapshots
      /\ Listed(disk'.index) = IF saved THEN Listed(s) ELSE Listed(disk.index)
      /\ saveFailures' \in 0 .. MaxSaveFailures
  BY <1>1, <1>2, SaveIsOfIndex
<1> QED
  BY <1>2, <1>3, CalledCounts, CalmStep

LEMMA CallOnlyHolds ==
    ASSUME IInv, NEW s, Calm(store, s), CallOnly(s)
    PROVE  IInv'
<1>1. /\ store' = s /\ Called /\ UNCHANGED <<disk, saveFailures>>
      /\ UNCHANGED <<used, runs>> /\ UNCHANGED Ghosts
  BY DEF CallOnly, NoSave
<1>2. disk \in DiskRec /\ Distinct(disk.index) /\ saveFailures \in 0 .. MaxSaveFailures
  BY DEF IInv, Ranged
<1> QED
  BY <1>1, <1>2, CalledCounts, CalmStep

LEMMA EventHolds ==
    ASSUME IInv, NEW s, Calm(store, s), Event(s)
    PROVE  IInv'
<1>1. /\ store' = s /\ UNCHANGED <<disk, saveFailures, calls>>
      /\ UNCHANGED <<used, runs>> /\ UNCHANGED Ghosts
  BY DEF Event, NoSave
<1>2. /\ disk \in DiskRec /\ Distinct(disk.index) /\ saveFailures \in 0 .. MaxSaveFailures
      /\ calls \in 0 .. MaxCalls
  BY DEF IInv, Ranged
<1> QED
  BY <1>1, <1>2, CalmStep

\* A change of the inputs of a generation, after it was cancelled, is calm.
LEMMA InputsChange ==
    ASSUME NEW s, Orderly(s), NEW m, Calm(s, m),
           RuntimeRunning(s) => m.runtime.cancelled,
           NEW t \in StoreRec, t.profiles = m.profiles, t.shown = m.shown, t.write = m.write,
           t.fileQueue = m.fileQueue, t.owed = m.owed, t.runtime = m.runtime,
           t.runtimeRequested = m.runtimeRequested, t.maintenance = m.maintenance
    PROVE  Calm(s, t)
BY DEF Calm

\* Other fields do not matter.
LEMMA OthersChange ==
    ASSUME NEW s, Orderly(s), NEW m, Calm(s, m),
           NEW t \in StoreRec, t.profiles = m.profiles, t.shown = m.shown, t.write = m.write,
           t.fileQueue = m.fileQueue, t.owed = m.owed, t.runtime = m.runtime,
           t.runtimeRequested = m.runtimeRequested, t.maintenance = m.maintenance,
           t.currentUid = m.currentUid, t.settings = m.settings
    PROVE  Calm(s, t)
BY DEF Calm

LEMMA ToggledIsSetting ==
    ASSUME NEW x \in {0, 1}
    PROVE  Toggled(x) \in {0, 1}
BY DEF Toggled

LEMMA SelectProfileHolds ==
    ASSUME IInv, NEW u \in Uids, NEW saved \in BOOLEAN, SelectProfile(u, saved)
    PROVE  IInv'
<1> DEFINE m == CancelRuntimeGeneration(store)
           t == [m EXCEPT !.currentUid = u]
<1>1. Calm(store, m) /\ m.runtime.cancelled = RuntimeRunning(store) /\ m \in StoreRec
  BY StoreIsOrderly, RuntimeCancelledIsCalm, RuntimeCancelled, StoreParts DEF RuntimeRec
<1>2. CallSaving(t, saved)
  BY DEF SelectProfile
<1> HIDE DEF m
<1>3. Calm(store, t)
  <2>1. /\ t \in StoreRec /\ t.profiles = m.profiles /\ t.shown = m.shown /\ t.write = m.write
        /\ t.fileQueue = m.fileQueue /\ t.owed = m.owed /\ t.runtime = m.runtime
        /\ t.runtimeRequested = m.runtimeRequested /\ t.maintenance = m.maintenance
    BY <1>1 DEF StoreRec
  <2> QED
    BY <1>1, <2>1, StoreIsOrderly, InputsChange
<1> QED
  BY <1>2, <1>3, CallSavingHolds

LEMMA RenameProfileHolds ==
    ASSUME IInv, NEW u \in Uids, NEW saved \in BOOLEAN, RenameProfile(u, saved)
    PROVE  IInv'
<1> DEFINE m == CancelIfCurrent(store, u)
           t == [m EXCEPT !.settings = IF u = store.currentUid THEN Toggled(@) ELSE @]
<1>1. Calm(store, m) /\ m \in StoreRec
  BY StoreIsOrderly, CancelIfCurrentIsCalm DEF Calm
<1>2. u = store.currentUid => m.runtime.cancelled = RuntimeRunning(store)
  BY StoreIsOrderly, RuntimeCancelled, StoreParts DEF RuntimeRec, CancelIfCurrent
<1>3. CallSaving(t, saved)
  BY DEF RenameProfile
<1> HIDE DEF m
<1>4. m.settings \in {0, 1}
  BY <1>1 DEF StoreRec
<1>5. /\ t \in StoreRec /\ t.profiles = m.profiles /\ t.shown = m.shown /\ t.write = m.write
      /\ t.fileQueue = m.fileQueue /\ t.owed = m.owed /\ t.runtime = m.runtime
      /\ t.runtimeRequested = m.runtimeRequested /\ t.maintenance = m.maintenance
      /\ t.currentUid = m.currentUid /\ (u # store.currentUid => t.settings = m.settings)
  BY <1>1, <1>4, ToggledIsSetting DEF StoreRec
<1> HIDE DEF t
<1>6. Calm(store, t)
  BY <1>1, <1>2, <1>5, StoreIsOrderly, InputsChange, OthersChange
<1> QED
  BY <1>3, <1>6, CallSavingHolds

LEMMA SetUpdateIntervalHolds ==
    ASSUME IInv, NEW u \in Uids, NEW saved \in BOOLEAN, SetUpdateInterval(u, saved)
    PROVE  IInv'
BY StoreIsOrderly, SameIsCalm, CallSavingHolds DEF SetUpdateInterval

LEMMA SetSubscriptionUrlHolds ==
    ASSUME IInv, NEW u \in Uids, NEW x \in Urls, NEW saved \in BOOLEAN,
           SetSubscriptionUrl(u, x, saved)
    PROVE  IInv'
<1> DEFINE m == CancelFileOperations(store)
           t == [m EXCEPT !.url[u] = x]
           v == [t EXCEPT !.updating[u] = Nothing]
<1>1. Calm(store, m) /\ m \in StoreRec
  BY StoreIsOrderly, FilesCancelledIsCalm DEF Calm
<1>2. /\ Called /\ Save(t, disk, saved) /\ store' = IF saved THEN v ELSE m
      /\ UNCHANGED <<used, runs>> /\ UNCHANGED Ghosts
  BY DEF SetSubscriptionUrl
<1> HIDE DEF m
<1>3. /\ t \in StoreRec /\ t.profiles = m.profiles /\ t.shown = m.shown /\ t.write = m.write
      /\ t.fileQueue = m.fileQueue /\ t.owed = m.owed /\ t.runtime = m.runtime
      /\ t.runtimeRequested = m.runtimeRequested /\ t.maintenance = m.maintenance
      /\ t.currentUid = m.currentUid /\ t.settings = m.settings
  BY <1>1 DEF StoreRec, MaybeUrl
<1> HIDE DEF t
<1>4. /\ v \in StoreRec /\ v.profiles = t.profiles /\ v.shown = t.shown /\ v.write = t.write
      /\ v.fileQueue = t.fileQueue /\ v.owed = t.owed /\ v.runtime = t.runtime
      /\ v.runtimeRequested = t.runtimeRequested /\ v.maintenance = t.maintenance
      /\ v.currentUid = t.currentUid /\ v.settings = t.settings
  BY <1>3 DEF StoreRec, MaybeUrl
<1> HIDE DEF v
<1>5. Calm(store, t)
  BY <1>1, <1>3, StoreIsOrderly, OthersChange
<1>6. Calm(store, v)
  BY <1>4, <1>5, StoreIsOrderly, OthersChange
<1>7. /\ disk' \in DiskRec /\ Distinct(disk'.index)
      /\ disk'.file = disk.file /\ disk'.snapshots = disk.snapshots
      /\ Listed(disk'.index) = IF saved THEN Listed(t) ELSE Listed(disk.index)
      /\ saveFailures' \in 0 .. MaxSaveFailures
  <2>1. Distinct(t)
    BY <1>5, StoreIsOrderly, CalmKeepsOrder DEF Orderly
  <2> QED
    BY <1>2, <1>3, <2>1, SaveIsOfIndex DEF IInv, Ranged
<1>8. saved => Listed(t) = Listed(store')
  BY <1>2, <1>4 DEF Listed
<1> QED
  BY <1>1, <1>2, <1>6, <1>7, <1>8, CalledCounts, CalmStep

\* An update of fields that nothing depends on.
LEMMA DownloadsAreCalm ==
    ASSUME NEW s, Orderly(s), NEW up \in [Uids -> MaybeUrl], NEW im \in SUBSET Urls
    PROVE  Calm(s, [s EXCEPT !.updating = up, !.imports = im])
<1> DEFINE t == [s EXCEPT !.updating = up, !.imports = im]
<1>1. s \in StoreRec
  BY DEF Orderly
<1>2. /\ t \in StoreRec /\ t.profiles = s.profiles /\ t.shown = s.shown /\ t.write = s.write
      /\ t.fileQueue = s.fileQueue /\ t.owed = s.owed /\ t.runtime = s.runtime
      /\ t.runtimeRequested = s.runtimeRequested /\ t.maintenance = s.maintenance
      /\ t.currentUid = s.currentUid /\ t.settings = s.settings
  BY <1>1 DEF StoreRec
<1> HIDE DEF t
<1>3. Calm(s, t)
  BY <1>1, <1>2, SameIsCalm, OthersChange
<1> QED
  BY <1>3 DEF t

LEMMA OneDownloadIsCalm ==
    ASSUME NEW s, Orderly(s)
    PROVE  /\ \A up \in [Uids -> MaybeUrl] : Calm(s, [s EXCEPT !.updating = up])
           /\ \A im \in SUBSET Urls : Calm(s, [s EXCEPT !.imports = im])
           /\ Calm(s, CancelDownloads(s))
<1>1. s \in StoreRec /\ s.updating \in [Uids -> MaybeUrl] /\ s.imports \in SUBSET Urls
  BY DEF Orderly, StoreRec
<1>2. ASSUME NEW up \in [Uids -> MaybeUrl] PROVE Calm(s, [s EXCEPT !.updating = up])
  <2>1. [s EXCEPT !.updating = up] = [s EXCEPT !.updating = up, !.imports = s.imports]
    BY <1>1 DEF StoreRec
  <2> QED
    BY <1>1, <2>1, DownloadsAreCalm
<1>3. ASSUME NEW im \in SUBSET Urls PROVE Calm(s, [s EXCEPT !.imports = im])
  <2>1. [s EXCEPT !.imports = im] = [s EXCEPT !.updating = s.updating, !.imports = im]
    BY <1>1 DEF StoreRec
  <2> QED
    BY <1>1, <2>1, DownloadsAreCalm
<1>4. Calm(s, CancelDownloads(s))
  <2>1. [u \in Uids |-> Nothing] \in [Uids -> MaybeUrl] /\ {} \in SUBSET Urls
    BY DEF MaybeUrl
  <2> QED
    BY <2>1, DownloadsAreCalm DEF CancelDownloads
<1> QED
  BY <1>2, <1>3, <1>4

LEMMA EverythingCancelled ==
    ASSUME NEW s, Orderly(s)
    PROVE  LET t == CancelEverything(s)
           IN /\ Calm(s, t) /\ Orderly(t) /\ t.fileQueue = <<>> /\ ~t.runtimeRequested
              /\ t.runtime.cancelled = RuntimeRunning(s)
              /\ t.write.cancelled = FileRunning(s)
<1> DEFINE a == CancelFileOperations(s)
           b == CancelRuntimeGeneration(a)
           t == CancelDownloads(b)
<1>1. s \in StoreRec /\ s.write \in WriteRec /\ s.runtime \in RuntimeRec
  BY StoreParts DEF Orderly
<1>2. Calm(s, a) /\ a.fileQueue = <<>> /\ a.write.cancelled = FileRunning(s) /\ a.runtime = s.runtime
  BY <1>1, FilesCancelledIsCalm, FilesCancelled DEF WriteRec
<1>3. Orderly(a) /\ a \in StoreRec
  BY <1>2, CalmKeepsOrder DEF Calm
<1> HIDE DEF a
<1>4. /\ Calm(a, b) /\ b.fileQueue = a.fileQueue /\ b.write = a.write /\ b.runtimeRequested = FALSE
      /\ b.runtime.cancelled = RuntimeRunning(a)
  BY <1>1, <1>2, <1>3, RuntimeCancelledIsCalm, RuntimeCancelled DEF RuntimeRec
<1>5. Orderly(b) /\ b \in StoreRec
  BY <1>3, <1>4, CalmKeepsOrder DEF Calm
<1> HIDE DEF b
<1>6. /\ Calm(b, t) /\ t.fileQueue = b.fileQueue /\ t.write = b.write /\ t.runtime = b.runtime
      /\ t.runtimeRequested = b.runtimeRequested
  BY <1>5, OneDownloadIsCalm DEF CancelDownloads, StoreRec
<1>7. t = CancelEverything(s)
  BY DEF CancelEverything, a, b
<1> HIDE DEF t
<1>8. Calm(s, t)
  BY <1>2, <1>4, <1>6, CalmTwice
<1>9. Orderly(t)
  BY <1>8, CalmKeepsOrder
<1>10. RuntimeRunning(a) = RuntimeRunning(s)
  BY <1>2 DEF RuntimeRunning
<1> QED
  BY <1>2, <1>4, <1>6, <1>7, <1>8, <1>9, <1>10

\* A change of what configurations are made of.
LEMMA SettingsChange ==
    ASSUME IInv, CallOnly([CancelRuntimeGeneration(store) EXCEPT !.settings = Toggled(@)])
    PROVE  IInv'
<1> DEFINE m == CancelRuntimeGeneration(store)
           t == [m EXCEPT !.settings = Toggled(@)]
<1>1. Calm(store, m) /\ m.runtime.cancelled = RuntimeRunning(store) /\ m \in StoreRec
  BY StoreIsOrderly, RuntimeCancelledIsCalm, RuntimeCancelled, StoreParts DEF RuntimeRec
<1>2. CallOnly(t)
  OBVIOUS
<1> HIDE DEF m
<1>3. Toggled(m.settings) \in {0, 1}
  BY <1>1, ToggledIsSetting DEF StoreRec
<1>4. /\ t \in StoreRec /\ t.profiles = m.profiles /\ t.shown = m.shown /\ t.write = m.write
      /\ t.fileQueue = m.fileQueue /\ t.owed = m.owed /\ t.runtime = m.runtime
      /\ t.runtimeRequested = m.runtimeRequested /\ t.maintenance = m.maintenance
  BY <1>1, <1>3 DEF StoreRec
<1>5. Calm(store, t)
  BY <1>1, <1>4, StoreIsOrderly, InputsChange
<1> QED
  BY <1>2, <1>5, CallOnlyHolds

LEMMA CancellationsHold ==
    ASSUME IInv, SaveProfileContentFails \/ CancelRuntime \/ SetRuntimeOverrides \/ ChainChanged
    PROVE  IInv'
<1>1. CASE SaveProfileContentFails
  BY <1>1, StoreIsOrderly, FilesCancelledIsCalm, CallOnlyHolds DEF SaveProfileContentFails
<1>2. CASE CancelRuntime
  BY <1>2, StoreIsOrderly, RuntimeCancelledIsCalm, CallOnlyHolds DEF CancelRuntime
<1>3. CASE SetRuntimeOverrides
  BY <1>3, SettingsChange DEF SetRuntimeOverrides
<1>4. CASE ChainChanged
  BY <1>4, SettingsChange DEF ChainChanged
<1> QED
  BY <1>1, <1>2, <1>3, <1>4

LEMMA FetchIsCalm ==
    ASSUME NEW s, Orderly(s), NEW due
    PROVE  Calm(s, Fetch(s, due))
<1>1. s \in StoreRec /\ s.updating \in [Uids -> MaybeUrl] /\ s.url \in [Uids -> MaybeUrl]
  BY DEF Orderly, StoreRec
<1> DEFINE up == [u \in Uids |-> IF u \in due /\ s.updating[u] = Nothing THEN s.url[u] ELSE s.updating[u]]
<1>2. Fetch(s, due) = [s EXCEPT !.updating = up]
  BY <1>1 DEF Fetch, StoreRec
<1>3. up \in [Uids -> MaybeUrl]
  BY <1>1
<1> HIDE DEF up
<1> QED
  BY <1>2, <1>3, OneDownloadIsCalm

LEMMA ForgetIsCalm ==
    ASSUME NEW s, Orderly(s), NEW u, NEW x
    PROVE  /\ Calm(s, [s EXCEPT !.updating[u] = Nothing])
           /\ Calm(s, [s EXCEPT !.imports = @ \ {x}])
<1>1. s \in StoreRec /\ s.updating \in [Uids -> MaybeUrl] /\ s.imports \in SUBSET Urls
  BY DEF Orderly, StoreRec
<1>2. [s.updating EXCEPT ![u] = Nothing] \in [Uids -> MaybeUrl] /\ s.imports \ {x} \in SUBSET Urls
  BY <1>1 DEF MaybeUrl
<1>3. /\ [s EXCEPT !.updating[u] = Nothing] = [s EXCEPT !.updating = [s.updating EXCEPT ![u] = Nothing]]
      /\ [s EXCEPT !.imports = @ \ {x}] = [s EXCEPT !.imports = s.imports \ {x}]
  BY <1>1 DEF StoreRec
<1> QED
  BY <1>2, <1>3, OneDownloadIsCalm

LEMMA DownloadCallsHold ==
    ASSUME IInv, \/ \E x \in Urls : ImportFromUrl(x) \/ ImportFails(x)
                 \/ \E u \in Uids : UpdateProfile(u) \/ UpdateFails(u)
                 \/ \E due \in SUBSET Uids : RefreshDueProfiles(due)
    PROVE  IInv'
<1>1. ASSUME NEW x \in Urls, ImportFromUrl(x) PROVE IInv'
  <2>1. store.imports \cup {x} \in SUBSET Urls
    BY StoreIsOrderly DEF StoreRec
  <2>2. [store EXCEPT !.imports = @ \cup {x}] = [store EXCEPT !.imports = store.imports \cup {x}]
    BY StoreIsOrderly DEF StoreRec
  <2>3. Calm(store, [store EXCEPT !.imports = @ \cup {x}])
    BY <2>1, <2>2, StoreIsOrderly, OneDownloadIsCalm
  <2> QED
    BY <1>1, <2>3, CallOnlyHolds DEF ImportFromUrl
<1>2. ASSUME NEW x \in Urls, ImportFails(x) PROVE IInv'
  BY <1>2, StoreIsOrderly, ForgetIsCalm, EventHolds DEF ImportFails
<1>3. ASSUME NEW u \in Uids, UpdateProfile(u) PROVE IInv'
  BY <1>3, StoreIsOrderly, FetchIsCalm, CallOnlyHolds DEF UpdateProfile
<1>4. ASSUME NEW u \in Uids, UpdateFails(u) PROVE IInv'
  BY <1>4, StoreIsOrderly, ForgetIsCalm, EventHolds DEF UpdateFails
<1>5. ASSUME NEW due \in SUBSET Uids, RefreshDueProfiles(due) PROVE IInv'
  BY <1>5, StoreIsOrderly, FetchIsCalm, CallOnlyHolds DEF RefreshDueProfiles
<1> QED
  BY <1>1, <1>2, <1>3, <1>4, <1>5

LEMMA SetMaintenanceModeHolds ==
    ASSUME IInv, NEW enabled \in BOOLEAN, SetMaintenanceMode(enabled)
    PROVE  IInv'
<1> DEFINE m == IF enabled THEN CancelEverything(store) ELSE store
           t == [m EXCEPT !.maintenance = enabled]
<1>1. Calm(store, m) /\ (enabled => m.fileQueue = <<>> /\ ~m.runtimeRequested)
  BY StoreIsOrderly, SameIsCalm, EverythingCancelled
<1>2. CallOnly(t)
  BY DEF SetMaintenanceMode
<1> HIDE DEF m
<1>3. /\ t \in StoreRec /\ t.profiles = m.profiles /\ t.shown = m.shown /\ t.write = m.write
      /\ t.fileQueue = m.fileQueue /\ t.owed = m.owed /\ t.runtime = m.runtime
      /\ t.runtimeRequested = m.runtimeRequested /\ t.maintenance = enabled
      /\ t.currentUid = m.currentUid /\ t.settings = m.settings
  BY <1>1 DEF Calm, StoreRec
<1> HIDE DEF t
<1>4. Calm(store, t)
  BY <1>1, <1>3 DEF Calm
<1> QED
  BY <1>2, <1>4, CallOnlyHolds

LEMMA BeginShutdownHolds ==
    ASSUME IInv, BeginShutdown
    PROVE  IInv'
<1> DEFINE b == CancelRuntimeGeneration(store)
           m == CancelDownloads(b)
           t == [m EXCEPT !.shuttingDown = TRUE]
<1>1. Calm(store, b)
  BY StoreIsOrderly, RuntimeCancelledIsCalm
<1>2. Orderly(b)
  BY <1>1, StoreIsOrderly, CalmKeepsOrder
<1>3. Calm(b, m)
  BY <1>2, OneDownloadIsCalm
<1>4. CallOnly(t)
  BY DEF BeginShutdown
<1> HIDE DEF b, m
<1>5. Calm(store, m) /\ m \in StoreRec
  BY <1>1, <1>3, StoreIsOrderly, CalmTwice DEF Calm
<1>6. /\ t \in StoreRec /\ t.profiles = m.profiles /\ t.shown = m.shown /\ t.write = m.write
      /\ t.fileQueue = m.fileQueue /\ t.owed = m.owed /\ t.runtime = m.runtime
      /\ t.runtimeRequested = m.runtimeRequested /\ t.maintenance = m.maintenance
      /\ t.currentUid = m.currentUid /\ t.settings = m.settings
  BY <1>5 DEF StoreRec
<1> HIDE DEF t
<1>7. Calm(store, t)
  BY <1>5, <1>6, StoreIsOrderly, OthersChange
<1> QED
  BY <1>4, <1>7, CallOnlyHolds

-----------------------------------------------------------------------------
(* Calls that change the list or a file *)

\* What is left without the i-th element.
LEMMA RemoveAtProperties ==
    ASSUME NEW S, NEW s \in Seq(S), NEW i \in 1 .. Len(s)
    PROVE  /\ RemoveAt(s, i) \in Seq(S) /\ Len(RemoveAt(s, i)) = Len(s) - 1
           /\ \A j \in 1 .. Len(s) - 1 : RemoveAt(s, i)[j] = IF j < i THEN s[j] ELSE s[j + 1]
<1> DEFINE a == SubSeq(s, 1, i - 1)
           b == SubSeq(s, i + 1, Len(s))
<1>1. a \in Seq(S) /\ Len(a) = i - 1 /\ \A j \in 1 .. i - 1 : a[j] = s[j]
  OBVIOUS
<1>2. b \in Seq(S) /\ Len(b) = Len(s) - i /\ \A j \in 1 .. Len(s) - i : b[j] = s[i + j]
  OBVIOUS
<1>3. RemoveAt(s, i) = a \o b
  BY DEF RemoveAt
<1> HIDE DEF a, b
<1>4. /\ a \o b \in Seq(S) /\ Len(a \o b) = Len(a) + Len(b)
      /\ \A j \in 1 .. Len(a) + Len(b) : (a \o b)[j] = IF j <= Len(a) THEN a[j] ELSE b[j - Len(a)]
  BY <1>1, <1>2, ConcatProperties
<1>5. ASSUME NEW j \in 1 .. Len(s) - 1
      PROVE  (a \o b)[j] = IF j < i THEN s[j] ELSE s[j + 1]
  <2>1. CASE j < i
    BY <1>1, <1>2, <1>4, <2>1
  <2>2. CASE j >= i
    <3> DEFINE k == j - Len(a)
    <3>1. k \in 1 .. Len(s) - i /\ ~(j <= Len(a)) /\ i + k = j + 1
      BY <1>1, <2>2
    <3>2. (a \o b)[j] = b[k]
      BY <1>1, <1>2, <1>4, <2>2, <3>1
    <3> HIDE DEF k
    <3>3. b[k] = s[i + k]
      BY <1>2, <3>1
    <3> QED
      BY <2>2, <3>1, <3>2, <3>3
  <2>3. j < i \/ j >= i
    OBVIOUS
  <2> QED
    BY <2>1, <2>2, <2>3
<1> QED
  BY <1>1, <1>2, <1>3, <1>4, <1>5

LEMMA RemovedFromList ==
    ASSUME NEW s \in StoreRec, Distinct(s), NEW u \in Listed(s)
    PROVE  LET list == RemoveAt(s.profiles, IndexOf(s, u))
           IN /\ list \in Seq(Uids) /\ FirstOf(list) \in Uids \cup {Nothing}
              /\ {list[i] : i \in DOMAIN list} = Listed(s) \ {u}
              /\ \A i, j \in DOMAIN list : list[i] = list[j] => i = j
<1> DEFINE k == IndexOf(s, u)
           q == s.profiles
           list == RemoveAt(q, k)
<1>1. q \in Seq(Uids) /\ DOMAIN q = 1 .. Len(q) /\ Len(q) \in Nat
  BY DEF StoreRec
<1>2. k \in 1 .. Len(q) /\ q[k] = u
  BY <1>1 DEF Listed, IndexOf
<1>3. \A i, j \in 1 .. Len(q) : q[i] = q[j] => i = j
  BY <1>1 DEF Distinct
<1>4. Listed(s) = {q[i] : i \in 1 .. Len(q)}
  BY <1>1 DEF Listed
<1> HIDE DEF k, q
<1>5. /\ list \in Seq(Uids) /\ Len(list) = Len(q) - 1
      /\ \A j \in 1 .. Len(q) - 1 : list[j] = IF j < k THEN q[j] ELSE q[j + 1]
  BY <1>1, <1>2, RemoveAtProperties
<1> HIDE DEF list
<1>6. DOMAIN list = 1 .. Len(q) - 1
  BY <1>5
<1>7. ASSUME NEW j \in 1 .. Len(q) - 1
      PROVE  list[j] \in Listed(s) \ {u}
  <2>1. CASE j < k
    <3>1. list[j] = q[j] /\ j \in 1 .. Len(q) /\ j # k
      BY <1>1, <1>2, <1>5, <2>1
    <3> QED
      BY <1>2, <1>3, <1>4, <3>1
  <2>2. CASE ~(j < k)
    <3>1. list[j] = q[j + 1] /\ j + 1 \in 1 .. Len(q) /\ j + 1 # k
      BY <1>1, <1>2, <1>5, <2>2
    <3> QED
      BY <1>2, <1>3, <1>4, <3>1
  <2> QED
    BY <2>1, <2>2
<1>8. ASSUME NEW v \in Listed(s) \ {u}
      PROVE  \E j \in 1 .. Len(q) - 1 : list[j] = v
  <2>1. PICK i \in 1 .. Len(q) : v = q[i]
    BY <1>4
  <2>2. i # k
    BY <1>2, <2>1
  <2>3. CASE i < k
    <3>1. i \in 1 .. Len(q) - 1 /\ list[i] = q[i]
      BY <1>1, <1>2, <1>5, <2>3
    <3> QED
      BY <2>1, <3>1
  <2>4. CASE i > k
    <3>1. i - 1 \in 1 .. Len(q) - 1 /\ ~(i - 1 < k) /\ (i - 1) + 1 = i
      BY <1>1, <1>2, <2>4
    <3>2. list[i - 1] = q[i]
      BY <1>5, <3>1
    <3> QED
      BY <2>1, <3>1, <3>2
  <2> QED
    BY <1>1, <1>2, <2>2, <2>3, <2>4
<1>9. ASSUME NEW i \in 1 .. Len(q) - 1, NEW j \in 1 .. Len(q) - 1, list[i] = list[j]
      PROVE  i = j
  <2> DEFINE At(h) == IF h < k THEN h ELSE h + 1
  <2>1. \A h \in 1 .. Len(q) - 1 : At(h) \in 1 .. Len(q) /\ list[h] = q[At(h)]
    BY <1>1, <1>2, <1>5
  <2>2. At(i) = At(j)
    BY <1>3, <1>9, <2>1
  <2> QED
    BY <1>1, <1>2, <2>2
<1>10. FirstOf(list) \in Uids \cup {Nothing}
  BY <1>5 DEF FirstOf
<1>11. {list[i] : i \in DOMAIN list} = Listed(s) \ {u}
  BY <1>6, <1>7, <1>8
<1>12. \A i, j \in DOMAIN list : list[i] = list[j] => i = j
  BY <1>6, <1>9
<1> QED
  BY <1>5, <1>10, <1>11, <1>12 DEF k, q, list

LEMMA ProfileAppended ==
    ASSUME NEW s \in StoreRec, Distinct(s), NEW r, r.uid \in Uids, r.url \in MaybeUrl,
           r.uid \notin Listed(s)
    PROVE  LET t == AppendProfile(s, r)
           IN /\ t \in StoreRec /\ Distinct(t) /\ Listed(t) = Listed(s) \cup {r.uid}
              /\ t.currentUid = (IF s.currentUid = Nothing THEN r.uid ELSE s.currentUid)
              /\ t.shown = s.shown /\ t.write = s.write
              /\ t.fileQueue = s.fileQueue /\ t.owed = s.owed /\ t.runtime = s.runtime
              /\ t.runtimeRequested = s.runtimeRequested /\ t.maintenance = s.maintenance
              /\ t.settings = s.settings
<1> DEFINE q == s.profiles
           p == Append(q, r.uid)
           t == AppendProfile(s, r)
<1>1. q \in Seq(Uids)
  BY DEF StoreRec
<1>2. /\ p \in Seq(Uids) /\ DOMAIN p = 1 .. Len(q) + 1 /\ DOMAIN q = 1 .. Len(q) /\ Len(q) \in Nat
      /\ p[Len(q) + 1] = r.uid /\ \A j \in 1 .. Len(q) : p[j] = q[j]
  BY <1>1, AppendElements
<1> HIDE DEF p
<1>3. /\ t \in StoreRec /\ t.profiles = p
      /\ t.currentUid = (IF s.currentUid = Nothing THEN r.uid ELSE s.currentUid)
      /\ t.shown = s.shown /\ t.write = s.write
      /\ t.fileQueue = s.fileQueue /\ t.owed = s.owed /\ t.runtime = s.runtime
      /\ t.runtimeRequested = s.runtimeRequested /\ t.maintenance = s.maintenance
      /\ t.settings = s.settings
  BY <1>2 DEF AppendProfile, StoreRec, p
<1> HIDE DEF t
<1>4. Listed(s) = {q[i] : i \in 1 .. Len(q)} /\ Listed(t) = {p[i] : i \in 1 .. Len(q) + 1}
  BY <1>2, <1>3 DEF Listed
<1>5. Listed(t) = Listed(s) \cup {r.uid}
  BY <1>2, <1>4
<1>6. Distinct(t)
  <2> SUFFICES ASSUME NEW i \in 1 .. Len(q) + 1, NEW j \in 1 .. Len(q) + 1, p[i] = p[j], i # j
               PROVE  FALSE
    BY <1>2, <1>3 DEF Distinct
  <2>1. \A h \in 1 .. Len(q) : p[h] \in Listed(s)
    BY <1>2, <1>4
  <2>2. i \in 1 .. Len(q) /\ j \in 1 .. Len(q)
    BY <1>2, <2>1
  <2> QED
    BY <1>2, <2>2 DEF Distinct
<1> QED
  BY <1>3, <1>5, <1>6 DEF t

LEMMA BothCancelled ==
    ASSUME NEW s, Orderly(s), NEW u
    PROVE  LET m == CancelIfCurrent(CancelFileOperations(s), u)
           IN /\ Calm(s, m) /\ m \in StoreRec /\ m.fileQueue = <<>>
              /\ m.currentUid = s.currentUid /\ m.settings = s.settings
              /\ FileRunning(s) => m.write.cancelled
              /\ u = s.currentUid /\ RuntimeRunning(s) => m.runtime.cancelled
<1> DEFINE a == CancelFileOperations(s)
           m == CancelIfCurrent(a, u)
<1>1. s \in StoreRec /\ s.write \in WriteRec /\ s.runtime \in RuntimeRec
  BY StoreParts DEF Orderly
<1>2. /\ Calm(s, a) /\ a.fileQueue = <<>> /\ a.write.cancelled = FileRunning(s)
      /\ a.runtime = s.runtime /\ a.currentUid = s.currentUid /\ a.settings = s.settings
  BY <1>1, FilesCancelledIsCalm, FilesCancelled DEF WriteRec
<1>3. Orderly(a) /\ a \in StoreRec
  BY <1>2, CalmKeepsOrder DEF Calm
<1> HIDE DEF a
<1>4. /\ Calm(a, m) /\ m.fileQueue = a.fileQueue /\ m.write = a.write
      /\ m.currentUid = a.currentUid /\ m.settings = a.settings
      /\ u = a.currentUid => m.runtime.cancelled = RuntimeRunning(a)
  BY <1>1, <1>2, <1>3, CancelIfCurrentIsCalm, RuntimeCancelled DEF RuntimeRec, CancelIfCurrent
<1> HIDE DEF m
<1>5. Calm(s, m) /\ RuntimeRunning(a) = RuntimeRunning(s)
  BY <1>2, <1>4, CalmTwice DEF RuntimeRunning
<1> QED
  BY <1>2, <1>4, <1>5 DEF m, a, Calm

LEMMA RemoveProfileHolds ==
    ASSUME IInv, NEW u \in Uids, NEW saved \in BOOLEAN, RemoveProfile(u, saved)
    PROVE  IInv'
<1> DEFINE list == RemoveAt(store.profiles, IndexOf(store, u))
           m == CancelIfCurrent(CancelFileOperations(store), u)
           t == [m EXCEPT !.profiles = list, !.url[u] = Nothing,
                          !.currentUid = IF @ = u THEN FirstOf(list) ELSE @]
           d == [disk EXCEPT !.file[u] = Nothing]
<1>1. /\ u \in Listed(store) /\ Called /\ store' = t /\ Save(t, d, saved)
      /\ lost' = IF saved THEN lost ELSE lost \cup {u}
      /\ UNCHANGED <<used, runs, handed, leftover, confirmed, tainted, crashes>>
  BY DEF RemoveProfile
<1>2. /\ list \in Seq(Uids) /\ FirstOf(list) \in Uids \cup {Nothing}
      /\ {list[i] : i \in DOMAIN list} = Listed(store) \ {u}
      /\ \A i, j \in DOMAIN list : list[i] = list[j] => i = j
  BY <1>1, StoreIsOrderly, RemovedFromList DEF Orderly
<1>3. /\ Calm(store, m) /\ m \in StoreRec /\ m.fileQueue = <<>>
      /\ m.currentUid = store.currentUid /\ m.settings = store.settings
      /\ FileRunning(store) => m.write.cancelled
      /\ u = store.currentUid /\ RuntimeRunning(store) => m.runtime.cancelled
  BY StoreIsOrderly, BothCancelled
<1>4. Orderly(m)
  BY <1>3, StoreIsOrderly, CalmKeepsOrder
<1> HIDE DEF list, m
<1>5. /\ t \in StoreRec /\ t.profiles = list /\ t.shown = m.shown /\ t.write = m.write
      /\ t.fileQueue = <<>> /\ t.owed = m.owed /\ t.runtime = m.runtime
      /\ t.runtimeRequested = m.runtimeRequested /\ t.maintenance = m.maintenance
      /\ t.settings = m.settings /\ (u # m.currentUid => t.currentUid = m.currentUid)
  BY <1>2, <1>3 DEF StoreRec, MaybeUrl
<1> HIDE DEF t
<1>6. Listed(t) = Listed(store) \ {u} /\ Distinct(t)
  <2>1. Listed(t) = {list[i] : i \in DOMAIN list}
    BY <1>5 DEF Listed
  <2>2. Distinct(t)
    BY <1>2, <1>5 DEF Distinct
  <2> QED
    BY <1>2, <2>1, <2>2
<1>7. disk \in DiskRec /\ Distinct(disk.index) /\ saveFailures \in 0 .. MaxSaveFailures
  BY DEF IInv, Ranged
<1>8. /\ d \in DiskRec /\ d.index = disk.index /\ d.snapshots = disk.snapshots
      /\ \A v \in Uids : d.file[v] = IF v = u THEN Nothing ELSE disk.file[v]
  BY <1>7 DEF DiskRec, MaybeContents
<1> HIDE DEF d
<1>9. /\ disk' \in DiskRec /\ Distinct(disk'.index) /\ disk'.file = d.file
      /\ disk'.snapshots = disk.snapshots
      /\ Listed(disk'.index) = IF saved THEN Listed(t) ELSE Listed(disk.index)
      /\ saveFailures' \in 0 .. MaxSaveFailures
  <2>1. Save(t, d, saved) /\ t \in StoreRec /\ Distinct(t)
    BY <1>1, <1>5, <1>6
  <2>2. d \in DiskRec /\ Distinct(d.index) /\ saveFailures \in 0 .. MaxSaveFailures
    BY <1>7, <1>8
  <2>3. /\ disk' \in DiskRec /\ Distinct(disk'.index) /\ disk'.file = d.file
        /\ disk'.snapshots = d.snapshots
        /\ Listed(disk'.index) = IF saved THEN Listed(t) ELSE Listed(d.index)
        /\ saveFailures' \in 0 .. MaxSaveFailures
    BY <2>1, <2>2, SaveIsOfIndex
  <2> QED
    BY <1>8, <2>3
<1>10. StoreKept(store')
  <2>1. Accounted(t)
    BY <1>4, <1>3, <1>5 DEF Orderly, Accounted, FileRunning
  <2>2. m.runtimeRequested => RuntimeRunning(m) /\ ~m.maintenance
    BY <1>4 DEF Orderly
  <2>3. m.shown = IsFileBusy(m)
    BY <1>3, CalmKeepsStore DEF IInv, StoreKept
  <2>4. RuntimeRunning(t) = RuntimeRunning(m) /\ IsFileBusy(t) = IsFileBusy(m)
    BY <1>5 DEF RuntimeRunning, IsFileBusy, FileRunning
  <2> QED
    BY <1>1, <1>5, <1>6, <2>1, <2>2, <2>3, <2>4 DEF StoreKept, Orderly
<1>11. RequestsKept(store', disk', used')
  BY <1>1, <1>3, <1>5, <1>6, <1>9, RequestsFrame DEF IInv, Calm
<1>12. FilesKept(store', disk', lost', tainted')
  <2>1. \A v : Committed(t, v) <=> Committed(store, v)
    BY <1>3, <1>5 DEF Calm, Committed
  <2>2. t.write.stage = store.write.stage /\ (FileRunning(store) => t.write.cancelled)
    BY <1>3, <1>5 DEF Calm
  <2>3. ASSUME NEW v \in Uids \ lost'
        PROVE  /\ v \in Listed(t) <=> v \in Listed(disk'.index)
               /\ v \in Listed(t) => disk'.file[v] # Nothing
               /\ v \notin tainted' /\ disk'.file[v] # Nothing => v \in Listed(t) \/ Committed(t, v)
    BY <1>1, <1>6, <1>8, <1>9, <2>1 DEF IInv, FilesKept
  <2> QED
    BY <1>1, <2>2, <2>3 DEF FilesKept, FileRunning
<1>13. SnapshotsKept(store', disk', handed', leftover', runs')
  BY <1>1, <1>3, <1>5, <1>9, SnapshotsFrame DEF IInv, Calm
<1>14. RuntimeKept(store', disk', tainted')
  <2>1. RuntimeRunning(store) /\ ~t.runtime.cancelled =>
            /\ ~store.runtime.cancelled
            /\ t.currentUid = store.currentUid /\ t.settings = store.settings
            /\ store.currentUid \in Listed(store) => store.currentUid \in Listed(t)
            /\ store.currentUid \in Listed(store) => d.file[store.currentUid] = disk.file[store.currentUid]
            /\ Committed(store, store.currentUid) => Committed(t, store.currentUid)
    <3>1. \A v \in Listed(store) : v \in Uids
      BY StoreIsOrderly DEF StoreRec, Listed
    <3> QED
      BY <1>3, <1>5, <1>6, <1>8, <3>1 DEF Calm, Committed
  <2> QED
    BY <1>1, <1>3, <1>5, <1>9, <2>1, RuntimeFrame DEF IInv, Calm
<1>15. Ranged'
  BY <1>1, <1>9, CalledCounts DEF IInv, Ranged
<1> QED
  BY <1>10, <1>11, <1>12, <1>13, <1>14, <1>15 DEF IInv

LEMMA SaveProfileContentHolds ==
    ASSUME IInv, NEW u \in Uids, NEW c \in Edits, NEW saved \in BOOLEAN,
           SaveProfileContent(u, c, saved)
    PROVE  IInv'
<1> DEFINE t == CancelIfCurrent(CancelFileOperations(store), u)
           d == [disk EXCEPT !.file[u] = c]
<1>1. /\ u \in Listed(store) /\ Called /\ store' = t /\ Save(t, d, saved)
      /\ confirmed' = [confirmed EXCEPT ![u] = c] /\ tainted' = tainted \ {u}
      /\ UNCHANGED <<used, runs, handed, leftover, lost, crashes>>
  BY DEF SaveProfileContent
<1>2. /\ Calm(store, t) /\ t \in StoreRec /\ t.fileQueue = <<>>
      /\ t.currentUid = store.currentUid /\ t.settings = store.settings
      /\ FileRunning(store) => t.write.cancelled
      /\ u = store.currentUid /\ RuntimeRunning(store) => t.runtime.cancelled
  BY StoreIsOrderly, BothCancelled
<1> HIDE DEF t
<1>3. StoreKept(t) /\ Distinct(t) /\ Listed(t) = Listed(store)
  BY <1>2, CalmKeepsStore DEF IInv, StoreKept, Orderly, Calm, Listed
<1>4. disk \in DiskRec /\ Distinct(disk.index) /\ saveFailures \in 0 .. MaxSaveFailures
  BY DEF IInv, Ranged
<1>5. /\ d \in DiskRec /\ d.index = disk.index /\ d.snapshots = disk.snapshots
      /\ \A v \in Uids : d.file[v] = IF v = u THEN c ELSE disk.file[v]
  BY <1>4 DEF DiskRec, MaybeContents, Contents
<1> HIDE DEF d
<1>6. /\ disk' \in DiskRec /\ Distinct(disk'.index) /\ disk'.file = d.file
      /\ disk'.snapshots = disk.snapshots
      /\ Listed(disk'.index) = IF saved THEN Listed(t) ELSE Listed(disk.index)
      /\ saveFailures' \in 0 .. MaxSaveFailures
  BY <1>1, <1>2, <1>3, <1>4, <1>5, SaveIsOfIndex
<1>7. RequestsKept(store', disk', used')
  BY <1>1, <1>2, <1>3, <1>6, RequestsFrame DEF IInv, Calm
<1>8. FilesKept(store', disk', lost', tainted')
  <2>1. \A v : Committed(t, v) <=> Committed(store, v)
    BY <1>2 DEF Calm, Committed
  <2>2. c # Nothing
    BY NothingAssumption
  <2>3. ASSUME NEW v \in Uids \ lost'
        PROVE  /\ v \in Listed(t) <=> v \in Listed(disk'.index)
               /\ v \in Listed(t) => disk'.file[v] # Nothing
               /\ v \notin tainted' /\ disk'.file[v] # Nothing => v \in Listed(t) \/ Committed(t, v)
    BY <1>1, <1>3, <1>5, <1>6, <2>1, <2>2 DEF IInv, FilesKept
  <2>4. t.write.stage = store.write.stage
    BY <1>2 DEF Calm
  <2> QED
    BY <1>1, <1>2, <2>3, <2>4 DEF FilesKept, FileRunning
<1>9. SnapshotsKept(store', disk', handed', leftover', runs')
  BY <1>1, <1>2, <1>6, SnapshotsFrame DEF IInv, Calm
<1>10. RuntimeKept(store', disk', tainted')
  <2>1. RuntimeRunning(store) /\ ~t.runtime.cancelled =>
            /\ ~store.runtime.cancelled
            /\ store.currentUid \in Listed(store) => store.currentUid \in Listed(t)
            /\ store.currentUid \in Listed(store) => d.file[store.currentUid] = disk.file[store.currentUid]
            /\ Committed(store, store.currentUid) => Committed(t, store.currentUid)
            /\ store.currentUid \in tainted => store.currentUid \in tainted'
    <3>1. \A v \in Listed(store) : v \in Uids
      BY StoreIsOrderly DEF StoreRec, Listed
    <3> QED
      BY <1>1, <1>2, <1>3, <1>5, <3>1 DEF Calm, Committed
  <2> QED
    BY <1>1, <1>2, <1>6, <2>1, RuntimeFrame DEF IInv, Calm
<1>11. Ranged'
  <2>1. confirmed' \in [Uids -> MaybeContents]
    BY <1>1 DEF IInv, Ranged, MaybeContents, Contents
  <2> QED
    BY <1>1, <1>6, <2>1, CalledCounts DEF IInv, Ranged
<1> QED
  BY <1>1, <1>3, <1>7, <1>8, <1>9, <1>10, <1>11 DEF IInv

LEMMA CreateProfileHolds ==
    ASSUME IInv, NEW u \in Uids, NEW c \in Edits, NEW saved \in BOOLEAN, CreateProfile(u, c, saved)
    PROVE  IInv'
<1> DEFINE r == [uid |-> u, url |-> Nothing]
           t == AppendProfile(store, r)
           d == [disk EXCEPT !.file[u] = c]
<1>1. /\ u \notin used /\ Called /\ store' = t /\ Save(store', d, saved)
      /\ used' = used \cup {u} /\ lost' = IF saved THEN lost ELSE lost \cup {u}
      /\ UNCHANGED <<runs, handed, leftover, confirmed, tainted, crashes>>
  BY DEF CreateProfile
<1>2. Orderly(store) /\ store \in StoreRec /\ Distinct(store)
  BY StoreIsOrderly DEF Orderly
<1>3. u \notin Listed(store) \cup Listed(disk.index)
  BY <1>1 DEF IInv, RequestsKept
<1>4. r.uid = u /\ r.url \in MaybeUrl
  BY DEF MaybeUrl
<1> HIDE DEF r
<1>5. /\ t \in StoreRec /\ Distinct(t) /\ Listed(t) = Listed(store) \cup {u}
      /\ t.currentUid = (IF store.currentUid = Nothing THEN u ELSE store.currentUid)
      /\ t.shown = store.shown /\ t.write = store.write
      /\ t.fileQueue = store.fileQueue /\ t.owed = store.owed /\ t.runtime = store.runtime
      /\ t.runtimeRequested = store.runtimeRequested /\ t.maintenance = store.maintenance
      /\ t.settings = store.settings
  BY <1>2, <1>3, <1>4, ProfileAppended
<1> HIDE DEF t
<1>6. disk \in DiskRec /\ Distinct(disk.index) /\ saveFailures \in 0 .. MaxSaveFailures
  BY DEF IInv, Ranged
<1>7. /\ d \in DiskRec /\ d.index = disk.index /\ d.snapshots = disk.snapshots
      /\ \A v \in Uids : d.file[v] = IF v = u THEN c ELSE disk.file[v]
  BY <1>6 DEF DiskRec, MaybeContents, Contents
<1> HIDE DEF d
<1>8. /\ disk' \in DiskRec /\ Distinct(disk'.index) /\ disk'.file = d.file
      /\ disk'.snapshots = disk.snapshots
      /\ Listed(disk'.index) = IF saved THEN Listed(t) ELSE Listed(disk.index)
      /\ saveFailures' \in 0 .. MaxSaveFailures
  <2>1. Save(t, d, saved) /\ t \in StoreRec /\ Distinct(t)
    BY <1>1, <1>5
  <2>2. d \in DiskRec /\ Distinct(d.index) /\ saveFailures \in 0 .. MaxSaveFailures
    BY <1>6, <1>7
  <2>3. /\ disk' \in DiskRec /\ Distinct(disk'.index) /\ disk'.file = d.file
        /\ disk'.snapshots = d.snapshots
        /\ Listed(disk'.index) = IF saved THEN Listed(t) ELSE Listed(d.index)
        /\ saveFailures' \in 0 .. MaxSaveFailures
    BY <2>1, <2>2, SaveIsOfIndex
  <2> QED
    BY <1>7, <2>3
<1>9. /\ FileRunning(t) = FileRunning(store) /\ RuntimeRunning(t) = RuntimeRunning(store)
      /\ IsFileBusy(t) = IsFileBusy(store)
  BY <1>5 DEF FileRunning, RuntimeRunning, IsFileBusy
<1>10. StoreKept(store')
  <2>1. Accounted(t)
    BY <1>2, <1>5, <1>9 DEF Orderly, Accounted
  <2> QED
    BY <1>1, <1>5, <1>9, <2>1 DEF IInv, StoreKept, Orderly
<1>11. RequestsKept(store', disk', used')
  BY <1>1, <1>5, <1>8, RequestsFrame DEF IInv
<1>12. \A v \in used : v \in Uids /\ v # u
  BY <1>1 DEF IInv, Ranged
<1>13. FilesKept(store', disk', lost', tainted')
  <2>1. \A v : Committed(t, v) <=> Committed(store, v)
    BY <1>5 DEF Committed
  <2>2. c # Nothing
    BY NothingAssumption
  <2>3. ASSUME NEW v \in Uids \ lost'
        PROVE  /\ v \in Listed(t) <=> v \in Listed(disk'.index)
               /\ v \in Listed(t) => disk'.file[v] # Nothing
               /\ v \notin tainted' /\ disk'.file[v] # Nothing => v \in Listed(t) \/ Committed(t, v)
    BY <1>1, <1>3, <1>5, <1>7, <1>8, <2>1, <2>2 DEF IInv, FilesKept
  <2>4. FileRunning(store) => store.write.request.uid \in used
    BY DEF IInv, RequestsKept, Proper
  <2>5. t.write.stage = "committed" /\ ~t.write.cancelled =>
            disk'.file[t.write.request.uid] = t.write.request.content
    BY <1>5, <1>7, <1>8, <1>12, <2>4 DEF IInv, FilesKept, FileRunning
  <2> QED
    BY <1>1, <2>3, <2>5 DEF FilesKept
<1>14. SnapshotsKept(store', disk', handed', leftover', runs')
  BY <1>1, <1>5, <1>8, SnapshotsFrame DEF IInv
<1>15. RuntimeKept(store', disk', tainted')
  <2>1. \A v \in Listed(store) : v \in used
    BY DEF IInv, RequestsKept
  <2>2. RuntimeRunning(store) /\ ~store.runtime.cancelled => store.currentUid \in Listed(store)
    BY DEF IInv, RuntimeKept
  <2>3. RuntimeRunning(store) /\ ~t.runtime.cancelled =>
            /\ ~store.runtime.cancelled
            /\ t.currentUid = store.currentUid /\ t.settings = store.settings
            /\ store.currentUid \in Listed(store) => store.currentUid \in Listed(t)
            /\ store.currentUid \in Listed(store) => d.file[store.currentUid] = disk.file[store.currentUid]
            /\ Committed(store, store.currentUid) => Committed(t, store.currentUid)
    BY <1>5, <1>7, <1>12, <2>1, <2>2, NothingAssumption DEF Committed
  <2> QED
    BY <1>1, <1>5, <1>8, <2>3, RuntimeFrame DEF IInv
<1>16. Ranged'
  BY <1>1, <1>8, CalledCounts DEF IInv, Ranged
<1> QED
  BY <1>10, <1>11, <1>13, <1>14, <1>15, <1>16 DEF IInv

-----------------------------------------------------------------------------
(* The queue of writes *)

LEMMA OwedOfRest ==
    ASSUME NEW s, Orderly(s), ~FileRunning(s), s.fileQueue # <<>>, NEW u \in Uids
    PROVE  s.owed[u] = Cardinality(Saves(SubSeq(s.fileQueue, 2, Len(s.fileQueue)), u))
                           + (IF IsSave(s.fileQueue[1], u) THEN 1 ELSE 0)
<1>1. s.fileQueue \in Seq(RequestRec)
  BY OwedIsNumber
<1>2. s.owed[u] = Cardinality(Saves(s.fileQueue, u)) + 0
  BY DEF Orderly, Accounted
<1>3. Cardinality(Saves(s.fileQueue, u)) \in Nat
  BY <1>1, SavesAreFinite
<1> QED
  BY <1>1, <1>2, <1>3, SavesWithoutFirst

\* The first request starts: all those that wait can.
LEMMA FirstStarts ==
    ASSUME NEW s, Orderly(s), s.fileQueue # <<>>
    PROVE  LET q == s.fileQueue
           IN StartNextWrite(s) =
                  [s EXCEPT !.fileQueue = SubSeq(q, 2, Len(q)),
                            !.write = [request |-> q[1], stage |-> "reading", cancelled |-> FALSE],
                            !.shown = TRUE]
<1> DEFINE q == s.fileQueue
           Startable(i) == Creating(q[i]) \/ q[i].uid \in Listed(s)
           Skipped(i) == \A j \in 1 .. i : ~Startable(j)
           Starts == {i \in DOMAIN q : Startable(i) /\ Skipped(i - 1)}
<1>1. /\ q \in Seq(RequestRec) /\ s \in StoreRec /\ Answer(s.owed, <<>>) = s.owed
      /\ ~s.maintenance
  BY OwedIsNumber DEF Orderly
<1>2. Len(q) \in Nat /\ Len(q) >= 1 /\ DOMAIN q = 1 .. Len(q)
  BY <1>1, RestElements
<1>3. \A i \in DOMAIN q : Startable(i)
  BY DEF Orderly
<1>4. Skipped(1 - 1)
  OBVIOUS
<1>5. \A i \in DOMAIN q : i # 1 => ~Skipped(i - 1)
  BY <1>2, <1>3
<1>6. Starts = {1}
  BY <1>2, <1>3, <1>4, <1>5
<1>7. SubSeq(q, 1, 1 - 1) = <<>> /\ 1 + 1 = 2
  BY <1>1, <1>2
<1>8. (CHOOSE k \in Starts : TRUE) = 1
  BY <1>6
<1> DEFINE Started(i) == [s EXCEPT !.fileQueue = SubSeq(q, i + 1, Len(q)),
                                   !.owed = Answer(@, SubSeq(q, 1, i - 1)),
                                   !.write = [request |-> q[i], stage |-> "reading", cancelled |-> FALSE],
                                   !.shown = TRUE]
<1>9. StartNextWrite(s) = Started(CHOOSE k \in Starts : TRUE)
  BY <1>1, <1>6 DEF StartNextWrite
<1>10. StartNextWrite(s) = Started(1)
  BY <1>8, <1>9
<1>11. Started(1) = [s EXCEPT !.fileQueue = SubSeq(q, 2, Len(q)),
                              !.owed = s.owed,
                              !.write = [request |-> q[1], stage |-> "reading", cancelled |-> FALSE],
                              !.shown = TRUE]
  BY <1>1, <1>7 DEF StoreRec
<1>12. Started(1) = [s EXCEPT !.fileQueue = SubSeq(q, 2, Len(q)),
                              !.write = [request |-> q[1], stage |-> "reading", cancelled |-> FALSE],
                              !.shown = TRUE]
  BY <1>1, <1>11 DEF StoreRec
<1> QED
  BY <1>10, <1>12

LEMMA NextWriteStarts ==
    ASSUME NEW s, Orderly(s), s.fileQueue # <<>>, ~FileRunning(s)
    PROVE  LET t == StartNextWrite(s)
               q == s.fileQueue
           IN /\ StoreKept(t) /\ t \in StoreRec /\ Listed(t) = Listed(s)
              /\ t.fileQueue = SubSeq(q, 2, Len(q)) /\ t.write.request = q[1]
              /\ t.write.stage = "reading" /\ t.write.cancelled = FALSE
              /\ t.runtime = s.runtime /\ t.currentUid = s.currentUid /\ t.settings = s.settings
<1> DEFINE q == s.fileQueue
           w == [request |-> q[1], stage |-> "reading", cancelled |-> FALSE]
           rest == SubSeq(q, 2, Len(q))
           t == [s EXCEPT !.fileQueue = rest, !.write = w, !.shown = TRUE]
<1>1. /\ q \in Seq(RequestRec) /\ s \in StoreRec /\ s.owed \in [Uids -> Nat]
      /\ ~s.maintenance
  BY OwedIsNumber DEF Orderly
<1>2. /\ rest \in Seq(RequestRec) /\ Len(q) >= 1 /\ Len(q) \in Nat
      /\ DOMAIN rest = 1 .. Len(q) - 1 /\ DOMAIN q = 1 .. Len(q) /\ q[1] \in RequestRec
      /\ \A j \in 1 .. Len(q) - 1 : rest[j] = q[j + 1]
  BY <1>1, RestElements
<1>3. t = StartNextWrite(s)
  BY FirstStarts
<1>4. w \in WriteRec
  BY <1>2 DEF WriteRec
<1>5. ASSUME NEW u \in Uids
      PROVE  s.owed[u] = Cardinality(Saves(rest, u)) + (IF IsSave(q[1], u) THEN 1 ELSE 0)
  BY <1>5, OwedOfRest
<1>6. \A i \in DOMAIN q : Creating(q[i]) \/ q[i].uid \in Listed(s)
  BY DEF Orderly
<1> HIDE DEF rest, q
<1>7. /\ t \in StoreRec /\ t.profiles = s.profiles /\ t.fileQueue = rest /\ t.write = w
      /\ t.shown = TRUE /\ t.owed = s.owed /\ t.runtime = s.runtime
      /\ t.runtimeRequested = s.runtimeRequested /\ t.maintenance = s.maintenance
      /\ t.currentUid = s.currentUid /\ t.settings = s.settings
  BY <1>1, <1>2, <1>4 DEF StoreRec
<1> HIDE DEF t
<1>8. w.request = q[1] /\ w.stage = "reading" /\ w.cancelled = FALSE
  OBVIOUS
<1> HIDE DEF w
<1>9. Listed(t) = Listed(s) /\ Distinct(t)
  BY <1>7 DEF Listed, Distinct, Orderly
<1>10. FileRunning(t) /\ IsFileBusy(t) /\ RuntimeRunning(t) = RuntimeRunning(s)
  BY <1>7, <1>8 DEF FileRunning, IsFileBusy, RuntimeRunning
<1>11. Accounted(t)
  BY <1>5, <1>7, <1>8, <1>10 DEF Accounted, IsSave
<1>12. \A i \in DOMAIN rest : Creating(rest[i]) \/ rest[i].uid \in Listed(t)
  <2> SUFFICES ASSUME NEW i \in 1 .. Len(q) - 1
               PROVE  Creating(rest[i]) \/ rest[i].uid \in Listed(t)
    BY <1>2
  <2>1. i + 1 \in DOMAIN q /\ rest[i] = q[i + 1]
    BY <1>2
  <2> QED
    BY <1>6, <1>9, <2>1
<1>13. StoreKept(t)
  BY <1>1, <1>7, <1>9, <1>10, <1>11, <1>12 DEF StoreKept, Orderly
<1> QED
  BY <1>3, <1>7, <1>8, <1>9, <1>13 DEF q, rest

LEMMA StartKeepsRest ==
    ASSUME NEW s, Orderly(s), s.fileQueue # <<>>, ~FileRunning(s), NEW d
    PROVE  LET t == StartNextWrite(s)
           IN /\ \A g : RequestsKept(s, d, g) => RequestsKept(t, d, g)
              /\ \A gone, dirty : FilesKept(s, d, gone, dirty) => FilesKept(t, d, gone, dirty)
              /\ \A a, l, n : SnapshotsKept(s, d, a, l, n) => SnapshotsKept(t, d, a, l, n)
              /\ \A dirty : RuntimeKept(s, d, dirty) => RuntimeKept(t, d, dirty)
<1> DEFINE t == StartNextWrite(s)
           q == s.fileQueue
           rest == SubSeq(q, 2, Len(q))
<1>1. /\ Listed(t) = Listed(s) /\ t.fileQueue = rest /\ t.write.request = q[1]
      /\ t.write.stage = "reading" /\ t.write.cancelled = FALSE
      /\ t.runtime = s.runtime /\ t.currentUid = s.currentUid /\ t.settings = s.settings
  BY NextWriteStarts
<1>2. /\ DOMAIN rest = 1 .. Len(q) - 1 /\ DOMAIN q = 1 .. Len(q) /\ Len(q) >= 1 /\ Len(q) \in Nat
      /\ \A j \in 1 .. Len(q) - 1 : rest[j] = q[j + 1]
  BY OwedIsNumber, RestElements
<1> HIDE DEF t, q, rest
<1>3. \A j \in DOMAIN rest : rest[j] = q[j + 1] /\ j + 1 \in DOMAIN q /\ j + 1 # 1
  BY <1>2
<1>4. 1 \in DOMAIN q /\ \A i, j \in DOMAIN rest : i # j => i + 1 # j + 1
  BY <1>2
<1>5. ASSUME NEW g, RequestsKept(s, d, g) PROVE RequestsKept(t, d, g)
  <2>1. \A i \in DOMAIN q : Proper(q[i], t, d, g)
    BY <1>1, <1>5 DEF RequestsKept, Proper, q
  <2>2. \A i, j \in DOMAIN q : i # j => Apart(q[i], q[j])
    BY <1>5 DEF RequestsKept, q
  <2>3. Listed(t) \cup Listed(d.index) \cup {FirstUid} \subseteq g
    BY <1>1, <1>5 DEF RequestsKept
  <2>4. \A i \in DOMAIN rest : Proper(rest[i], t, d, g) /\ Apart(q[1], rest[i])
    BY <1>3, <1>4, <2>1, <2>2
  <2>5. \A i, j \in DOMAIN rest : i # j => Apart(rest[i], rest[j])
    BY <1>3, <1>4, <2>2
  <2> QED
    BY <1>1, <1>4, <2>1, <2>3, <2>4, <2>5 DEF RequestsKept
<1>6. \A u : ~Committed(s, u) /\ ~Committed(t, u)
  BY <1>1 DEF Committed, FileRunning
<1>7. ASSUME NEW gone, NEW dirty, FilesKept(s, d, gone, dirty) PROVE FilesKept(t, d, gone, dirty)
  BY <1>1, <1>6, <1>7 DEF FilesKept
<1>8. ASSUME NEW a, NEW l, NEW n, SnapshotsKept(s, d, a, l, n) PROVE SnapshotsKept(t, d, a, l, n)
  BY <1>1, <1>8, SnapshotsFrame
<1>9. ASSUME NEW dirty, RuntimeKept(s, d, dirty) PROVE RuntimeKept(t, d, dirty)
  BY <1>1, <1>6, <1>9, RuntimeFrame
<1> QED
  BY <1>5, <1>7, <1>8, <1>9 DEF t

\* One more request waits; a save is owed an answer.
Owing(owed, r) == [u \in Uids |-> owed[u] + (IF IsSave(r, u) THEN 1 ELSE 0)]

Waiting(s, r) ==
    [s EXCEPT !.fileQueue = Append(s.fileQueue, r), !.owed = Owing(s.owed, r)]

LEMMA WaitingIsOrderly ==
    ASSUME NEW s, Orderly(s), ~s.maintenance,
           NEW r \in RequestRec, r.uid \in Uids, Creating(r) \/ r.uid \in Listed(s)
    PROVE  LET t == Waiting(s, r)
           IN /\ Orderly(t) /\ t.fileQueue = Append(s.fileQueue, r) /\ t.fileQueue # <<>>
              /\ t.profiles = s.profiles /\ t.shown = s.shown /\ t.write = s.write
              /\ t.runtime = s.runtime /\ t.runtimeRequested = s.runtimeRequested
              /\ t.currentUid = s.currentUid /\ t.settings = s.settings
<1> DEFINE p == Append(s.fileQueue, r)
           o == Owing(s.owed, r)
           t == [s EXCEPT !.fileQueue = p, !.owed = o]
           n == Len(s.fileQueue)
<1>1. s \in StoreRec /\ s.fileQueue \in Seq(RequestRec) /\ s.owed \in [Uids -> Nat]
  BY OwedIsNumber DEF Orderly
<1>2. /\ p \in Seq(RequestRec) /\ DOMAIN p = 1 .. n + 1 /\ DOMAIN s.fileQueue = 1 .. n
      /\ p[n + 1] = r /\ \A j \in 1 .. n : p[j] = s.fileQueue[j]
  BY <1>1, AppendElements
<1>3. /\ o \in [Uids -> Nat]
      /\ \A u \in Uids : o[u] = s.owed[u] + (IF IsSave(r, u) THEN 1 ELSE 0)
  BY <1>1 DEF Owing
<1>4. t = Waiting(s, r)
  BY DEF Waiting
<1>5. \A u : /\ Cardinality(Saves(p, u)) = Cardinality(Saves(s.fileQueue, u)) + (IF IsSave(r, u) THEN 1 ELSE 0)
             /\ Cardinality(Saves(s.fileQueue, u)) \in Nat
  BY <1>1, SavesAppended, SavesAreFinite
<1>6. p # <<>>
  BY <1>1
<1> HIDE DEF p, o
<1>7. /\ t \in StoreRec /\ t.fileQueue = p /\ t.owed = o /\ t.maintenance = s.maintenance
      /\ t.profiles = s.profiles /\ t.shown = s.shown /\ t.write = s.write
      /\ t.runtime = s.runtime /\ t.runtimeRequested = s.runtimeRequested
      /\ t.currentUid = s.currentUid /\ t.settings = s.settings
  BY <1>1, <1>2, <1>3 DEF StoreRec
<1> HIDE DEF t
<1>8. Listed(t) = Listed(s) /\ FileRunning(t) = FileRunning(s) /\ RuntimeRunning(t) = RuntimeRunning(s)
  BY <1>7 DEF Listed, FileRunning, RuntimeRunning
<1>9. Accounted(t)
  <2> SUFFICES ASSUME NEW u \in Uids
               PROVE  LET running == /\ FileRunning(t)
                                     /\ t.write.request.kind = "Save" /\ t.write.request.uid = u
                      IN t.owed[u] = Cardinality(Saves(t.fileQueue, u)) + (IF running THEN 1 ELSE 0)
    BY DEF Accounted
  <2> DEFINE running == /\ FileRunning(s)
                        /\ s.write.request.kind = "Save" /\ s.write.request.uid = u
  <2>1. s.owed[u] = Cardinality(Saves(s.fileQueue, u)) + (IF running THEN 1 ELSE 0)
    BY DEF Orderly, Accounted
  <2> QED
    BY <1>3, <1>5, <1>7, <1>8, <2>1
<1>10. \A i \in DOMAIN p : Creating(p[i]) \/ p[i].uid \in Listed(s)
  <2> SUFFICES ASSUME NEW i \in 1 .. n + 1
               PROVE  Creating(p[i]) \/ p[i].uid \in Listed(s)
    BY <1>2
  <2>1. i \in 1 .. n \/ i = n + 1
    BY <1>1
  <2> QED
    BY <1>2, <2>1 DEF Orderly
<1>11. Orderly(t)
  BY <1>7, <1>8, <1>9, <1>10 DEF Orderly, Distinct
<1> QED
  BY <1>4, <1>6, <1>7, <1>11 DEF p

LEMMA WaitingKeepsRequests ==
    ASSUME NEW s, Orderly(s), ~s.maintenance,
           NEW r \in RequestRec, r.uid \in Uids, r.content \in Contents,
           NEW d, NEW g, RequestsKept(s, d, g),
           Creating(r) => r.uid \notin g, ~Creating(r) => r.uid \in Listed(s)
    PROVE  RequestsKept(Waiting(s, r), d, g \cup {r.uid})
<1> DEFINE t == Waiting(s, r)
           p == t.fileQueue
           h == g \cup {r.uid}
           n == Len(s.fileQueue)
<1>1. /\ t.fileQueue = Append(s.fileQueue, r) /\ t.profiles = s.profiles /\ t.write = s.write
  BY WaitingIsOrderly
<1>2. /\ DOMAIN p = 1 .. n + 1 /\ DOMAIN s.fileQueue = 1 .. n
      /\ p[n + 1] = r /\ n \in Nat /\ \A j \in 1 .. n : p[j] = s.fileQueue[j]
  BY <1>1, OwedIsNumber, AppendElements
<1> HIDE DEF t
<1>3. Listed(t) = Listed(s) /\ FileRunning(t) = FileRunning(s)
  BY <1>1 DEF Listed, FileRunning
<1>4. ASSUME NEW q, Proper(q, s, d, g)
      PROVE  Proper(q, t, d, h) /\ Apart(q, r) /\ Apart(r, q)
  <2>1. q.uid \in g /\ (Creating(q) => q.uid \notin Listed(s))
    BY <1>4 DEF Proper
  <2> QED
    BY <1>3, <1>4, <2>1 DEF Proper, Apart
<1>5. Proper(r, t, d, h)
  BY <1>3 DEF Proper, RequestsKept
<1>6. \A j \in 1 .. n : Proper(p[j], s, d, g)
  BY <1>2 DEF RequestsKept
<1>7. \A j \in DOMAIN p : j \in 1 .. n \/ j = n + 1
  BY <1>2
<1>8. \A j \in DOMAIN p : Proper(p[j], t, d, h)
  BY <1>2, <1>4, <1>5, <1>6, <1>7
<1>9. ASSUME NEW i \in DOMAIN p, NEW j \in DOMAIN p, i # j
      PROVE  Apart(p[i], p[j])
  <2>1. CASE i \in 1 .. n /\ j \in 1 .. n
    BY <1>2, <1>9, <2>1 DEF RequestsKept
  <2>2. CASE i = n + 1 /\ j \in 1 .. n
    BY <1>2, <1>4, <1>6, <2>2
  <2>3. CASE i \in 1 .. n /\ j = n + 1
    BY <1>2, <1>4, <1>6, <2>3
  <2> QED
    BY <1>7, <1>9, <2>1, <2>2, <2>3
<1>10. FileRunning(t) =>
           /\ Proper(t.write.request, t, d, h)
           /\ \A i \in DOMAIN p : Apart(t.write.request, p[i])
  <2> SUFFICES ASSUME FileRunning(t)
               PROVE  /\ Proper(t.write.request, t, d, h)
                      /\ \A i \in DOMAIN p : Apart(t.write.request, p[i])
    OBVIOUS
  <2>1. Proper(s.write.request, s, d, g) /\ \A i \in 1 .. n : Apart(s.write.request, p[i])
    BY <1>2, <1>3 DEF RequestsKept
  <2> QED
    BY <1>1, <1>2, <1>4, <1>7, <2>1
<1>11. Listed(t) \cup Listed(d.index) \cup {FirstUid} \subseteq h
  BY <1>3 DEF RequestsKept
<1>12. RequestsKept(t, d, h)
  BY <1>8, <1>9, <1>10, <1>11 DEF RequestsKept
<1> QED
  BY <1>12 DEF t

LEMMA WaitingHolds ==
    ASSUME IInv, NEW m, Calm(store, m), ~m.maintenance,
           NEW r \in RequestRec, r.uid \in Uids, r.content \in Contents,
           Creating(r) => r.uid \notin used, ~Creating(r) => r.uid \in Listed(m),
           store' = IF FileRunning(m) THEN Waiting(m, r) ELSE StartNextWrite(Waiting(m, r)),
           used' = used \cup {r.uid},
           UNCHANGED <<disk, saveFailures, runs>>, UNCHANGED Ghosts, calls' \in 0 .. MaxCalls
    PROVE  IInv'
<1> DEFINE w == Waiting(m, r)
<1>1. Orderly(m) /\ StoreKept(m)
  BY StoreIsOrderly, CalmKeepsOrder, CalmKeepsStore DEF IInv
<1>2. /\ Orderly(w) /\ w.fileQueue # <<>>
      /\ w.profiles = m.profiles /\ w.shown = m.shown /\ w.write = m.write
      /\ w.runtime = m.runtime /\ w.currentUid = m.currentUid /\ w.settings = m.settings
  BY <1>1, WaitingIsOrderly
<1>3. /\ RequestsKept(m, disk, used) /\ FilesKept(m, disk, lost, tainted)
      /\ SnapshotsKept(m, disk, handed, leftover, runs) /\ RuntimeKept(m, disk, tainted)
  BY CalmKeepsRest DEF IInv
<1>4. RequestsKept(w, disk, used')
  BY <1>1, <1>3, WaitingKeepsRequests
<1> HIDE DEF w
<1>5. /\ FileRunning(w) = FileRunning(m) /\ RuntimeRunning(w) = RuntimeRunning(m)
      /\ Listed(w) = Listed(m) /\ \A u : Committed(w, u) <=> Committed(m, u)
  BY <1>2 DEF FileRunning, RuntimeRunning, Listed, Committed
<1>6. FilesKept(w, disk, lost, tainted)
  BY <1>2, <1>3, <1>5, FilesFrame
<1>7. SnapshotsKept(w, disk, handed, leftover, runs)
  BY <1>2, <1>3, SnapshotsFrame
<1>8. RuntimeKept(w, disk, tainted)
  BY <1>2, <1>3, <1>5, RuntimeFrame
<1>9. /\ StoreKept(store') /\ RequestsKept(store', disk, used') /\ FilesKept(store', disk, lost, tainted)
      /\ SnapshotsKept(store', disk, handed, leftover, runs) /\ RuntimeKept(store', disk, tainted)
  <2>1. CASE FileRunning(m)
    <3>1. StoreKept(w)
      BY <1>1, <1>2, <1>5, <2>1 DEF StoreKept, IsFileBusy
    <3>2. store' = w
      BY <2>1 DEF w
    <3> QED
      BY <1>4, <1>6, <1>7, <1>8, <3>1, <3>2
  <2>2. CASE ~FileRunning(m)
    <3>1. store' = StartNextWrite(w) /\ ~FileRunning(w)
      BY <1>5, <2>2 DEF w
    <3>2. StoreKept(store')
      BY <1>2, <3>1, NextWriteStarts
    <3> QED
      BY <1>2, <1>4, <1>6, <1>7, <1>8, <3>1, <3>2, StartKeepsRest
  <2> QED
    BY <2>1, <2>2
<1>10. used' \subseteq Uids
  BY DEF IInv, Ranged
<1> QED
  BY <1>9, <1>10 DEF IInv, Ranged, Ghosts

\* Handing a request in, with the answer owed to a save counted already.
LEMMA EnqueueIsWaiting ==
    ASSUME NEW s, Orderly(s), AcceptsChanges(s), NEW r \in RequestRec
    PROVE  LET m == CancelIfCurrent(s, r.uid)
               o == [s EXCEPT !.owed = Owing(s.owed, r)]
           IN /\ EnqueueWrite(o, r) = IF FileRunning(m) THEN Waiting(m, r)
                                                        ELSE StartNextWrite(Waiting(m, r))
              /\ Calm(s, m) /\ ~m.maintenance /\ Listed(m) = Listed(s)
<1> DEFINE m == CancelIfCurrent(s, r.uid)
           p == Owing(s.owed, r)
           o == [s EXCEPT !.owed = p]
<1>1. s \in StoreRec
  BY DEF Orderly
<1>2. Calm(s, m) /\ Listed(m) = Listed(s)
  BY CancelIfCurrentIsCalm DEF Calm, Listed
<1>3. ~s.maintenance
  BY DEF AcceptsChanges
<1>4. m.maintenance = s.maintenance /\ m.owed = s.owed /\ m.write = s.write
  BY <1>1, RuntimeCancelled DEF CancelIfCurrent
<1> HIDE DEF p
<1>5. o.currentUid = s.currentUid /\ o.maintenance = s.maintenance /\ o.shuttingDown = s.shuttingDown
      /\ o.write = s.write /\ o.runtime = s.runtime
  BY <1>1 DEF StoreRec
<1>6. CancelIfCurrent(o, r.uid) = [m EXCEPT !.owed = p]
  BY <1>1 DEF CancelIfCurrent, CancelRuntimeGeneration, StoreRec, RuntimeRunning
<1>7. [CancelIfCurrent(o, r.uid) EXCEPT !.fileQueue = Append(@, r)] = Waiting(m, r)
  <2>1. Waiting(m, r) = [m EXCEPT !.fileQueue = Append(m.fileQueue, r), !.owed = p]
    BY <1>4 DEF Waiting, p
  <2>2. [m EXCEPT !.owed = p].fileQueue = m.fileQueue
    BY <1>2 DEF Calm, StoreRec
  <2>3. [[m EXCEPT !.owed = p] EXCEPT !.fileQueue = Append(m.fileQueue, r)]
            = [m EXCEPT !.fileQueue = Append(m.fileQueue, r), !.owed = p]
    BY <1>2 DEF Calm, StoreRec
  <2> QED
    BY <1>6, <2>1, <2>2, <2>3
<1>8. AcceptsChanges(o) /\ FileRunning(o) = FileRunning(m)
  BY <1>4, <1>5 DEF AcceptsChanges, FileRunning
<1>9. EnqueueWrite(o, r) = IF FileRunning(m) THEN Waiting(m, r) ELSE StartNextWrite(Waiting(m, r))
  BY <1>7, <1>8 DEF EnqueueWrite
<1> QED
  BY <1>2, <1>3, <1>4, <1>9 DEF p

LEMMA OwingChanges ==
    ASSUME NEW s \in StoreRec, NEW r \in RequestRec
    PROVE  /\ r.kind # "Save" => [s EXCEPT !.owed = Owing(s.owed, r)] = s
           /\ r.kind = "Save" /\ r.uid \in Uids =>
                  [s EXCEPT !.owed = Owing(s.owed, r)] = [s EXCEPT !.owed[r.uid] = s.owed[r.uid] + 1]
<1>1. s.owed \in [Uids -> Nat] /\ s.owed = [u \in Uids |-> s.owed[u]]
  BY DEF StoreRec
<1>2. CASE r.kind # "Save"
  <2>1. \A u \in Uids : s.owed[u] + (IF IsSave(r, u) THEN 1 ELSE 0) = s.owed[u]
    BY <1>1, <1>2 DEF IsSave
  <2>2. Owing(s.owed, r) = s.owed
    BY <1>1, <2>1 DEF Owing
  <2> QED
    BY <1>2, <2>2 DEF StoreRec
<1>3. CASE r.kind = "Save"
  <2>1. Owing(s.owed, r) = [s.owed EXCEPT ![r.uid] = s.owed[r.uid] + 1]
    BY <1>1, <1>3 DEF Owing, IsSave
  <2> QED
    BY <1>3, <2>1
<1> QED
  BY <1>2, <1>3

LEMMA CreateProfileAsyncHolds ==
    ASSUME IInv, NEW u \in Uids, NEW kind \in {"Import", "Create"}, NEW c \in Edits,
           CreateProfileAsync(u, kind, c)
    PROVE  IInv'
<1> DEFINE r == [uid |-> u, kind |-> kind, content |-> c, url |-> Nothing]
           m == CancelIfCurrent(store, u)
<1>1. /\ AcceptsChanges(store) /\ u \notin used /\ Called /\ store' = EnqueueWrite(store, r)
      /\ used' = used \cup {u} /\ UNCHANGED <<disk, saveFailures, runs>> /\ UNCHANGED Ghosts
  BY DEF CreateProfileAsync, NoSave
<1>2. /\ r \in RequestRec /\ r.uid = u /\ r.content \in Contents /\ Creating(r) /\ r.kind # "Save"
  BY DEF RequestRec, Kind, MaybeContents, Contents, MaybeUrl, Creating
<1> HIDE DEF r
<1>3. EnqueueWrite(store, r) = IF FileRunning(m) THEN Waiting(m, r) ELSE StartNextWrite(Waiting(m, r))
  BY <1>1, <1>2, StoreIsOrderly, OwingChanges, EnqueueIsWaiting
<1>4. Calm(store, m) /\ ~m.maintenance
  BY <1>1, <1>2, StoreIsOrderly, EnqueueIsWaiting
<1> HIDE DEF m
<1> QED
  BY <1>1, <1>2, <1>3, <1>4, CalledCounts, WaitingHolds

LEMMA SaveProfileContentAsyncHolds ==
    ASSUME IInv, NEW u \in Uids, NEW c \in Edits, SaveProfileContentAsync(u, c)
    PROVE  IInv'
<1> DEFINE r == [uid |-> u, kind |-> "Save", content |-> c, url |-> store.url[u]]
           m == CancelIfCurrent(store, u)
           o == [store EXCEPT !.owed = Owing(store.owed, r)]
<1>1. /\ AcceptsChanges(store) /\ u \in Listed(store) /\ Called
      /\ store' = EnqueueWrite([store EXCEPT !.owed[u] = store.owed[u] + 1], r)
      /\ UNCHANGED <<used, disk, saveFailures, runs>> /\ UNCHANGED Ghosts
  BY DEF SaveProfileContentAsync, CallOnly, NoSave
<1>2. /\ r \in RequestRec /\ r.uid = u /\ r.content \in Contents /\ ~Creating(r) /\ r.kind = "Save"
  BY StoreIsOrderly DEF StoreRec, RequestRec, Kind, MaybeContents, Contents, Creating
<1> HIDE DEF r
<1>3. store' = EnqueueWrite(o, r)
  BY <1>1, <1>2, StoreIsOrderly, OwingChanges
<1>4. /\ EnqueueWrite(o, r) = IF FileRunning(m) THEN Waiting(m, r) ELSE StartNextWrite(Waiting(m, r))
      /\ Calm(store, m) /\ ~m.maintenance /\ Listed(m) = Listed(store)
  BY <1>1, <1>2, StoreIsOrderly, EnqueueIsWaiting
<1>5. used' = used \cup {u}
  BY <1>1 DEF IInv, RequestsKept
<1> HIDE DEF m, o
<1> QED
  BY <1>1, <1>2, <1>3, <1>4, <1>5, CalledCounts, WaitingHolds

\* The answer of a download is handed in, if the store still accepts it.
LEMMA AnswerHolds ==
    ASSUME IInv, NEW m, Calm(store, m),
           NEW r \in RequestRec, r.uid \in Uids, r.content \in Contents, r.kind # "Save",
           Creating(r) => r.uid \notin used, ~Creating(r) => r.uid \in Listed(store),
           store' = EnqueueWrite(m, r), used' = used \cup {r.uid},
           UNCHANGED <<disk, saveFailures, runs, calls>>, UNCHANGED Ghosts
    PROVE  IInv'
<1>1. Orderly(m) /\ m \in StoreRec /\ StoreKept(m) /\ Listed(m) = Listed(store)
  BY StoreIsOrderly, CalmKeepsOrder, CalmKeepsStore DEF IInv, Calm, Listed
<1>2. calls' \in 0 .. MaxCalls
  BY DEF IInv, Ranged
<1>3. CASE AcceptsChanges(m)
  <2> DEFINE n == CancelIfCurrent(m, r.uid)
  <2>1. /\ EnqueueWrite(m, r) = IF FileRunning(n) THEN Waiting(n, r) ELSE StartNextWrite(Waiting(n, r))
        /\ Calm(m, n) /\ ~n.maintenance /\ Listed(n) = Listed(m)
    BY <1>1, <1>3, OwingChanges, EnqueueIsWaiting
  <2> HIDE DEF n
  <2>2. Calm(store, n)
    BY <2>1, StoreIsOrderly, CalmTwice
  <2> QED
    BY <1>1, <1>2, <2>1, <2>2, WaitingHolds
<1>4. CASE ~AcceptsChanges(m)
  <2>1. store' = m
    BY <1>4 DEF EnqueueWrite
  <2>2. /\ RequestsKept(m, disk, used) /\ FilesKept(m, disk, lost, tainted)
        /\ SnapshotsKept(m, disk, handed, leftover, runs) /\ RuntimeKept(m, disk, tainted)
    BY CalmKeepsRest DEF IInv
  <2>3. RequestsKept(m, disk, used')
    BY <2>2, RequestsFrame
  <2>4. used' \subseteq Uids
    BY DEF IInv, Ranged
  <2> QED
    BY <1>1, <1>2, <2>1, <2>2, <2>3, <2>4 DEF IInv, Ranged, Ghosts
<1> QED
  BY <1>3, <1>4

LEMMA ImportAnsweredHolds ==
    ASSUME IInv, NEW x \in Urls, NEW u \in Uids, ImportAnswered(x, u)
    PROVE  IInv'
<1> DEFINE r == [uid |-> u, kind |-> "Import", content |-> x, url |-> x]
           m == [store EXCEPT !.imports = @ \ {x}]
<1>1. /\ u \notin used /\ store' = EnqueueWrite(m, r) /\ used' = used \cup {u}
      /\ UNCHANGED <<disk, saveFailures, runs, calls>> /\ UNCHANGED Ghosts
  BY DEF ImportAnswered, NoSave
<1>2. /\ r \in RequestRec /\ r.uid = u /\ r.content \in Contents /\ Creating(r) /\ r.kind # "Save"
  BY DEF RequestRec, Kind, MaybeContents, Contents, MaybeUrl, Creating
<1>3. Calm(store, m)
  BY StoreIsOrderly, ForgetIsCalm
<1> HIDE DEF r, m
<1> QED
  BY <1>1, <1>2, <1>3, AnswerHolds

LEMMA UpdateAnsweredHolds ==
    ASSUME IInv, NEW u \in Uids, UpdateAnswered(u)
    PROVE  IInv'
<1> DEFINE r == [uid |-> u, kind |-> "Refresh", url |-> store.url[u], content |-> store.updating[u]]
           m == [store EXCEPT !.updating[u] = Nothing]
<1>1. /\ store.updating[u] # Nothing
      /\ Event(IF u \in Listed(store) THEN EnqueueWrite(m, r) ELSE m)
  BY DEF UpdateAnswered
<1>2. Calm(store, m)
  BY StoreIsOrderly, ForgetIsCalm
<1>3. CASE u \in Listed(store)
  <2>1. /\ store' = EnqueueWrite(m, r)
        /\ UNCHANGED <<used, disk, saveFailures, runs, calls>> /\ UNCHANGED Ghosts
    BY <1>1, <1>3 DEF Event, NoSave
  <2>2. /\ r \in RequestRec /\ r.uid = u /\ r.content \in Contents /\ ~Creating(r) /\ r.kind # "Save"
    BY <1>1, StoreIsOrderly
    DEF StoreRec, RequestRec, Kind, MaybeContents, Contents, MaybeUrl, Creating
  <2>3. used' = used \cup {u}
    BY <1>3, <2>1 DEF IInv, RequestsKept
  <2> HIDE DEF r, m
  <2> QED
    BY <1>2, <1>3, <2>1, <2>2, <2>3, AnswerHolds
<1>4. CASE u \notin Listed(store)
  BY <1>1, <1>2, <1>4, EventHolds
<1> QED
  BY <1>3, <1>4

-----------------------------------------------------------------------------
(* The writer *)

\* A step of the worker, which changes its stage alone.
LEMMA StageChanges ==
    ASSUME NEW s, StoreKept(s), FileRunning(s),
           NEW stage \in {"reading", "armed", "committed", "abandoned"}
    PROVE  LET t == [s EXCEPT !.write.stage = stage]
           IN /\ StoreKept(t) /\ Listed(t) = Listed(s) /\ t.fileQueue = s.fileQueue
              /\ t.write.request = s.write.request /\ t.write.cancelled = s.write.cancelled
              /\ t.write.stage = stage /\ t.runtime = s.runtime
              /\ t.currentUid = s.currentUid /\ t.settings = s.settings
<1> DEFINE w == [s.write EXCEPT !.stage = stage]
           t == [s EXCEPT !.write = w]
<1>1. s \in StoreRec /\ s.write \in WriteRec
  BY StoreParts DEF StoreKept, Orderly
<1>2. /\ w \in WriteRec /\ w.request = s.write.request /\ w.cancelled = s.write.cancelled
      /\ w.stage = stage
  BY <1>1 DEF WriteRec
<1>3. t = [s EXCEPT !.write.stage = stage]
  OBVIOUS
<1> HIDE DEF w
<1>4. /\ t \in StoreRec /\ t.profiles = s.profiles /\ t.fileQueue = s.fileQueue /\ t.write = w
      /\ t.shown = s.shown /\ t.owed = s.owed /\ t.runtime = s.runtime
      /\ t.runtimeRequested = s.runtimeRequested /\ t.maintenance = s.maintenance
      /\ t.currentUid = s.currentUid /\ t.settings = s.settings
  BY <1>1, <1>2 DEF StoreRec
<1> HIDE DEF t
<1>5. /\ Listed(t) = Listed(s) /\ FileRunning(t) /\ RuntimeRunning(t) = RuntimeRunning(s)
      /\ IsFileBusy(t) = IsFileBusy(s)
  BY <1>2, <1>4 DEF Listed, FileRunning, RuntimeRunning, IsFileBusy
<1>6. Accounted(t)
  BY <1>2, <1>4, <1>5 DEF StoreKept, Orderly, Accounted
<1>7. StoreKept(t)
  BY <1>4, <1>5, <1>6 DEF StoreKept, Orderly, Distinct
<1> QED
  BY <1>2, <1>3, <1>4, <1>5, <1>7

\* The worker prepares or gives up; no file has changed yet.
LEMMA StageHolds ==
    ASSUME IInv, NEW stage \in {"armed", "abandoned"}, store.write.stage \in {"reading", "armed"},
           Event([store EXCEPT !.write.stage = stage])
    PROVE  IInv'
<1> DEFINE t == [store EXCEPT !.write.stage = stage]
<1>1. FileRunning(store) /\ stage \in {"reading", "armed", "committed", "abandoned"}
  BY DEF FileRunning
<1>2. /\ StoreKept(t) /\ Listed(t) = Listed(store) /\ t.fileQueue = store.fileQueue
      /\ t.write.request = store.write.request /\ t.write.cancelled = store.write.cancelled
      /\ t.write.stage = stage /\ t.runtime = store.runtime
      /\ t.currentUid = store.currentUid /\ t.settings = store.settings
  BY <1>1, StageChanges DEF IInv
<1>3. store' = t /\ UNCHANGED <<disk, saveFailures, used, calls, runs>> /\ UNCHANGED Ghosts
  BY DEF Event, NoSave
<1> HIDE DEF t
<1>4. FileRunning(t) /\ \A u : ~Committed(t, u) /\ ~Committed(store, u)
  BY <1>2 DEF FileRunning, Committed
<1>5. RequestsKept(t, disk, used)
  BY <1>1, <1>2, <1>4 DEF IInv, RequestsKept, Proper
<1>6. FilesKept(t, disk, lost, tainted)
  BY <1>2, <1>4 DEF IInv, FilesKept
<1>7. SnapshotsKept(t, disk, handed, leftover, runs)
  BY <1>2, SnapshotsFrame DEF IInv
<1>8. RuntimeKept(t, disk, tainted)
  BY <1>2, <1>4, RuntimeFrame DEF IInv
<1> QED
  BY <1>2, <1>3, <1>5, <1>6, <1>7, <1>8 DEF IInv, Ranged, Ghosts

LEMMA WorkerHolds ==
    ASSUME IInv, PrepareWrite \/ CommitFails
    PROVE  IInv'
BY StageHolds DEF PrepareWrite, CommitFails, WorkerIs

LEMMA CommitWriteHolds ==
    ASSUME IInv, CommitWrite
    PROVE  IInv'
<1> DEFINE t == [store EXCEPT !.write.stage = "committed"]
           r == store.write.request
           d == [disk EXCEPT !.file[r.uid] = r.content]
<1>1. /\ FileRunning(store) /\ store' = t /\ disk' = d /\ store.write.stage = "armed"
      /\ UNCHANGED <<used, calls, runs, saveFailures>> /\ UNCHANGED Ghosts
  BY DEF CommitWrite, WorkerIs, FileRunning
<1>2. /\ StoreKept(t) /\ Listed(t) = Listed(store) /\ t.fileQueue = store.fileQueue
      /\ t.write.request = r /\ t.write.cancelled = store.write.cancelled
      /\ t.write.stage = "committed" /\ t.runtime = store.runtime
      /\ t.currentUid = store.currentUid /\ t.settings = store.settings
  BY <1>1, StageChanges DEF IInv
<1>3. r.uid \in Uids /\ r.content \in Contents
  BY <1>1 DEF IInv, Ranged, RequestsKept, Proper
<1>4. r.content # Nothing
  BY <1>3, NothingAssumption DEF Contents
<1>5. disk \in DiskRec /\ Distinct(disk.index)
  BY DEF IInv, Ranged
<1> HIDE DEF t, r
<1>6. /\ d \in DiskRec /\ d.index = disk.index /\ d.snapshots = disk.snapshots
      /\ \A v \in Uids : d.file[v] = IF v = r.uid THEN r.content ELSE disk.file[v]
  BY <1>3, <1>5 DEF DiskRec, MaybeContents
<1> HIDE DEF d
<1>7. FileRunning(t) /\ \A u : ~Committed(store, u) /\ (Committed(t, u) <=> u = r.uid)
  BY <1>1, <1>2 DEF FileRunning, Committed
<1>8. RequestsKept(t, d, used)
  BY <1>1, <1>2, <1>6, <1>7 DEF IInv, RequestsKept, Proper, r
<1>9. FilesKept(t, d, lost, tainted)
  BY <1>2, <1>3, <1>4, <1>6, <1>7 DEF IInv, FilesKept
<1>10. SnapshotsKept(t, d, handed, leftover, runs)
  BY <1>2, <1>6, SnapshotsFrame DEF IInv
<1>11. RuntimeKept(t, d, tainted)
  <2>1. \A v \in Listed(store) : v \in Uids
    BY StoreIsOrderly DEF StoreRec, Listed
  <2> QED
    BY <1>2, <1>6, <1>7, <2>1 DEF IInv, RuntimeKept, RuntimeRunning
<1> QED
  BY <1>1, <1>2, <1>5, <1>6, <1>8, <1>9, <1>10, <1>11 DEF IInv, Ranged, Ghosts

-----------------------------------------------------------------------------
(* The end of a write *)

\* The store without its write.
LEMMA WriteFreed ==
    ASSUME NEW s \in StoreRec
    PROVE  LET t == [s EXCEPT !.write = NoWrite]
           IN /\ t \in StoreRec /\ t.write = NoWrite /\ ~FileRunning(t)
              /\ t.profiles = s.profiles /\ t.fileQueue = s.fileQueue
              /\ t.shown = s.shown /\ t.owed = s.owed /\ t.runtime = s.runtime
              /\ t.runtimeRequested = s.runtimeRequested /\ t.maintenance = s.maintenance
              /\ t.currentUid = s.currentUid /\ t.settings = s.settings
<1> DEFINE t == [s EXCEPT !.write = NoWrite]
<1>1. NoWrite \in WriteRec /\ NoWrite.stage = "idle"
  BY DEF NoWrite, WriteRec, RequestRec, Kind, MaybeContents, MaybeUrl
<1>2. /\ t \in StoreRec /\ t.write = NoWrite
      /\ t.profiles = s.profiles /\ t.fileQueue = s.fileQueue
      /\ t.shown = s.shown /\ t.owed = s.owed /\ t.runtime = s.runtime
      /\ t.runtimeRequested = s.runtimeRequested /\ t.maintenance = s.maintenance
      /\ t.currentUid = s.currentUid /\ t.settings = s.settings
  BY <1>1 DEF StoreRec
<1> HIDE DEF t
<1>3. ~FileRunning(t)
  BY <1>1, <1>2 DEF FileRunning
<1> QED
  BY <1>2, <1>3 DEF t

\* What the slot of a finished write ends with keeps what held without it.
LEMMA NextOrIdleKeeps ==
    ASSUME NEW s, Orderly([s EXCEPT !.write = NoWrite]), s \in StoreRec, NEW d
    PROVE  LET f == [s EXCEPT !.write = NoWrite]
               t == NextOrIdle(s)
           IN /\ StoreKept(t)
              /\ \A g : RequestsKept(f, d, g) => RequestsKept(t, d, g)
              /\ \A gone, dirty : FilesKept(f, d, gone, dirty) => FilesKept(t, d, gone, dirty)
              /\ \A a, l, n : SnapshotsKept(f, d, a, l, n) => SnapshotsKept(t, d, a, l, n)
              /\ \A dirty : RuntimeKept(f, d, dirty) => RuntimeKept(t, d, dirty)
              /\ Listed(t) = Listed(s)
<1> DEFINE f == [s EXCEPT !.write = NoWrite]
           t == NextOrIdle(s)
<1>1. f \in StoreRec /\ ~FileRunning(f) /\ Orderly(f) /\ f.profiles = s.profiles
  BY WriteFreed
<1>2. t = IF f.fileQueue # <<>> /\ ~f.maintenance THEN StartNextWrite(f)
          ELSE [f EXCEPT !.shown = IsFileBusy(f)]
  BY DEF NextOrIdle
<1>3. Listed(f) = Listed(s)
  BY <1>1 DEF Listed
<1> HIDE DEF f
<1>4. f.fileQueue # <<>> => ~f.maintenance
  BY <1>1 DEF Orderly
<1>5. CASE f.fileQueue # <<>>
  <2>1. t = StartNextWrite(f)
    BY <1>2, <1>4, <1>5
  <2>2. StoreKept(t) /\ Listed(t) = Listed(f)
    BY <1>1, <1>5, <2>1, NextWriteStarts
  <2> HIDE DEF t
  <2>3. /\ \A g : RequestsKept(f, d, g) => RequestsKept(t, d, g)
        /\ \A gone, dirty : FilesKept(f, d, gone, dirty) => FilesKept(t, d, gone, dirty)
        /\ \A a, l, n : SnapshotsKept(f, d, a, l, n) => SnapshotsKept(t, d, a, l, n)
        /\ \A dirty : RuntimeKept(f, d, dirty) => RuntimeKept(t, d, dirty)
    BY <1>1, <1>5, <2>1, StartKeepsRest
  <2> QED
    BY <1>3, <2>2, <2>3 DEF t, f
<1>6. CASE f.fileQueue = <<>>
  <2>1. t = [f EXCEPT !.shown = IsFileBusy(f)] /\ IsFileBusy(f) \in BOOLEAN
    BY <1>2, <1>6 DEF IsFileBusy, FileRunning, RuntimeRunning
  <2> HIDE DEF t
  <2>2. /\ t \in StoreRec /\ t.profiles = f.profiles /\ t.shown = IsFileBusy(f) /\ t.write = f.write
        /\ t.fileQueue = f.fileQueue /\ t.owed = f.owed /\ t.runtime = f.runtime
        /\ t.runtimeRequested = f.runtimeRequested /\ t.maintenance = f.maintenance
        /\ t.currentUid = f.currentUid /\ t.settings = f.settings
    BY <1>1, <2>1 DEF StoreRec
  <2>3. /\ FileRunning(t) = FileRunning(f) /\ RuntimeRunning(t) = RuntimeRunning(f)
        /\ IsFileBusy(t) = IsFileBusy(f) /\ Listed(t) = Listed(f)
        /\ \A u : Committed(t, u) <=> Committed(f, u)
    BY <2>2 DEF FileRunning, RuntimeRunning, IsFileBusy, Listed, Committed
  <2>4. Accounted(t)
    BY <1>1, <2>2, <2>3 DEF Orderly, Accounted
  <2>5. StoreKept(t)
    BY <1>1, <1>6, <2>2, <2>3, <2>4 DEF StoreKept, Orderly, Distinct
  <2>6. ASSUME NEW g, RequestsKept(f, d, g) PROVE RequestsKept(t, d, g)
    BY <2>2, <2>3, <2>6, RequestsFrame
  <2>7. ASSUME NEW gone, NEW dirty, FilesKept(f, d, gone, dirty) PROVE FilesKept(t, d, gone, dirty)
    BY <2>2, <2>3, <2>7, FilesFrame
  <2>8. ASSUME NEW a, NEW l, NEW n, SnapshotsKept(f, d, a, l, n) PROVE SnapshotsKept(t, d, a, l, n)
    BY <2>2, <2>8, SnapshotsFrame
  <2>9. ASSUME NEW dirty, RuntimeKept(f, d, dirty) PROVE RuntimeKept(t, d, dirty)
    BY <2>2, <2>3, <2>9, RuntimeFrame
  <2> QED
    BY <1>3, <2>3, <2>5, <2>6, <2>7, <2>8, <2>9 DEF t, f
<1> QED
  BY <1>5, <1>6

\* The end of a write whose store, without it, keeps the invariant.
LEMMA FinishHolds ==
    ASSUME IInv, NEW s \in StoreRec, store' = NextOrIdle(s), Orderly([s EXCEPT !.write = NoWrite]),
           RequestsKept([s EXCEPT !.write = NoWrite], disk', used),
           FilesKept([s EXCEPT !.write = NoWrite], disk', lost, tainted'),
           SnapshotsKept([s EXCEPT !.write = NoWrite], disk', handed, leftover, runs),
           RuntimeKept([s EXCEPT !.write = NoWrite], disk', tainted'),
           disk' \in DiskRec, Distinct(disk'.index), saveFailures' \in 0 .. MaxSaveFailures,
           tainted' \subseteq Uids, confirmed' \in [Uids -> MaybeContents],
           UNCHANGED <<used, calls, runs, handed, leftover, lost, crashes>>
    PROVE  IInv'
<1>1. /\ StoreKept(store') /\ RequestsKept(store', disk', used)
      /\ FilesKept(store', disk', lost, tainted')
      /\ SnapshotsKept(store', disk', handed, leftover, runs) /\ RuntimeKept(store', disk', tainted')
  BY NextOrIdleKeeps
<1> QED
  BY <1>1 DEF IInv, Ranged

\* A write that is no save, and whose profile the rest leaves alone, is freed.
LEMMA FreedIsOrderly ==
    ASSUME NEW s, Orderly(s), NEW t \in StoreRec, Distinct(t),
           Listed(s) \subseteq Listed(t), t.fileQueue = s.fileQueue,
           t.runtimeRequested => s.runtimeRequested /\ RuntimeRunning(t), t.maintenance = s.maintenance,
           \A u \in Uids : t.owed[u] = Cardinality(Saves(s.fileQueue, u))
    PROVE  Orderly([t EXCEPT !.write = NoWrite])
<1> DEFINE f == [t EXCEPT !.write = NoWrite]
<1>1. /\ f \in StoreRec /\ ~FileRunning(f) /\ f.profiles = t.profiles /\ f.fileQueue = t.fileQueue
      /\ f.owed = t.owed /\ f.runtime = t.runtime
      /\ f.runtimeRequested = t.runtimeRequested /\ f.maintenance = t.maintenance
  BY WriteFreed
<1> HIDE DEF f
<1>2. Listed(f) = Listed(t) /\ Distinct(f) /\ RuntimeRunning(f) = RuntimeRunning(t)
  BY <1>1 DEF Listed, Distinct, RuntimeRunning
<1>3. Accounted(f)
  <2> SUFFICES ASSUME NEW u \in Uids
               PROVE  f.owed[u] = Cardinality(Saves(f.fileQueue, u)) + 0
    BY <1>1 DEF Accounted
  <2>1. Cardinality(Saves(s.fileQueue, u)) \in Nat
    BY OwedIsNumber, SavesAreFinite
  <2> QED
    BY <1>1, <2>1
<1>4. Orderly(f)
  BY <1>1, <1>2, <1>3 DEF Orderly
<1> QED
  BY <1>4 DEF f

LEMMA OwedWhileRunning ==
    ASSUME NEW s, Orderly(s), FileRunning(s), NEW u \in Uids
    PROVE  /\ Answer(s.owed, <<s.write.request>>)[u] = Cardinality(Saves(s.fileQueue, u))
           /\ s.write.request.kind # "Save" => s.owed[u] = Cardinality(Saves(s.fileQueue, u))
<1>1. Cardinality(Saves(s.fileQueue, u)) \in Nat
  BY OwedIsNumber, SavesAreFinite
<1>2. s.owed[u] = Cardinality(Saves(s.fileQueue, u)) + (IF IsSave(s.write.request, u) THEN 1 ELSE 0)
  BY DEF Orderly, Accounted, IsSave
<1>3. Answer(s.owed, <<s.write.request>>)[u]
          = s.owed[u] - (IF IsSave(s.write.request, u) THEN 1 ELSE 0)
  BY OneSave DEF Answer
<1> QED
  BY <1>1, <1>2, <1>3 DEF IsSave

\* No request that waits creates the profile that the write created.
LEMMA RequestsFreed ==
    ASSUME NEW s, NEW d, NEW g, RequestsKept(s, d, g), FileRunning(s),
           NEW t, NEW e, t.fileQueue = s.fileQueue, ~FileRunning(t),
           Listed(t) \cup Listed(e.index) \subseteq Listed(s) \cup Listed(d.index)
               \cup (IF Creating(s.write.request) THEN {s.write.request.uid} ELSE {})
    PROVE  RequestsKept(t, e, g)
<1>1. ASSUME NEW i \in DOMAIN s.fileQueue PROVE Proper(s.fileQueue[i], t, e, g)
  BY DEF RequestsKept, Proper, Apart
<1>2. Listed(t) \cup Listed(e.index) \cup {FirstUid} \subseteq g
  BY DEF RequestsKept, Proper
<1> QED
  BY <1>1, <1>2 DEF RequestsKept

LEMMA FinishCreationHolds ==
    ASSUME IInv, NEW saved \in BOOLEAN, FinishCreation(saved)
    PROVE  IInv'
<1> DEFINE request == store.write.request
           u == request.uid
           listed == AppendProfile(store, request)
           removed == [disk EXCEPT !.file[u] = Nothing]
<1>1. /\ WriterDone /\ Creating(request) /\ FileRunning(store)
      /\ UNCHANGED <<used, calls, runs>> /\ UNCHANGED Ghosts
  BY DEF FinishCreation, WriterDone, WorkerIs, FileRunning
<1>2. /\ Orderly(store) /\ store \in StoreRec /\ Distinct(store)
      /\ store.write \in WriteRec /\ request \in RequestRec
  BY StoreIsOrderly, StoreParts DEF Orderly
<1>3. /\ disk \in DiskRec /\ Distinct(disk.index) /\ saveFailures \in 0 .. MaxSaveFailures
      /\ used \subseteq Uids /\ tainted \subseteq Uids /\ confirmed \in [Uids -> MaybeContents]
  BY DEF IInv, Ranged
<1>4. /\ u \in used /\ u \in Uids /\ u \notin Listed(store) \cup Listed(disk.index)
      /\ request.content \in Contents /\ request.content # Nothing
  <2>1. Proper(request, store, disk, used)
    BY <1>1 DEF IInv, RequestsKept
  <2> QED
    BY <1>1, <1>3, <2>1, NothingAssumption DEF Proper, Contents
<1>5. request.kind # "Save"
  BY <1>1 DEF Creating
<1>6. \A v \in Uids : store.owed[v] = Cardinality(Saves(store.fileQueue, v))
  BY <1>1, <1>2, <1>5, OwedWhileRunning
<1>7. \A v : Committed(store, v) => v = u
  BY DEF Committed
<1>8. RuntimeRunning(store) /\ ~store.runtime.cancelled =>
          /\ store.currentUid \in Listed(store) /\ store.currentUid # u
          /\ store.currentUid \in Uids /\ store.currentUid # Nothing
  <2>1. \A v \in Listed(store) : v \in Uids
    BY <1>2 DEF StoreRec, Listed
  <2> QED
    BY <1>4, <2>1, NothingAssumption DEF IInv, RuntimeKept
<1>9. store.runtimeRequested => RuntimeRunning(store)
  BY <1>2 DEF Orderly
<1>10. /\ removed \in DiskRec /\ removed.index = disk.index /\ removed.snapshots = disk.snapshots
       /\ \A v \in Uids : removed.file[v] = IF v = u THEN Nothing ELSE disk.file[v]
  BY <1>3 DEF DiskRec, MaybeContents
<1> HIDE DEF removed
<1>11. CASE WriteSucceeded /\ saved
  <2> DEFINE f == [listed EXCEPT !.write = NoWrite]
  <2>1. store' = NextOrIdle(listed) /\ Save(listed, disk, saved)
    BY <1>11 DEF FinishCreation
  <2>2. /\ listed \in StoreRec /\ Distinct(listed) /\ Listed(listed) = Listed(store) \cup {u}
        /\ listed.currentUid = (IF store.currentUid = Nothing THEN u ELSE store.currentUid)
        /\ listed.fileQueue = store.fileQueue /\ listed.owed = store.owed
        /\ listed.runtime = store.runtime
        /\ listed.runtimeRequested = store.runtimeRequested
        /\ listed.maintenance = store.maintenance /\ listed.settings = store.settings
    BY <1>2, <1>4, ProfileAppended DEF RequestRec
  <2> HIDE DEF listed
  <2>3. /\ f \in StoreRec /\ f.write = NoWrite /\ ~FileRunning(f) /\ f.profiles = listed.profiles
        /\ f.fileQueue = store.fileQueue /\ f.runtime = store.runtime
        /\ f.currentUid = listed.currentUid /\ f.settings = store.settings
    BY <2>2, WriteFreed
  <2>4. /\ disk' \in DiskRec /\ Distinct(disk'.index) /\ disk'.file = disk.file
        /\ disk'.snapshots = disk.snapshots /\ Listed(disk'.index) = Listed(listed)
        /\ saveFailures' \in 0 .. MaxSaveFailures
    BY <1>3, <1>11, <2>1, <2>2, SaveIsOfIndex
  <2>5. RuntimeRunning(listed) = RuntimeRunning(store)
    BY <2>2 DEF RuntimeRunning
  <2>6. Orderly(f)
    BY <1>2, <1>6, <1>9, <2>2, <2>5, FreedIsOrderly
  <2> HIDE DEF f
  <2>7. Listed(f) = Listed(store) \cup {u} /\ \A v : ~Committed(f, v)
    BY <2>2, <2>3 DEF Listed, Committed, FileRunning
  <2>8. RequestsKept(f, disk', used)
    BY <1>1, <2>2, <2>3, <2>4, <2>7, RequestsFreed DEF IInv
  <2>9. FilesKept(f, disk', lost, tainted)
    <3>1. disk.file[u] = request.content
      BY <1>11 DEF IInv, FilesKept, WriteSucceeded, WorkerIs
    <3>2. f.write.stage # "committed"
      BY <2>3 DEF FileRunning
    <3>3. ASSUME NEW v \in Uids \ lost
          PROVE  /\ v \in Listed(f) <=> v \in Listed(disk'.index)
                 /\ v \in Listed(f) => disk'.file[v] # Nothing
                 /\ v \notin tainted /\ disk'.file[v] # Nothing => v \in Listed(f) \/ Committed(f, v)
      BY <1>4, <1>7, <2>2, <2>4, <2>7, <3>1 DEF IInv, FilesKept
    <3> QED
      BY <3>2, <3>3 DEF FilesKept
  <2>10. SnapshotsKept(f, disk', handed, leftover, runs)
    BY <2>3, <2>4, SnapshotsFrame DEF IInv
  <2>11. RuntimeKept(f, disk', tainted)
    BY <1>7, <1>8, <2>2, <2>3, <2>4, <2>7, RuntimeFrame DEF IInv
  <2> QED
    BY <1>1, <1>3, <2>1, <2>2, <2>4, <2>6, <2>8, <2>9, <2>10, <2>11, FinishHolds DEF f, Ghosts
<1>12. CASE ~(WriteSucceeded /\ saved)
  <2> DEFINE f == [store EXCEPT !.write = NoWrite]
  <2>1. store' = NextOrIdle(store) /\ disk' = removed /\ saveFailures' \in 0 .. MaxSaveFailures
    BY <1>3, <1>12, BoundsAssumption DEF FinishCreation, Save, removed
  <2>2. /\ f \in StoreRec /\ f.write = NoWrite /\ ~FileRunning(f) /\ f.profiles = store.profiles
        /\ f.fileQueue = store.fileQueue /\ f.runtime = store.runtime
        /\ f.currentUid = store.currentUid /\ f.settings = store.settings
    BY <1>2, WriteFreed
  <2>3. Orderly(f)
    BY <1>2, <1>6, <1>9, FreedIsOrderly
  <2> HIDE DEF f
  <2>4. Listed(f) = Listed(store) /\ \A v : ~Committed(f, v)
    BY <2>2 DEF Listed, Committed, FileRunning
  <2>5. RequestsKept(f, disk', used)
    BY <1>1, <1>10, <2>1, <2>2, <2>4, RequestsFreed DEF IInv
  <2>6. FilesKept(f, disk', lost, tainted)
    <3>1. f.write.stage # "committed"
      BY <2>2 DEF FileRunning
    <3>2. ASSUME NEW v \in Uids \ lost
          PROVE  /\ v \in Listed(f) <=> v \in Listed(disk'.index)
                 /\ v \in Listed(f) => disk'.file[v] # Nothing
                 /\ v \notin tainted /\ disk'.file[v] # Nothing => v \in Listed(f) \/ Committed(f, v)
      BY <1>4, <1>7, <1>10, <2>1, <2>4 DEF IInv, FilesKept
    <3> QED
      BY <3>1, <3>2 DEF FilesKept
  <2>7. SnapshotsKept(f, disk', handed, leftover, runs)
    BY <1>10, <2>1, <2>2, SnapshotsFrame DEF IInv
  <2>8. RuntimeKept(f, disk', tainted)
    BY <1>7, <1>8, <1>10, <2>1, <2>2, <2>4, RuntimeFrame DEF IInv
  <2>9. disk' \in DiskRec /\ Distinct(disk'.index)
    BY <1>3, <1>10, <2>1
  <2> QED
    BY <1>1, <1>2, <1>3, <2>1, <2>3, <2>5, <2>6, <2>7, <2>8, <2>9, FinishHolds DEF f, Ghosts
<1> QED
  BY <1>11, <1>12

LEMMA MaybeCancelled ==
    ASSUME NEW s, Orderly(s), NEW u, NEW changed, NEW t,
           t = IF changed THEN CancelIfCurrent(s, u) ELSE s
    PROVE  /\ Calm(s, t) /\ t.write = s.write /\ t.fileQueue = s.fileQueue
           /\ t.owed = s.owed /\ t.currentUid = s.currentUid /\ t.settings = s.settings
           /\ t.maintenance = s.maintenance /\ t.profiles = s.profiles
           /\ changed /\ u = s.currentUid /\ RuntimeRunning(s) => t.runtime.cancelled
<1>1. s \in StoreRec /\ s.runtime \in RuntimeRec
  BY StoreParts DEF Orderly
<1>2. CASE changed /\ u = s.currentUid
  <2> DEFINE c == CancelRuntimeGeneration(s)
  <2>1. Calm(s, c)
    BY RuntimeCancelledIsCalm
  <2>2. /\ c.runtime = [s.runtime EXCEPT !.cancelled = RuntimeRunning(s)]
        /\ c.write = s.write /\ c.fileQueue = s.fileQueue
        /\ c.owed = s.owed /\ c.currentUid = s.currentUid /\ c.settings = s.settings
        /\ c.maintenance = s.maintenance /\ c.profiles = s.profiles
    BY <1>1, RuntimeCancelled
  <2>3. t = c
    BY <1>2 DEF CancelIfCurrent
  <2> HIDE DEF c
  <2>4. RuntimeRunning(s) => c.runtime.cancelled
    BY <1>1, <2>2 DEF RuntimeRec
  <2> QED
    BY <2>1, <2>2, <2>3, <2>4
<1>3. CASE ~(changed /\ u = s.currentUid)
  <2>1. t = s
    BY <1>3 DEF CancelIfCurrent
  <2> QED
    BY <1>1, <1>3, <2>1, SameIsCalm
<1> QED
  BY <1>2, <1>3

LEMMA FinishUpdateHolds ==
    ASSUME IInv, NEW saved \in BOOLEAN, FinishUpdate(saved)
    PROVE  IInv'
<1> DEFINE request == store.write.request
           u == request.uid
           updates == WriteSucceeded /\ u \in Listed(store)
           s == IF updates THEN CancelIfCurrent(store, u) ELSE store
           o == Answer(store.owed, <<request>>)
           t == [s EXCEPT !.owed = o]
           f == [t EXCEPT !.write = NoWrite]
<1>1. /\ WriterDone /\ ~Creating(request) /\ FileRunning(store)
      /\ UNCHANGED <<used, calls, runs, handed, leftover, lost, crashes>>
      /\ IF updates THEN Save(s, disk, saved) ELSE saved /\ NoSave
      /\ store' = NextOrIdle([s EXCEPT !.owed = Answer(s.owed, <<request>>)])
      /\ confirmed' = IF request.kind = "Save" /\ updates /\ saved
                      THEN [confirmed EXCEPT ![u] = request.content] ELSE confirmed
      /\ tainted' = CASE updates -> tainted \ {u}
                      [] WorkerIs("committed") /\ ~updates -> tainted \cup {u}
                      [] OTHER -> tainted
  BY DEF FinishUpdate, WriterDone, WorkerIs, FileRunning
<1>2. /\ Orderly(store) /\ store \in StoreRec /\ Distinct(store)
      /\ store.write \in WriteRec /\ request \in RequestRec
  BY StoreIsOrderly, StoreParts DEF Orderly
<1>3. /\ disk \in DiskRec /\ Distinct(disk.index) /\ saveFailures \in 0 .. MaxSaveFailures
      /\ used \subseteq Uids /\ tainted \subseteq Uids /\ confirmed \in [Uids -> MaybeContents]
  BY DEF IInv, Ranged
<1>4. u \in Uids /\ request.content \in Contents
  BY <1>1, <1>3 DEF IInv, RequestsKept, Proper
<1>5. /\ Calm(store, s) /\ s.write = store.write /\ s.fileQueue = store.fileQueue
      /\ s.owed = store.owed /\ s.currentUid = store.currentUid /\ s.settings = store.settings
      /\ s.maintenance = store.maintenance /\ s.profiles = store.profiles
      /\ updates /\ u = store.currentUid /\ RuntimeRunning(store) => s.runtime.cancelled
  <2>1. s = IF updates THEN CancelIfCurrent(store, u) ELSE store
    OBVIOUS
  <2> HIDE DEF s, updates
  <2> QED
    BY <1>2, <2>1, MaybeCancelled
<1>6. store' = NextOrIdle(t)
  BY <1>1, <1>5
<1>7. s \in StoreRec /\ Distinct(s) /\ Orderly(s) /\ RuntimeRunning(s) = RuntimeRunning(store)
  <2> HIDE DEF s
  <2> QED
    BY <1>2, <1>5, CalmKeepsOrder DEF Calm, Orderly, RuntimeRunning
<1>8. \A v \in Uids : o[v] = Cardinality(Saves(store.fileQueue, v))
  BY <1>1, <1>2, OwedWhileRunning
<1>9. o \in [Uids -> Nat]
  <2>1. \A v \in Uids : Cardinality(Saves(store.fileQueue, v)) \in Nat
    BY <1>2, OwedIsNumber, SavesAreFinite
  <2>2. o = [v \in Uids |-> o[v]]
    BY DEF Answer
  <2> QED
    BY <1>8, <2>1, <2>2
<1>10. \A v : Committed(store, v) => v = u
  BY DEF Committed
<1>11. Listed(s) = Listed(store)
  BY <1>5 DEF Listed
<1>12. /\ disk' \in DiskRec /\ Distinct(disk'.index) /\ disk'.file = disk.file
       /\ disk'.snapshots = disk.snapshots
       /\ Listed(disk'.index) = Listed(disk.index) \/ Listed(disk'.index) = Listed(store)
       /\ saveFailures' \in 0 .. MaxSaveFailures
  <2>1. CASE updates
    BY <1>1, <1>3, <1>7, <1>11, <2>1, SaveIsOfIndex
  <2>2. CASE ~updates
    BY <1>1, <1>3, <2>2 DEF NoSave
  <2> QED
    BY <2>1, <2>2
<1>13. /\ tainted' \subseteq Uids /\ confirmed' \in [Uids -> MaybeContents]
       /\ \A v \in Uids \ {u} : v \in tainted <=> v \in tainted'
       /\ ~updates => (u \in tainted => u \in tainted')
       /\ ~updates /\ Committed(store, u) => u \in tainted'
       /\ updates => u \in Listed(store)
  <2>1. confirmed' \in [Uids -> MaybeContents]
    BY <1>1, <1>3, <1>4 DEF MaybeContents
  <2>2. CASE updates
    BY <1>1, <1>3, <2>1, <2>2
  <2>3. CASE ~updates
    BY <1>1, <1>3, <1>4, <2>1, <2>3 DEF Committed, WorkerIs
  <2> QED
    BY <2>2, <2>3
<1> HIDE DEF s, o, updates
<1>14. /\ t \in StoreRec /\ t.profiles = s.profiles /\ t.fileQueue = s.fileQueue /\ t.owed = o
       /\ t.runtime = s.runtime /\ t.runtimeRequested = s.runtimeRequested
       /\ t.maintenance = s.maintenance /\ t.currentUid = s.currentUid /\ t.settings = s.settings
  BY <1>7, <1>9 DEF StoreRec
<1> HIDE DEF t
<1>15. /\ Listed(t) = Listed(store) /\ Distinct(t) /\ RuntimeRunning(t) = RuntimeRunning(store)
  BY <1>7, <1>11, <1>14 DEF Listed, Distinct, RuntimeRunning
<1>16. /\ f \in StoreRec /\ f.write = NoWrite /\ ~FileRunning(f) /\ f.profiles = store.profiles
       /\ f.fileQueue = store.fileQueue /\ f.runtime = s.runtime
       /\ f.currentUid = store.currentUid /\ f.settings = store.settings
  BY <1>5, <1>14, WriteFreed
<1>17. Orderly(f)
  <2>1. t.runtimeRequested => store.runtimeRequested /\ RuntimeRunning(t)
    BY <1>2, <1>5, <1>14, <1>15 DEF Calm, Orderly
  <2> QED
    BY <1>2, <1>5, <1>8, <1>14, <1>15, <2>1, FreedIsOrderly
<1> HIDE DEF f
<1>18. Listed(f) = Listed(store) /\ \A v : ~Committed(f, v)
  BY <1>16 DEF Listed, Committed, FileRunning
<1>19. RequestsKept(f, disk', used)
  BY <1>1, <1>12, <1>16, <1>18, RequestsFreed DEF IInv
<1>20. FilesKept(f, disk', lost, tainted')
  <2>1. f.write.stage # "committed"
    BY <1>16 DEF FileRunning
  <2>2. ASSUME NEW v \in Uids \ lost
        PROVE  /\ v \in Listed(f) <=> v \in Listed(disk'.index)
               /\ v \in Listed(f) => disk'.file[v] # Nothing
               /\ v \notin tainted' /\ disk'.file[v] # Nothing => v \in Listed(f) \/ Committed(f, v)
    <3>1. /\ v \in Listed(store) <=> v \in Listed(disk.index)
          /\ v \in Listed(store) => disk.file[v] # Nothing
          /\ v \notin tainted /\ disk.file[v] # Nothing => v \in Listed(store) \/ Committed(store, v)
      BY DEF IInv, FilesKept
    <3>2. v \notin tainted' /\ disk'.file[v] # Nothing => v \in Listed(f)
      <4>1. CASE v = u
        BY <1>12, <1>13, <1>18, <3>1, <4>1
      <4>2. CASE v # u
        BY <1>10, <1>12, <1>13, <1>18, <3>1, <4>2
      <4> QED
        BY <4>1, <4>2
    <3> QED
      BY <1>12, <1>18, <3>1, <3>2
  <2> QED
    BY <2>1, <2>2 DEF FilesKept
<1>21. SnapshotsKept(f, disk', handed, leftover, runs)
  BY <1>5, <1>12, <1>16, SnapshotsFrame DEF IInv, Calm
<1>22. RuntimeKept(f, disk', tainted')
  <2>1. \A v \in Listed(store) : v \in Uids
    BY <1>2 DEF StoreRec, Listed
  <2>2. RuntimeRunning(store) /\ ~store.runtime.cancelled => store.currentUid \in Uids
    BY <2>1 DEF IInv, RuntimeKept
  <2>3. RuntimeRunning(store) /\ ~f.runtime.cancelled =>
            /\ ~store.runtime.cancelled
            /\ f.currentUid = store.currentUid /\ f.settings = store.settings
            /\ Committed(store, store.currentUid) => store.currentUid \in tainted'
            /\ store.currentUid \in tainted => store.currentUid \in tainted'
    BY <1>5, <1>10, <1>13, <1>16, <2>2 DEF Calm
  <2> QED
    BY <1>5, <1>12, <1>16, <1>18, <2>3, RuntimeFrame DEF IInv, Calm
<1> QED
  BY <1>1, <1>6, <1>12, <1>13, <1>14, <1>17, <1>19, <1>20, <1>21, <1>22, FinishHolds DEF f

-----------------------------------------------------------------------------
(* The generation of the runtime configuration *)

\* A generation starts from the inputs of now, or cannot.
LEMMA GenerationStarts ==
    ASSUME NEW s \in StoreRec, NEW path \in Nat, NEW saved \in BOOLEAN
    PROVE  LET t == StartPendingRuntime(s, path, saved)
           IN /\ t \in StoreRec /\ t.profiles = s.profiles /\ t.write = s.write
              /\ t.fileQueue = s.fileQueue /\ t.owed = s.owed /\ t.maintenance = s.maintenance
              /\ t.currentUid = s.currentUid /\ t.settings = s.settings
              /\ t.runtimeRequested = FALSE /\ t.shown = IsFileBusy(t) /\ ~t.runtime.failed
              /\ \/ ~RuntimeRunning(t) /\ t.runtime.path = 0
                 \/ /\ RuntimeRunning(t) /\ t.runtime.stage = "reading" /\ t.runtime.path = path
                    /\ t.runtime.uid = s.currentUid /\ s.currentUid \in Listed(s)
                    /\ t.runtime.settings = s.settings
<1> DEFINE prepared == s.currentUid \in Listed(s) /\ (MakesSecret(s) => saved)
           r == IF prepared
                THEN [NoRuntime EXCEPT !.uid = s.currentUid, !.settings = s.settings,
                                       !.stage = "reading", !.path = path]
                ELSE NoRuntime
           secret == s.secret \/ MakesSecret(s)
           next == [s EXCEPT !.secret = secret, !.runtimeRequested = FALSE, !.runtime = r]
           t == [next EXCEPT !.shown = IsFileBusy(next)]
<1>1. t = StartPendingRuntime(s, path, saved)
  BY DEF StartPendingRuntime
<1>2. /\ r \in RuntimeRec /\ ~r.failed
      /\ \/ r.stage = "idle" /\ r.path = 0
         \/ /\ r.stage = "reading" /\ r.path = path /\ r.uid = s.currentUid
            /\ s.currentUid \in Listed(s) /\ r.settings = s.settings
  BY DEF NoRuntime, RuntimeRec, StoreRec, MaybeContents
<1>3. secret \in BOOLEAN
  BY DEF MakesSecret, StoreRec
<1> HIDE DEF r, secret
<1>4. /\ next \in StoreRec /\ next.profiles = s.profiles /\ next.write = s.write
      /\ next.fileQueue = s.fileQueue /\ next.owed = s.owed /\ next.maintenance = s.maintenance
      /\ next.currentUid = s.currentUid /\ next.settings = s.settings
      /\ next.runtimeRequested = FALSE /\ next.runtime = r
  BY <1>2, <1>3 DEF StoreRec
<1> HIDE DEF next
<1>5. IsFileBusy(next) \in BOOLEAN
  BY DEF IsFileBusy, FileRunning, RuntimeRunning
<1>6. /\ t \in StoreRec /\ t.profiles = s.profiles /\ t.write = s.write
      /\ t.fileQueue = s.fileQueue /\ t.owed = s.owed /\ t.maintenance = s.maintenance
      /\ t.currentUid = s.currentUid /\ t.settings = s.settings
      /\ t.runtimeRequested = FALSE /\ t.runtime = r /\ t.shown = IsFileBusy(next)
  BY <1>4, <1>5 DEF StoreRec
<1> HIDE DEF t
<1>7. IsFileBusy(t) = IsFileBusy(next)
  BY <1>4, <1>6 DEF IsFileBusy, FileRunning, RuntimeRunning
<1>8. \/ ~RuntimeRunning(t) /\ t.runtime.path = 0
      \/ /\ RuntimeRunning(t) /\ t.runtime.stage = "reading" /\ t.runtime.path = path
         /\ t.runtime.uid = s.currentUid /\ s.currentUid \in Listed(s)
         /\ t.runtime.settings = s.settings
  BY <1>2, <1>6 DEF RuntimeRunning
<1> QED
  BY <1>1, <1>2, <1>6, <1>7, <1>8

\* What a store depends on beside the generation.
LEMMA BesideRuntime ==
    ASSUME NEW s, StoreKept(s), NEW t \in StoreRec, t.profiles = s.profiles, t.write = s.write,
           t.fileQueue = s.fileQueue, t.owed = s.owed, t.maintenance = s.maintenance,
           t.runtimeRequested => RuntimeRunning(t) /\ ~t.maintenance, t.shown = IsFileBusy(t)
    PROVE  /\ StoreKept(t) /\ Listed(t) = Listed(s)
           /\ \A d, g : RequestsKept(s, d, g) => RequestsKept(t, d, g)
           /\ \A d, gone, dirty : FilesKept(s, d, gone, dirty) => FilesKept(t, d, gone, dirty)
<1>1. Listed(t) = Listed(s) /\ FileRunning(t) = FileRunning(s)
  BY DEF Listed, FileRunning
<1>2. Accounted(t)
  BY <1>1 DEF StoreKept, Orderly, Accounted
<1>3. StoreKept(t)
  BY <1>1, <1>2 DEF StoreKept, Orderly, Distinct
<1>4. ASSUME NEW d, NEW g, RequestsKept(s, d, g) PROVE RequestsKept(t, d, g)
  BY <1>1, <1>4, RequestsFrame
<1>5. ASSUME NEW d, NEW gone, NEW dirty, FilesKept(s, d, gone, dirty) PROVE FilesKept(t, d, gone, dirty)
  BY <1>1, <1>5, FilesFrame
<1> QED
  BY <1>1, <1>3, <1>4, <1>5

LEMMA GenerateHolds ==
    ASSUME IInv, NEW s \in StoreRec, s.profiles = store.profiles, s.write = store.write,
           s.fileQueue = store.fileQueue, s.owed = store.owed, s.maintenance = store.maintenance,
           NEW d \in DiskRec, d.index = disk.index, d.file = disk.file,
           NEW path \in 1 .. runs', NEW saved \in BOOLEAN, Generate(s, d, path, saved),
           runs' \in 0 .. MaxRuns, d.snapshots \cup handed' \cup leftover \subseteq 1 .. runs',
           d.snapshots \subseteq handed' \cup leftover,
           UNCHANGED <<used, calls, leftover, confirmed, tainted, lost, crashes>>
    PROVE  IInv'
<1> DEFINE t == StartPendingRuntime(s, path, saved)
<1>1. path \in Nat
  OBVIOUS
<1>2. /\ t \in StoreRec /\ t.profiles = s.profiles /\ t.write = s.write
      /\ t.fileQueue = s.fileQueue /\ t.owed = s.owed /\ t.maintenance = s.maintenance
      /\ t.currentUid = s.currentUid /\ t.settings = s.settings
      /\ t.runtimeRequested = FALSE /\ t.shown = IsFileBusy(t) /\ ~t.runtime.failed
      /\ \/ ~RuntimeRunning(t) /\ t.runtime.path = 0
         \/ /\ RuntimeRunning(t) /\ t.runtime.stage = "reading" /\ t.runtime.path = path
            /\ t.runtime.uid = s.currentUid /\ s.currentUid \in Listed(s)
            /\ t.runtime.settings = s.settings
  BY <1>1, GenerationStarts
<1>3. /\ store' = t
      /\ IF MakesSecret(s) THEN Save(t, d, saved) ELSE saved /\ disk' = d /\ UNCHANGED saveFailures
  BY DEF Generate
<1> HIDE DEF t
<1>4. /\ StoreKept(t) /\ Listed(t) = Listed(store) /\ RequestsKept(t, disk, used)
      /\ FilesKept(t, disk, lost, tainted)
  BY <1>2, BesideRuntime DEF IInv
<1>5. Distinct(t) /\ Distinct(d.index) /\ saveFailures \in 0 .. MaxSaveFailures
  BY <1>4 DEF IInv, Ranged, StoreKept, Orderly
<1>6. /\ disk' \in DiskRec /\ Distinct(disk'.index) /\ disk'.file = disk.file
      /\ disk'.snapshots = d.snapshots /\ saveFailures' \in 0 .. MaxSaveFailures
      /\ Listed(disk'.index) = Listed(disk.index) \/ Listed(disk'.index) = Listed(t)
  <2>1. CASE MakesSecret(s)
    BY <1>2, <1>3, <1>5, <2>1, SaveIsOfIndex
  <2>2. CASE ~MakesSecret(s)
    BY <1>3, <1>5, <2>2
  <2> QED
    BY <2>1, <2>2
<1>7. RequestsKept(t, disk', used)
  BY <1>4, <1>6, RequestsFrame
<1>8. FilesKept(t, disk', lost, tainted)
  BY <1>4, <1>6, FilesFrame
<1>9. SnapshotsKept(t, disk', handed', leftover, runs')
  BY <1>2, <1>6 DEF SnapshotsKept
<1>10. RuntimeKept(t, disk', tainted)
  <2>1. Listed(t) = Listed(s)
    BY <1>2 DEF Listed
  <2> QED
    BY <1>2, <2>1 DEF RuntimeKept
<1> QED
  BY <1>3, <1>4, <1>6, <1>7, <1>8, <1>9, <1>10 DEF IInv, Ranged

LEMMA RequestRuntimeConfigHolds ==
    ASSUME IInv, NEW saved \in BOOLEAN, RequestRuntimeConfig(saved)
    PROVE  IInv'
<1> DEFINE m == CancelRuntimeGeneration(store)
           s == [m EXCEPT !.runtimeRequested = TRUE]
<1>1. /\ AcceptsChanges(store) /\ runs < MaxRuns /\ runs' = runs + 1
      /\ IF RuntimeRunning(store) THEN saved /\ store' = s /\ UNCHANGED <<disk, saveFailures>>
                                  ELSE Generate(s, disk, runs', saved)
      /\ UNCHANGED <<used, calls>> /\ UNCHANGED Ghosts
  BY DEF RequestRuntimeConfig, Requested, NoSave
<1>2. /\ m \in StoreRec /\ m.runtime = [store.runtime EXCEPT !.cancelled = RuntimeRunning(store)]
      /\ m.write = store.write /\ m.fileQueue = store.fileQueue /\ m.owed = store.owed
      /\ m.profiles = store.profiles /\ m.shown = store.shown
      /\ m.maintenance = store.maintenance
  BY StoreIsOrderly, RuntimeCancelled
<1> HIDE DEF m
<1>3. /\ s \in StoreRec /\ s.runtime = m.runtime /\ s.runtimeRequested = TRUE
      /\ s.write = store.write /\ s.fileQueue = store.fileQueue /\ s.owed = store.owed
      /\ s.profiles = store.profiles /\ s.shown = store.shown
      /\ s.maintenance = store.maintenance
  BY <1>2 DEF StoreRec
<1> HIDE DEF s
<1>4. /\ runs \in 0 .. MaxRuns /\ store.runtime.path \in 0 .. runs
      /\ (RuntimeRunning(store) => store.runtime.path # 0)
      /\ disk.snapshots \cup handed \cup leftover \subseteq 1 .. runs
  BY DEF IInv, SnapshotsKept
<1>5. runs' \in 0 .. MaxRuns /\ runs' \in 1 .. runs' /\ 1 .. runs \subseteq 1 .. runs'
      /\ 0 .. runs \subseteq 0 .. runs'
  BY <1>1, <1>4, BoundsAssumption
<1>6. CASE RuntimeRunning(store)
  <2>1. /\ s.runtime.stage = store.runtime.stage /\ s.runtime.path = store.runtime.path
        /\ s.runtime.failed = store.runtime.failed /\ s.runtime.cancelled
    BY <1>2, <1>3, <1>6, StoreIsOrderly, StoreParts DEF RuntimeRec
  <2>2. RuntimeRunning(s) /\ IsFileBusy(s) = IsFileBusy(store)
    BY <1>3, <1>6, <2>1 DEF RuntimeRunning, IsFileBusy, FileRunning
  <2>3. ~s.maintenance /\ s.shown = IsFileBusy(s)
    BY <1>1, <1>3, <2>2 DEF AcceptsChanges, IInv, StoreKept
  <2>4. StoreKept(s) /\ RequestsKept(s, disk, used) /\ FilesKept(s, disk, lost, tainted)
    BY <1>3, <2>2, <2>3, BesideRuntime DEF IInv
  <2>5. SnapshotsKept(s, disk, handed, leftover, runs')
    BY <1>4, <1>5, <1>6, <2>1, <2>2 DEF IInv, SnapshotsKept
  <2>6. RuntimeKept(s, disk, tainted)
    BY <2>1 DEF RuntimeKept
  <2> QED
    BY <1>1, <1>6, <2>4, <2>5, <2>6 DEF IInv, Ranged, Ghosts
<1>7. CASE ~RuntimeRunning(store)
  <2>1. disk \in DiskRec /\ disk.snapshots \subseteq handed \cup leftover
    BY <1>7 DEF IInv, Ranged, SnapshotsKept
  <2> QED
    BY <1>1, <1>3, <1>4, <1>5, <1>7, <2>1, GenerateHolds DEF Ghosts
<1> QED
  BY <1>6, <1>7

\* A step of the generator, which changes nothing else in the store.
LEMMA GeneratorStep ==
    ASSUME IInv, RuntimeRunning(store), NEW next \in RuntimeRec, next.stage # "idle",
           store' = [store EXCEPT !.runtime = next],
           disk' \in DiskRec, disk'.index = disk.index, disk'.file = disk.file,
           SnapshotsKept([store EXCEPT !.runtime = next], disk', handed, leftover, runs),
           RuntimeKept([store EXCEPT !.runtime = next], disk, tainted),
           UNCHANGED <<used, calls, runs, saveFailures>>, UNCHANGED Ghosts
    PROVE  IInv'
<1> DEFINE t == [store EXCEPT !.runtime = next]
<1>1. /\ t \in StoreRec /\ t.profiles = store.profiles /\ t.write = store.write
      /\ t.fileQueue = store.fileQueue /\ t.owed = store.owed /\ t.shown = store.shown
      /\ t.maintenance = store.maintenance /\ t.runtimeRequested = store.runtimeRequested
      /\ t.currentUid = store.currentUid /\ t.settings = store.settings /\ t.runtime = next
  BY StoreIsOrderly DEF StoreRec
<1>2. store' = t /\ SnapshotsKept(t, disk', handed, leftover, runs) /\ RuntimeKept(t, disk, tainted)
  OBVIOUS
<1> HIDE DEF t
<1>3. RuntimeRunning(t) /\ IsFileBusy(t) = IsFileBusy(store)
  BY <1>1 DEF RuntimeRunning, IsFileBusy
<1>4. /\ t.runtimeRequested => RuntimeRunning(t) /\ ~t.maintenance
      /\ t.shown = IsFileBusy(t)
  BY <1>1, <1>3 DEF IInv, StoreKept, Orderly
<1>5. /\ StoreKept(t) /\ RequestsKept(t, disk, used) /\ FilesKept(t, disk, lost, tainted)
  BY <1>1, <1>4, BesideRuntime DEF IInv
<1>6. RequestsKept(t, disk', used) /\ FilesKept(t, disk', lost, tainted)
  BY <1>5 DEF RequestsKept, Proper, FilesKept
<1>7. RuntimeKept(t, disk', tainted)
  BY <1>2 DEF RuntimeKept
<1> QED
  BY <1>2, <1>5, <1>6, <1>7 DEF IInv, Ranged, Ghosts

\* What a generator's step leaves alone in the store.
LEMMA GeneratorParts ==
    ASSUME NEW s \in StoreRec, NEW next \in RuntimeRec
    PROVE  LET t == [s EXCEPT !.runtime = next]
           IN /\ t.runtime = next /\ t.profiles = s.profiles /\ t.write = s.write
              /\ t.currentUid = s.currentUid /\ t.settings = s.settings
              /\ Listed(t) = Listed(s) /\ \A u : Committed(t, u) <=> Committed(s, u)
BY DEF StoreRec, Listed, Committed

\* The file of the generation that runs is on disk, or is not.
LEMMA SnapshotMade ==
    ASSUME IInv, RuntimeRunning(store), NEW next \in RuntimeRec, next.stage # "idle",
           next.path = store.runtime.path, next.failed => next.stage = "done", NEW d,
           \/ /\ d.snapshots \subseteq handed \cup leftover
           \/ /\ next.stage \in {"written", "done"} /\ ~next.failed
              /\ d.snapshots \subseteq handed \cup leftover \cup {next.path}
    PROVE  SnapshotsKept([store EXCEPT !.runtime = next], d, handed, leftover, runs)
<1> DEFINE t == [store EXCEPT !.runtime = next]
<1>1. t.runtime = next
  BY StoreIsOrderly, GeneratorParts
<1> HIDE DEF t
<1>2. RuntimeRunning(t)
  BY <1>1 DEF RuntimeRunning
<1>3. /\ runs \in 0 .. MaxRuns /\ next.path \in 0 .. runs /\ next.path # 0
      /\ handed \cup leftover \subseteq 1 .. runs
  BY DEF IInv, SnapshotsKept
<1>4. next.path \in 1 .. runs
  BY <1>3, BoundsAssumption
<1>5. d.snapshots \subseteq 1 .. runs
  BY <1>3, <1>4
<1>6. SnapshotsKept(t, d, handed, leftover, runs)
  BY <1>1, <1>2, <1>3, <1>5 DEF SnapshotsKept
<1> QED
  BY <1>6 DEF t

\* An event of the generator that leaves the disk alone.
LEMMA RuntimeStepHolds ==
    ASSUME IInv, RuntimeRunning(store), NEW next \in RuntimeRec, RuntimeStep(next),
           next.stage # "idle", next.path = store.runtime.path,
           next.failed => next.stage = "done",
           \/ disk.snapshots \subseteq handed \cup leftover
           \/ /\ next.stage \in {"written", "done"} /\ ~next.failed
              /\ disk.snapshots \subseteq handed \cup leftover \cup {next.path},
           RuntimeKept([store EXCEPT !.runtime = next], disk, tainted)
    PROVE  IInv'
<1>1. /\ store' = [store EXCEPT !.runtime = next] /\ disk' = disk
      /\ UNCHANGED <<used, calls, runs, saveFailures>> /\ UNCHANGED Ghosts
  BY DEF RuntimeStep, Event, NoSave
<1>2. SnapshotsKept([store EXCEPT !.runtime = next], disk, handed, leftover, runs)
  BY SnapshotMade
<1>3. disk \in DiskRec
  BY DEF IInv, Ranged
<1> QED
  BY <1>1, <1>2, <1>3, GeneratorStep

\* What the generation that runs has on disk.
LEMMA RunningSnapshot ==
    ASSUME IInv, RuntimeRunning(store)
    PROVE  /\ store.runtime \in RuntimeRec /\ disk \in DiskRec /\ store \in StoreRec
           /\ disk.snapshots \subseteq handed \cup leftover \cup {store.runtime.path}
           /\ store.runtime.failed => store.runtime.stage = "done"
           /\ (store.runtime.stage \notin {"written", "done"} \/ store.runtime.failed) =>
                  disk.snapshots \subseteq handed \cup leftover
BY StoreIsOrderly, StoreParts DEF IInv, Ranged, SnapshotsKept

LEMMA GivesUpHolds ==
    ASSUME IInv, store.runtime.stage \in {"reading", "read"}, RuntimeGivesUp
    PROVE  IInv'
<1> DEFINE next == [store.runtime EXCEPT !.stage = "done", !.failed = TRUE]
<1>1. RuntimeRunning(store)
  BY DEF RuntimeRunning
<1>2. store.runtime \in RuntimeRec /\ store \in StoreRec /\ disk.snapshots \subseteq handed \cup leftover
  BY <1>1, RunningSnapshot
<1>3. /\ next \in RuntimeRec /\ next.stage = "done" /\ next.failed /\ next.path = store.runtime.path
      /\ next.uid = store.runtime.uid /\ next.settings = store.runtime.settings
      /\ next.cancelled = store.runtime.cancelled
  BY <1>2 DEF RuntimeRec
<1>4. RuntimeStep(next)
  BY DEF RuntimeGivesUp
<1> HIDE DEF next
<1> DEFINE t == [store EXCEPT !.runtime = next]
<1>5. /\ t.runtime = next /\ t.currentUid = store.currentUid /\ t.settings = store.settings
      /\ Listed(t) = Listed(store)
  BY <1>2, <1>3, GeneratorParts
<1> HIDE DEF t
<1>6. RuntimeKept(t, disk, tainted)
  BY <1>1, <1>3, <1>5 DEF IInv, RuntimeKept
<1> QED
  BY <1>1, <1>2, <1>3, <1>4, <1>6, RuntimeStepHolds DEF t

LEMMA ReadProfileHolds ==
    ASSUME IInv, ReadProfile
    PROVE  IInv'
<1> DEFINE c == disk.file[store.runtime.uid]
           next == [store.runtime EXCEPT !.stage = "read", !.content = c]
<1>1. store.runtime.stage = "reading" /\ RuntimeRunning(store)
  BY DEF ReadProfile, RuntimeIs, RuntimeRunning
<1>2. CASE RuntimeGivesUp
  BY <1>1, <1>2, GivesUpHolds
<1>3. CASE ~store.runtime.cancelled /\ RuntimeStep(next)
  <2>1. /\ store.runtime \in RuntimeRec /\ store \in StoreRec /\ disk \in DiskRec
        /\ disk.snapshots \subseteq handed \cup leftover /\ ~store.runtime.failed
    BY <1>1, RunningSnapshot DEF RuntimeRec
  <2>2. /\ store.runtime.uid = store.currentUid /\ store.runtime.uid \in Listed(store)
        /\ store.runtime.settings = store.settings
    BY <1>1, <1>3 DEF IInv, RuntimeKept
  <2>3. store.runtime.uid \in Uids
    BY <2>1, <2>2 DEF StoreRec, Listed
  <2>4. c \in MaybeContents
    BY <2>1, <2>3 DEF DiskRec
  <2>5. c = disk.file[store.runtime.uid]
    OBVIOUS
  <2> HIDE DEF c
  <2>6. /\ next \in RuntimeRec /\ next.stage = "read" /\ next.path = store.runtime.path
        /\ next.uid = store.runtime.uid /\ next.settings = store.runtime.settings
        /\ next.content = c /\ ~next.failed
    BY <1>1, <2>1, <2>4 DEF RuntimeRec
  <2> HIDE DEF next
  <2> DEFINE t == [store EXCEPT !.runtime = next]
  <2>7. /\ t.runtime = next /\ t.currentUid = store.currentUid /\ t.settings = store.settings
        /\ Listed(t) = Listed(store)
    BY <2>1, <2>6, GeneratorParts
  <2> HIDE DEF t
  <2>8. RuntimeKept(t, disk, tainted)
    BY <2>2, <2>5, <2>6, <2>7 DEF RuntimeKept
  <2> QED
    BY <1>1, <1>3, <2>1, <2>6, <2>8, RuntimeStepHolds DEF t
<1> QED
  BY <1>2, <1>3 DEF ReadProfile

\* The generation goes on with what it read; its file is written or removed.
LEMMA SnapshotStepHolds ==
    ASSUME IInv, store.runtime.stage \in {"read", "written"}, NEW next \in RuntimeRec,
           next.stage \in {"written", "done"}, next.path = store.runtime.path,
           next.uid = store.runtime.uid, next.settings = store.runtime.settings,
           next.cancelled = store.runtime.cancelled, next.content = store.runtime.content,
           next.failed => next.stage = "done",
           store' = [store EXCEPT !.runtime = next],
           disk' \in DiskRec, disk'.index = disk.index, disk'.file = disk.file,
           \/ disk'.snapshots \subseteq handed \cup leftover
           \/ ~next.failed /\ disk'.snapshots \subseteq handed \cup leftover \cup {next.path},
           UNCHANGED <<used, calls, runs, saveFailures>>, UNCHANGED Ghosts
    PROVE  IInv'
<1> DEFINE t == [store EXCEPT !.runtime = next]
<1>1. RuntimeRunning(store) /\ store \in StoreRec /\ next.stage # "idle"
  BY StoreIsOrderly DEF RuntimeRunning
<1>2. /\ t.runtime = next /\ t.currentUid = store.currentUid /\ t.settings = store.settings
      /\ Listed(t) = Listed(store) /\ \A u : Committed(t, u) <=> Committed(store, u)
  BY <1>1, GeneratorParts
<1>3. SnapshotsKept(t, disk', handed, leftover, runs)
  <2> DEFINE d == disk'
  <2>1. \/ d.snapshots \subseteq handed \cup leftover
        \/ /\ next.stage \in {"written", "done"} /\ ~next.failed
           /\ d.snapshots \subseteq handed \cup leftover \cup {next.path}
    OBVIOUS
  <2> HIDE DEF d
  <2>2. SnapshotsKept(t, d, handed, leftover, runs)
    BY <1>1, <2>1, SnapshotMade
  <2> QED
    BY <2>2 DEF d
<1>4. store' = t
  OBVIOUS
<1> HIDE DEF t
<1>5. RuntimeKept(t, disk, tainted)
  <2>1. ~store.runtime.failed /\ RuntimeKept(store, disk, tainted)
    BY <1>1, RunningSnapshot DEF IInv
  <2> QED
    BY <1>1, <1>2, <2>1 DEF RuntimeKept
<1> QED
  BY <1>1, <1>3, <1>4, <1>5, GeneratorStep DEF t

LEMMA WriteRuntimeHolds ==
    ASSUME IInv, WriteRuntime
    PROVE  IInv'
<1> DEFINE r == store.runtime
           next == [r EXCEPT !.stage = "written"]
           d == [disk EXCEPT !.snapshots = @ \cup {r.path}]
<1>1. r.stage = "read" /\ RuntimeRunning(store)
  BY DEF WriteRuntime, RuntimeIs, RuntimeRunning
<1>2. CASE RuntimeGivesUp
  BY <1>1, <1>2, GivesUpHolds
<1>3. CASE /\ ~r.cancelled /\ store' = [store EXCEPT !.runtime = next] /\ disk' = d
           /\ UNCHANGED <<used, calls, runs, saveFailures>> /\ UNCHANGED Ghosts
  <2>1. /\ r \in RuntimeRec /\ disk \in DiskRec /\ disk.snapshots \subseteq handed \cup leftover
        /\ ~r.failed
    BY <1>1, RunningSnapshot
  <2>2. /\ next \in RuntimeRec /\ next.stage = "written" /\ next.path = r.path
        /\ next.uid = r.uid /\ next.settings = r.settings /\ ~next.failed
        /\ next.cancelled = r.cancelled /\ next.content = r.content
    BY <2>1 DEF RuntimeRec
  <2>3. r.path \in 1 .. MaxRuns
    BY <1>1, BoundsAssumption DEF IInv, SnapshotsKept
  <2>4. /\ d \in DiskRec /\ d.index = disk.index /\ d.file = disk.file
        /\ d.snapshots = disk.snapshots \cup {r.path}
    BY <2>1, <2>3 DEF DiskRec
  <2> HIDE DEF next, d
  <2> QED
    BY <1>1, <1>3, <2>1, <2>2, <2>4, SnapshotStepHolds
<1> QED
  BY <1>2, <1>3 DEF WriteRuntime

LEMMA WritePreviewHolds ==
    ASSUME IInv, WritePreview
    PROVE  IInv'
<1> DEFINE r == store.runtime
           next == [r EXCEPT !.stage = "done"]
           none == [r EXCEPT !.stage = "done", !.failed = TRUE]
           d == [disk EXCEPT !.snapshots = @ \ {r.path}]
<1>1. r.stage = "written" /\ RuntimeRunning(store)
  BY DEF WritePreview, RuntimeIs, RuntimeRunning
<1>2. /\ r \in RuntimeRec /\ disk \in DiskRec /\ ~r.failed
      /\ disk.snapshots \subseteq handed \cup leftover \cup {r.path}
  BY <1>1, RunningSnapshot
<1>3. CASE ~r.cancelled /\ RuntimeStep(next)
  <2>1. /\ next \in RuntimeRec /\ next.stage = "done" /\ next.path = r.path
        /\ next.uid = r.uid /\ next.settings = r.settings /\ ~next.failed
        /\ next.cancelled = r.cancelled /\ next.content = r.content
    BY <1>2 DEF RuntimeRec
  <2>2. /\ store' = [store EXCEPT !.runtime = next] /\ disk' = disk
        /\ UNCHANGED <<used, calls, runs, saveFailures>> /\ UNCHANGED Ghosts
    BY <1>3 DEF RuntimeStep, Event, NoSave
  <2> HIDE DEF next
  <2> QED
    BY <1>1, <1>2, <2>1, <2>2, SnapshotStepHolds
<1>4. CASE /\ store' = [store EXCEPT !.runtime = none] /\ disk' = d
           /\ UNCHANGED <<used, calls, runs, saveFailures>> /\ UNCHANGED Ghosts
  <2>1. /\ none \in RuntimeRec /\ none.stage = "done" /\ none.path = r.path
        /\ none.uid = r.uid /\ none.settings = r.settings /\ none.failed
        /\ none.cancelled = r.cancelled /\ none.content = r.content
    BY <1>2 DEF RuntimeRec
  <2>2. /\ d \in DiskRec /\ d.index = disk.index /\ d.file = disk.file
        /\ d.snapshots = disk.snapshots \ {r.path}
    BY <1>2 DEF DiskRec
  <2> HIDE DEF none, d
  <2> QED
    BY <1>1, <1>2, <1>4, <2>1, <2>2, SnapshotStepHolds
<1>5. [store EXCEPT !.runtime.stage = "done", !.runtime.failed = TRUE] = [store EXCEPT !.runtime = none]
  BY <1>2, StoreIsOrderly DEF StoreRec, RuntimeRec
<1> QED
  BY <1>3, <1>4, <1>5 DEF WritePreview

LEMMA FinishRuntimeHolds ==
    ASSUME IInv, NEW saved \in BOOLEAN, FinishRuntime(saved)
    PROVE  IInv'
<1> DEFINE r == store.runtime
           free == [store EXCEPT !.runtime = NoRuntime]
           kept == IF ~r.failed /\ ~Delivers THEN [disk EXCEPT !.snapshots = @ \ {r.path}] ELSE disk
           t == [free EXCEPT !.shown = IsFileBusy(free)]
<1>1. /\ r.stage = "done" /\ RuntimeRunning(store)
      /\ handed' = (IF Delivers THEN handed \cup {r.path} ELSE handed)
      /\ IF store.runtimeRequested /\ ~store.maintenance
         THEN Generate(free, kept, runs, saved)
         ELSE saved /\ store' = t /\ disk' = kept /\ UNCHANGED saveFailures
      /\ UNCHANGED <<used, calls, runs, leftover, confirmed, tainted, lost, crashes>>
  BY DEF FinishRuntime, RuntimeIs, RuntimeRunning
<1>2. /\ r \in RuntimeRec /\ disk \in DiskRec /\ store \in StoreRec
      /\ disk.snapshots \subseteq handed \cup leftover \cup {r.path}
      /\ r.failed => disk.snapshots \subseteq handed \cup leftover
  BY <1>1, RunningSnapshot
<1>3. /\ runs \in 0 .. MaxRuns /\ r.path \in 1 .. runs /\ runs \in 1 .. runs
      /\ disk.snapshots \cup handed \cup leftover \subseteq 1 .. runs
  BY <1>1, BoundsAssumption DEF IInv, SnapshotsKept
<1>4. /\ kept \in DiskRec /\ kept.index = disk.index /\ kept.file = disk.file
      /\ kept.snapshots = IF ~r.failed /\ ~Delivers THEN disk.snapshots \ {r.path} ELSE disk.snapshots
  BY <1>2 DEF DiskRec
<1>5. kept.snapshots \subseteq handed' \cup leftover /\ kept.snapshots \cup handed' \cup leftover \subseteq 1 .. runs
  BY <1>1, <1>2, <1>3, <1>4
<1> HIDE DEF kept
<1>6. /\ free \in StoreRec /\ free.profiles = store.profiles /\ free.write = store.write
      /\ free.fileQueue = store.fileQueue /\ free.owed = store.owed
      /\ free.maintenance = store.maintenance /\ free.runtime = NoRuntime
      /\ free.runtimeRequested = store.runtimeRequested
  BY <1>2 DEF StoreRec, NoRuntime, RuntimeRec, MaybeContents
<1> HIDE DEF free
<1>7. CASE store.runtimeRequested /\ ~store.maintenance
  BY <1>1, <1>3, <1>4, <1>5, <1>6, <1>7, GenerateHolds
<1>8. CASE ~(store.runtimeRequested /\ ~store.maintenance)
  <2>1. ~store.runtimeRequested
    BY <1>8, StoreIsOrderly DEF Orderly
  <2>2. IsFileBusy(free) \in BOOLEAN
    BY DEF IsFileBusy, FileRunning, RuntimeRunning
  <2>3. /\ t \in StoreRec /\ t.profiles = store.profiles /\ t.write = store.write
        /\ t.fileQueue = store.fileQueue /\ t.owed = store.owed
        /\ t.maintenance = store.maintenance /\ t.runtime = NoRuntime
        /\ t.runtimeRequested = store.runtimeRequested /\ t.shown = IsFileBusy(free)
    BY <1>6, <2>2 DEF StoreRec
  <2>4. store' = t /\ disk' = kept /\ UNCHANGED saveFailures
    BY <1>1, <1>8
  <2> HIDE DEF t
  <2>5. IsFileBusy(t) = IsFileBusy(free)
    BY <1>6, <2>3 DEF IsFileBusy, FileRunning, RuntimeRunning
  <2>6. StoreKept(t) /\ RequestsKept(t, disk, used) /\ FilesKept(t, disk, lost, tainted)
    BY <2>1, <2>3, <2>5, BesideRuntime DEF IInv
  <2>7. RequestsKept(t, kept, used) /\ FilesKept(t, kept, lost, tainted)
    BY <1>4, <2>6 DEF RequestsKept, Proper, FilesKept
  <2>8. ~RuntimeRunning(t) /\ t.runtime.path = 0 /\ ~t.runtime.failed
    BY <2>3 DEF RuntimeRunning, NoRuntime
  <2>9. SnapshotsKept(t, kept, handed', leftover, runs)
    BY <1>3, <1>5, <2>8 DEF SnapshotsKept
  <2>10. RuntimeKept(t, kept, tainted)
    BY <2>8 DEF RuntimeKept
  <2> QED
    BY <1>1, <1>4, <2>4, <2>6, <2>7, <2>9, <2>10 DEF IInv, Ranged
<1> QED
  BY <1>7, <1>8

LEMMA GenerateRuntimeConfigHolds ==
    ASSUME IInv, NEW saved \in BOOLEAN, GenerateRuntimeConfig(saved)
    PROVE  IInv'
<1> DEFINE s == CancelRuntimeGeneration(store)
           secret == s.secret \/ MakesSecret(s)
           made == [s EXCEPT !.secret = secret]
           built == /\ s.currentUid \in Listed(s) /\ (MakesSecret(s) => saved)
                    /\ disk.file[s.currentUid] # Nothing
           d == IF built THEN [disk EXCEPT !.snapshots = @ \cup {runs'}] ELSE disk
<1>1. /\ AcceptsChanges(store) /\ runs < MaxRuns /\ runs' = runs + 1
      /\ store' = made /\ handed' = (IF built THEN handed \cup {runs'} ELSE handed)
      /\ IF MakesSecret(s) THEN Save(made, d, saved)
                           ELSE saved /\ disk' = d /\ UNCHANGED saveFailures
      /\ UNCHANGED <<used, calls, leftover, confirmed, tainted, lost, crashes>>
  BY DEF GenerateRuntimeConfig, Requested
<1>2. Calm(store, s) /\ s \in StoreRec /\ secret \in BOOLEAN
  BY StoreIsOrderly, RuntimeCancelledIsCalm DEF Calm, MakesSecret, StoreRec
<1> HIDE DEF s, secret
<1>3. /\ made \in StoreRec /\ made.profiles = s.profiles /\ made.shown = s.shown
      /\ made.write = s.write /\ made.fileQueue = s.fileQueue /\ made.owed = s.owed
      /\ made.runtime = s.runtime /\ made.runtimeRequested = s.runtimeRequested
      /\ made.maintenance = s.maintenance /\ made.currentUid = s.currentUid
      /\ made.settings = s.settings
  BY <1>2 DEF StoreRec
<1> HIDE DEF made
<1>4. Calm(store, made)
  BY <1>2, <1>3, StoreIsOrderly, OthersChange
<1>5. StoreKept(made) /\ Distinct(made) /\ Listed(made) = Listed(store)
  BY <1>4, CalmKeepsStore DEF IInv, StoreKept, Orderly, Calm, Listed
<1>6. /\ disk \in DiskRec /\ Distinct(disk.index) /\ saveFailures \in 0 .. MaxSaveFailures
      /\ runs \in 0 .. MaxRuns /\ store.runtime.path \in 0 .. runs
      /\ disk.snapshots \cup handed \cup leftover \subseteq 1 .. runs
  BY DEF IInv, Ranged, SnapshotsKept
<1>7. /\ runs' \in 0 .. MaxRuns /\ runs' \in 1 .. MaxRuns /\ runs' \in 1 .. runs'
      /\ 1 .. runs \subseteq 1 .. runs' /\ 0 .. runs \subseteq 0 .. runs'
  BY <1>1, <1>6, BoundsAssumption
<1>8. /\ d \in DiskRec /\ d.index = disk.index /\ d.file = disk.file
      /\ d.snapshots = IF built THEN disk.snapshots \cup {runs'} ELSE disk.snapshots
  BY <1>6, <1>7 DEF DiskRec
<1> HIDE DEF d, built
<1>9. /\ disk' \in DiskRec /\ Distinct(disk'.index) /\ disk'.file = disk.file
      /\ disk'.snapshots = d.snapshots /\ saveFailures' \in 0 .. MaxSaveFailures
      /\ Listed(disk'.index) = Listed(disk.index) \/ Listed(disk'.index) = Listed(made)
  <2>1. CASE MakesSecret(s)
    BY <1>1, <1>3, <1>5, <1>6, <1>8, <2>1, SaveIsOfIndex
  <2>2. CASE ~MakesSecret(s)
    BY <1>1, <1>6, <1>8, <2>2
  <2> QED
    BY <2>1, <2>2
<1>10. RequestsKept(made, disk', used)
  BY <1>4, <1>5, <1>9, RequestsFrame DEF IInv, Calm
<1>11. FilesKept(made, disk', lost, tainted)
  BY <1>4, <1>5, <1>9, FilesFrame DEF IInv, Calm
<1>12. SnapshotsKept(made, disk', handed', leftover, runs')
  <2>1. /\ made.runtime.stage = store.runtime.stage /\ made.runtime.path = store.runtime.path
        /\ made.runtime.failed = store.runtime.failed
    BY <1>4 DEF Calm
  <2>2. SnapshotsKept(made, disk, handed, leftover, runs)
    BY <2>1, SnapshotsFrame DEF IInv
  <2> QED
    BY <1>1, <1>6, <1>7, <1>8, <1>9, <2>2 DEF SnapshotsKept
<1>13. RuntimeKept(made, disk', tainted)
  BY <1>4, <1>5, <1>9, RuntimeFrame DEF IInv, Calm, Committed
<1> QED
  BY <1>1, <1>5, <1>9, <1>10, <1>11, <1>12, <1>13 DEF IInv, Ranged

-----------------------------------------------------------------------------
(* Loading *)

LEMMA NewStoreKept ==
    ASSUME NEW index \in IndexRec, Distinct(index)
    PROVE  LET s == NewStore(index)
           IN /\ StoreKept(s) /\ s \in StoreRec /\ s.profiles = index.profiles
              /\ s.write = NoWrite /\ s.runtime = NoRuntime /\ s.fileQueue = <<>>
              /\ s.runtimeRequested = FALSE /\ ~FileRunning(s) /\ ~RuntimeRunning(s)
<1> DEFINE s == NewStore(index)
<1>1. /\ NoWrite \in WriteRec /\ NoRuntime \in RuntimeRec
      /\ NoWrite.stage = "idle" /\ NoRuntime.stage = "idle"
  BY DEF NoWrite, WriteRec, RequestRec, Kind, MaybeContents, MaybeUrl, NoRuntime, RuntimeRec
<1>2. /\ <<>> \in Seq(RequestRec) /\ [u \in Uids |-> Nothing] \in [Uids -> MaybeUrl]
      /\ [u \in Uids |-> 0] \in [Uids -> Nat]
  BY DEF MaybeUrl
<1>3. /\ s \in StoreRec /\ s.profiles = index.profiles
      /\ s.write = NoWrite /\ s.runtime = NoRuntime /\ s.fileQueue = <<>>
      /\ s.runtimeRequested = FALSE /\ s.shown = FALSE /\ s.owed = [u \in Uids |-> 0]
  BY <1>1, <1>2 DEF NewStore, StoreRec, IndexRec
<1> HIDE DEF s
<1>4. ~FileRunning(s) /\ ~RuntimeRunning(s) /\ ~IsFileBusy(s) /\ Distinct(s)
  BY <1>1, <1>3 DEF FileRunning, RuntimeRunning, IsFileBusy, Distinct
<1>5. Accounted(s)
  BY <1>3, <1>4, NoSaves DEF Accounted
<1>6. IsFileBusy(s) = FALSE
  BY <1>4 DEF IsFileBusy
<1>7. Orderly(s)
  <2>1. DOMAIN s.fileQueue = {}
    BY <1>3
  <2> QED
    BY <1>3, <1>4, <1>5, <2>1 DEF Orderly
<1>8. StoreKept(s)
  BY <1>3, <1>6, <1>7 DEF StoreKept
<1> QED
  BY <1>3, <1>4, <1>8 DEF s

LEMMA LoadedStore ==
    ASSUME NEW s, StoreKept(s), NEW index \in IndexRec, Distinct(index)
    PROVE  LET t == Loaded(s, index)
           IN /\ StoreKept(t) /\ t \in StoreRec /\ Listed(t) = Listed(index) /\ t.fileQueue = <<>>
              /\ t.write.request = s.write.request /\ t.write.stage = s.write.stage
              /\ FileRunning(s) => t.write.cancelled
              /\ RuntimeRunning(s) => t.runtime.cancelled
              /\ t.runtime.stage = s.runtime.stage /\ t.runtime.path = s.runtime.path
              /\ t.runtime.failed = s.runtime.failed
<1> DEFINE m == CancelEverything(s)
           listed == {index.profiles[i] : i \in DOMAIN index.profiles}
           current == IF index.currentUid \in listed THEN index.currentUid ELSE FirstOf(index.profiles)
           setting == Toggled(m.settings)
           t == [m EXCEPT !.profiles = index.profiles, !.url = index.url, !.secret = index.secret,
                          !.currentUid = current, !.settings = setting]
<1>1. /\ Calm(s, m) /\ Orderly(m) /\ m.fileQueue = <<>> /\ ~m.runtimeRequested
      /\ m.runtime.cancelled = RuntimeRunning(s) /\ m.write.cancelled = FileRunning(s)
  BY EverythingCancelled DEF StoreKept
<1>2. t = Loaded(s, index)
  BY DEF Loaded
<1> HIDE DEF m
<1>3. m \in StoreRec /\ setting \in {0, 1}
  BY <1>1, ToggledIsSetting DEF Orderly, StoreRec
<1>4. /\ index.profiles \in Seq(Uids) /\ index.url \in [Uids -> MaybeUrl] /\ index.secret \in BOOLEAN
      /\ current \in Uids \cup {Nothing}
  BY DEF IndexRec, FirstOf
<1> HIDE DEF current, setting
<1>5. /\ t \in StoreRec /\ t.profiles = index.profiles /\ t.shown = m.shown /\ t.write = m.write
      /\ t.fileQueue = m.fileQueue /\ t.owed = m.owed /\ t.runtime = m.runtime
      /\ t.runtimeRequested = m.runtimeRequested /\ t.maintenance = m.maintenance
  BY <1>3, <1>4 DEF StoreRec
<1> HIDE DEF t
<1>6. /\ Listed(t) = Listed(index) /\ Distinct(t) /\ FileRunning(t) = FileRunning(m)
      /\ IsFileBusy(t) = IsFileBusy(m)
  BY <1>5 DEF Listed, Distinct, FileRunning, IsFileBusy, RuntimeRunning
<1>7. Accounted(t)
  BY <1>1, <1>5, <1>6 DEF Orderly, Accounted
<1>8. m.shown = IsFileBusy(m)
  BY <1>1, CalmKeepsStore DEF StoreKept
<1>9. StoreKept(t)
  BY <1>1, <1>5, <1>6, <1>7, <1>8 DEF StoreKept, Orderly
<1> QED
  BY <1>1, <1>2, <1>5, <1>6, <1>9 DEF Calm

LEMMA LoadHolds ==
    ASSUME IInv, Load
    PROVE  IInv'
<1> DEFINE t == Loaded(store, disk.index)
<1>1. /\ store' = t /\ Called /\ UNCHANGED <<disk, saveFailures>>
      /\ UNCHANGED <<used, runs>> /\ UNCHANGED Ghosts
  BY DEF Load, CallOnly, NoSave
<1>2. disk \in DiskRec /\ disk.index \in IndexRec /\ Distinct(disk.index)
  BY DEF IInv, Ranged, DiskRec
<1>3. /\ StoreKept(t) /\ Listed(t) = Listed(disk.index) /\ t.fileQueue = <<>>
      /\ t.write.request = store.write.request /\ t.write.stage = store.write.stage
      /\ FileRunning(store) => t.write.cancelled
      /\ RuntimeRunning(store) => t.runtime.cancelled
      /\ t.runtime.stage = store.runtime.stage /\ t.runtime.path = store.runtime.path
      /\ t.runtime.failed = store.runtime.failed
  BY <1>2, LoadedStore DEF IInv
<1> HIDE DEF t
<1>4. RequestsKept(t, disk, used)
  BY <1>3, RequestsFrame DEF IInv
<1>5. FilesKept(t, disk, lost, tainted)
  <2>1. \A v : Committed(t, v) <=> Committed(store, v)
    BY <1>3 DEF Committed
  <2> QED
    BY <1>3, <2>1 DEF IInv, FilesKept, FileRunning
<1>6. SnapshotsKept(t, disk, handed, leftover, runs)
  BY <1>3, SnapshotsFrame DEF IInv
<1>7. RuntimeKept(t, disk, tainted)
  BY <1>3 DEF RuntimeKept, RuntimeRunning
<1> QED
  BY <1>1, <1>3, <1>4, <1>5, <1>6, <1>7, CalledCounts DEF IInv, Ranged, Ghosts

\* The backup and the first installation hold one profile, with its file.
LEMMA FirstIsWhole ==
    /\ FirstIndex \in IndexRec /\ Distinct(FirstIndex) /\ Listed(FirstIndex) = {FirstUid}
    /\ FirstFiles \in [Uids -> MaybeContents]
    /\ \A u \in Uids : FirstFiles[u] # Nothing <=> u = FirstUid
<1>1. <<FirstUid>> \in Seq(Uids) /\ FirstIndex.profiles = <<FirstUid>>
  BY FirstAssumption DEF FirstIndex
<1>2. FirstIndex \in IndexRec
  BY <1>1, FirstAssumption DEF FirstIndex, IndexRec, MaybeUrl
<1>3. Distinct(FirstIndex) /\ Listed(FirstIndex) = {FirstUid}
  BY <1>1 DEF Distinct, Listed
<1>4. /\ FirstFiles \in [Uids -> MaybeContents]
      /\ \A u \in Uids : FirstFiles[u] # Nothing <=> u = FirstUid
  BY FirstAssumption, NothingAssumption DEF FirstFiles, MaybeContents, Contents
<1> QED
  BY <1>2, <1>3, <1>4

\* A store at rest, of an index that the disk holds, with nothing lost.
LEMMA RestIsWhole ==
    ASSUME NEW t, StoreKept(t), ~FileRunning(t), ~RuntimeRunning(t), t.fileQueue = <<>>,
           NEW d, Listed(t) = Listed(FirstIndex), d.index = FirstIndex, d.file = FirstFiles,
           NEW g, FirstUid \in g
    PROVE  /\ RequestsKept(t, d, g) /\ FilesKept(t, d, {}, {}) /\ RuntimeKept(t, d, {})
<1>1. RequestsKept(t, d, g)
  BY FirstIsWhole DEF RequestsKept
<1>2. FilesKept(t, d, {}, {})
  BY FirstIsWhole DEF FilesKept, FileRunning
<1>3. RuntimeKept(t, d, {})
  BY DEF RuntimeKept
<1> QED
  BY <1>1, <1>2, <1>3

LEMMA RestoreBackupHolds ==
    ASSUME IInv, RestoreBackup
    PROVE  IInv'
<1> DEFINE t == Loaded(store, FirstIndex)
           d == [disk EXCEPT !.index = FirstIndex, !.file = FirstFiles]
<1>1. /\ ~FileRunning(store) /\ ~RuntimeRunning(store) /\ Called /\ store' = t /\ disk' = d
      /\ confirmed' = [u \in Uids |-> Nothing] /\ tainted' = {} /\ lost' = {}
      /\ UNCHANGED <<used, runs, saveFailures, handed, leftover, crashes>>
  BY DEF RestoreBackup, IsFileBusy
<1>2. /\ StoreKept(t) /\ Listed(t) = Listed(FirstIndex) /\ t.fileQueue = <<>>
      /\ t.write.stage = store.write.stage
      /\ t.runtime.stage = store.runtime.stage /\ t.runtime.path = store.runtime.path
      /\ t.runtime.failed = store.runtime.failed
  BY FirstIsWhole, LoadedStore DEF IInv
<1> HIDE DEF t
<1>3. ~FileRunning(t) /\ ~RuntimeRunning(t)
  BY <1>1, <1>2 DEF FileRunning, RuntimeRunning
<1>4. disk \in DiskRec
  BY DEF IInv, Ranged
<1>5. /\ d \in DiskRec /\ d.index = FirstIndex /\ d.file = FirstFiles
      /\ d.snapshots = disk.snapshots
  BY <1>4, FirstIsWhole DEF DiskRec
<1> HIDE DEF d
<1>6. FirstUid \in used
  BY DEF IInv, RequestsKept
<1>7. RequestsKept(t, d, used) /\ FilesKept(t, d, {}, {}) /\ RuntimeKept(t, d, {})
  BY <1>2, <1>3, <1>5, <1>6, RestIsWhole
<1>8. SnapshotsKept(t, d, handed, leftover, runs)
  BY <1>2, <1>5, SnapshotsFrame DEF IInv
<1>9. Ranged'
  BY <1>1, <1>5, FirstIsWhole, CalledCounts DEF IInv, Ranged, MaybeContents
<1> QED
  BY <1>1, <1>2, <1>7, <1>8, <1>9 DEF IInv

LEMMA CrashHolds ==
    ASSUME IInv, Crash
    PROVE  IInv'
<1> DEFINE s == NewStore(disk.index)
           m == Loaded(s, disk.index)
           t == [m EXCEPT !.settings = 0]
<1>1. /\ crashes < MaxCrashes /\ crashes' = crashes + 1 /\ store' = t
      /\ handed' = {} /\ leftover' = disk.snapshots
      /\ lost' = IF FileRunning(store) THEN lost \cup {store.write.request.uid} ELSE lost
      /\ UNCHANGED <<disk, used, confirmed, tainted, calls, runs, saveFailures>>
  BY DEF Crash
<1>2. disk \in DiskRec /\ disk.index \in IndexRec /\ Distinct(disk.index)
  BY DEF IInv, Ranged, DiskRec
<1>3. /\ StoreKept(s) /\ s.runtime = NoRuntime /\ ~FileRunning(s) /\ ~RuntimeRunning(s)
  BY <1>2, NewStoreKept
<1> HIDE DEF s
<1>4. /\ StoreKept(m) /\ m \in StoreRec /\ Listed(m) = Listed(disk.index) /\ m.fileQueue = <<>>
      /\ m.write.stage = s.write.stage /\ m.runtime.stage = s.runtime.stage
      /\ m.runtime.path = s.runtime.path /\ m.runtime.failed = s.runtime.failed
  BY <1>2, <1>3, LoadedStore
<1> HIDE DEF m
<1>5. ~FileRunning(m) /\ ~RuntimeRunning(m) /\ m.runtime.path = 0 /\ ~m.runtime.failed
  BY <1>3, <1>4 DEF FileRunning, RuntimeRunning, NoRuntime
<1>6. /\ t \in StoreRec /\ t.profiles = m.profiles /\ t.shown = m.shown /\ t.write = m.write
      /\ t.fileQueue = m.fileQueue /\ t.owed = m.owed /\ t.runtime = m.runtime
      /\ t.runtimeRequested = m.runtimeRequested /\ t.maintenance = m.maintenance
  BY <1>4 DEF StoreRec
<1> HIDE DEF t
<1>7. /\ Listed(t) = Listed(disk.index) /\ Distinct(t) /\ ~FileRunning(t) /\ ~RuntimeRunning(t)
      /\ IsFileBusy(t) = IsFileBusy(m)
  <2>1. Listed(t) = Listed(disk.index)
    BY <1>4, <1>6 DEF Listed
  <2>2. Distinct(t)
    BY <1>4, <1>6 DEF Distinct, StoreKept, Orderly
  <2>3. /\ ~FileRunning(t) /\ ~RuntimeRunning(t) /\ IsFileBusy(t) = IsFileBusy(m)
    BY <1>5, <1>6 DEF FileRunning, IsFileBusy, RuntimeRunning
  <2> QED
    BY <2>1, <2>2, <2>3
<1>8. Accounted(t)
  BY <1>4, <1>5, <1>6, <1>7 DEF StoreKept, Orderly, Accounted
<1>9. StoreKept(t)
  BY <1>4, <1>5, <1>6, <1>7, <1>8 DEF StoreKept, Orderly
<1>10. RequestsKept(t, disk, used)
  BY <1>4, <1>6, <1>7 DEF IInv, RequestsKept
<1>11. FilesKept(t, disk, lost', tainted)
  <2>1. \A v : Committed(store, v) => v \in lost'
    BY <1>1 DEF Committed, FileRunning
  <2>2. lost \subseteq lost'
    BY <1>1
  <2>3. t.write.stage # "committed"
    BY <1>7 DEF FileRunning
  <2> QED
    BY <1>7, <2>1, <2>2, <2>3 DEF IInv, FilesKept
<1>12. SnapshotsKept(t, disk, {}, disk.snapshots, runs)
  <2>1. runs \in 0 .. MaxRuns /\ disk.snapshots \subseteq 1 .. runs /\ 0 \in 0 .. runs
    BY BoundsAssumption DEF IInv, SnapshotsKept
  <2> QED
    BY <1>5, <1>6, <1>7, <2>1 DEF SnapshotsKept
<1>13. RuntimeKept(t, disk, tainted)
  BY <1>7 DEF RuntimeKept
<1>14. lost' \subseteq Uids /\ crashes' \in 0 .. MaxCrashes
  <2>1. FileRunning(store) => store.write.request.uid \in Uids
    BY DEF IInv, Ranged, RequestsKept, Proper
  <2> QED
    BY <1>1, <2>1, BoundsAssumption DEF IInv, Ranged
<1> QED
  BY <1>1, <1>9, <1>10, <1>11, <1>12, <1>13, <1>14 DEF IInv, Ranged

-----------------------------------------------------------------------------
(* The invariant holds *)

LEMMA InitHolds ==
    ASSUME Init
    PROVE  IInv
<1> DEFINE s == NewStore(FirstIndex)
<1>1. /\ store = s /\ disk = [index |-> FirstIndex, file |-> FirstFiles, snapshots |-> {}]
      /\ used = {FirstUid} /\ handed = {} /\ leftover = {} /\ tainted = {} /\ lost = {}
      /\ confirmed = [u \in Uids |-> Nothing]
      /\ calls = 0 /\ runs = 0 /\ saveFailures = 0 /\ crashes = 0
  BY DEF Init
<1>2. /\ StoreKept(s) /\ s.profiles = FirstIndex.profiles /\ s.runtime = NoRuntime
      /\ s.fileQueue = <<>> /\ ~FileRunning(s) /\ ~RuntimeRunning(s)
  BY FirstIsWhole, NewStoreKept
<1> HIDE DEF s
<1>3. Listed(s) = Listed(FirstIndex)
  BY <1>2 DEF Listed
<1>4. disk.index = FirstIndex /\ disk.file = FirstFiles /\ disk.snapshots = {}
  BY <1>1
<1>5. RequestsKept(s, disk, {FirstUid}) /\ FilesKept(s, disk, {}, {}) /\ RuntimeKept(s, disk, {})
  BY <1>2, <1>3, <1>4, RestIsWhole
<1>6. SnapshotsKept(s, disk, {}, {}, 0)
  <2>1. 0 \in 0 .. MaxRuns /\ 0 \in 0 .. 0
    BY BoundsAssumption
  <2>2. s.runtime.path = 0 /\ ~s.runtime.failed
    BY <1>2 DEF NoRuntime
  <2> QED
    BY <1>2, <1>4, <2>1, <2>2 DEF SnapshotsKept
<1>7. Ranged
  <2>1. disk \in DiskRec
    BY <1>1, FirstIsWhole DEF DiskRec
  <2> QED
    BY <1>1, <1>4, <2>1, FirstIsWhole, FirstAssumption, BoundsAssumption DEF Ranged, MaybeContents
<1> QED
  BY <1>1, <1>2, <1>5, <1>6, <1>7 DEF IInv

LEMMA NextHolds ==
    ASSUME IInv, Next
    PROVE  IInv'
<1>1. ASSUME NEW saved \in BOOLEAN, Commands(saved) PROVE IInv'
  <2>1. ASSUME NEW u \in Uids,
               \/ SelectProfile(u, saved) \/ RenameProfile(u, saved)
               \/ SetUpdateInterval(u, saved) \/ RemoveProfile(u, saved)
        PROVE  IInv'
    BY <2>1, SelectProfileHolds, RenameProfileHolds, SetUpdateIntervalHolds, RemoveProfileHolds
  <2>2. ASSUME NEW u \in Uids, NEW x \in Urls, SetSubscriptionUrl(u, x, saved) PROVE IInv'
    BY <2>2, SetSubscriptionUrlHolds
  <2>3. ASSUME NEW u \in Uids, NEW c \in Edits,
               CreateProfile(u, c, saved) \/ SaveProfileContent(u, c, saved)
        PROVE  IInv'
    BY <2>3, CreateProfileHolds, SaveProfileContentHolds
  <2>4. ASSUME RequestRuntimeConfig(saved) \/ GenerateRuntimeConfig(saved) PROVE IInv'
    BY <2>4, RequestRuntimeConfigHolds, GenerateRuntimeConfigHolds
  <2> QED
    BY <1>1, <2>1, <2>2, <2>3, <2>4 DEF Commands
<1>2. ASSUME QueuedCommands PROVE IInv'
  <2>1. ASSUME NEW u \in Uids, NEW c \in Edits,
               \/ \E kind \in {"Import", "Create"} : CreateProfileAsync(u, kind, c)
               \/ SaveProfileContentAsync(u, c)
        PROVE  IInv'
    BY <2>1, CreateProfileAsyncHolds, SaveProfileContentAsyncHolds
  <2> QED
    BY <1>2, <2>1, CancellationsHold, DownloadCallsHold DEF QueuedCommands
<1>3. ASSUME Network PROVE IInv'
  <2>1. ASSUME NEW x \in Urls, ImportFails(x) \/ \E u \in Uids : ImportAnswered(x, u)
        PROVE  IInv'
    BY <2>1, DownloadCallsHold, ImportAnsweredHolds
  <2>2. ASSUME NEW u \in Uids, UpdateAnswered(u) \/ UpdateFails(u) PROVE IInv'
    BY <2>2, DownloadCallsHold, UpdateAnsweredHolds
  <2> QED
    BY <1>3, <2>1, <2>2 DEF Network
<1>4. ASSUME Writer PROVE IInv'
  BY <1>4, WorkerHolds, CommitWriteHolds DEF Writer
<1>5. ASSUME FinishWrite PROVE IInv'
  BY <1>5, FinishCreationHolds, FinishUpdateHolds DEF FinishWrite
<1>6. ASSUME Generator PROVE IInv'
  BY <1>6, ReadProfileHolds, WriteRuntimeHolds, WritePreviewHolds DEF Generator
<1>7. ASSUME FinishGeneration PROVE IInv'
  BY <1>7, FinishRuntimeHolds DEF FinishGeneration
<1>8. ASSUME Lifecycle PROVE IInv'
  BY <1>8, SetMaintenanceModeHolds, BeginShutdownHolds, LoadHolds, RestoreBackupHolds, CrashHolds
  DEF Lifecycle
<1> QED
  BY <1>1, <1>2, <1>3, <1>4, <1>5, <1>6, <1>7, <1>8 DEF Next

LEMMA StutterHolds ==
    ASSUME IInv, UNCHANGED vars
    PROVE  IInv'
<1>1. UNCHANGED <<store, disk, used, handed, leftover, confirmed, tainted, lost,
                  calls, runs, saveFailures, crashes>>
  BY DEF vars
<1>2. Ranged'
  BY <1>1 DEF IInv, Ranged
<1>3. /\ StoreKept(store') /\ RequestsKept(store', disk', used') /\ FilesKept(store', disk', lost', tainted')
      /\ SnapshotsKept(store', disk', handed', leftover', runs') /\ RuntimeKept(store', disk', tainted')
  BY <1>1 DEF IInv
<1> QED
  BY <1>2, <1>3 DEF IInv

LEMMA InvariantHolds == Spec => []IInv
<1>1. Init => IInv
  BY InitHolds
<1>2. IInv /\ [Next]_vars => IInv'
  BY NextHolds, StutterHolds
<1> QED
  BY <1>1, <1>2, PTL DEF Spec

LEMMA FilesFollow ==
    ASSUME IInv
    PROVE  Files
<1>1. /\ store \in StoreRec /\ Accounted(store) /\ disk \in DiskRec
  BY StoreIsOrderly DEF Orderly, IInv, Ranged
<1>2. runs \in 0 .. MaxRuns /\ 1 .. runs \subseteq 1 .. MaxRuns
  BY BoundsAssumption DEF IInv, SnapshotsKept
<1>3. TypeOK
  BY <1>1, <1>2 DEF TypeOK, IInv, Ranged, SnapshotsKept
<1>4. ListedHasFile
  BY DEF ListedHasFile, IInv, FilesKept
<1>5. CreationLeavesNoOrphan
  BY DEF CreationLeavesNoOrphan, IInv, FilesKept, Committed, FileRunning
<1> QED
  BY <1>1, <1>3, <1>4, <1>5 DEF Files, SavesAccounted

LEMMA QueueFollows ==
    ASSUME IInv
    PROVE  Queue
<1>1. BusyShownTrue /\ QueueIsServed
  BY DEF BusyShownTrue, QueueIsServed, IInv, StoreKept, Orderly
<1>2. NoLeakedSnapshots
  BY DEF NoLeakedSnapshots, IInv, SnapshotsKept
<1> QED
  BY <1>1, <1>2 DEF Queue

\* Memory, index, files and editors agree, whatever was cancelled, failed or
\* crashed: profile_store.cpp changes them in commands, in the slots of the
\* worker and in load().
THEOREM FilesAgree == Spec => []Files
<1>1. IInv => Files
  BY FilesFollow
<1> QED
  BY <1>1, InvariantHolds, PTL

\* What waits is taken up and announced, and no generated file is forgotten.
THEOREM QueueIsKept == Spec => []Queue
<1>1. IInv => Queue
  BY QueueFollows
<1> QED
  BY <1>1, InvariantHolds, PTL

-----------------------------------------------------------------------------
(* Steps *)

\* Which steps announce, report or change the disk.
LEMMA QuietCommands ==
    ASSUME NEW saved \in BOOLEAN, Commands(saved)
    PROVE  /\ AcceptsChanges(store)
           /\ \/ UNCHANGED <<handed, confirmed>>
              \/ \E u \in Uids, c \in Edits : SaveProfileContent(u, c, saved)
              \/ GenerateRuntimeConfig(saved)
<1>1. ASSUME NEW u \in Uids,
             \/ SelectProfile(u, saved) \/ RenameProfile(u, saved)
             \/ SetUpdateInterval(u, saved) \/ RemoveProfile(u, saved)
      PROVE  AcceptsChanges(store) /\ UNCHANGED <<handed, confirmed>>
  BY <1>1 DEF SelectProfile, RenameProfile, SetUpdateInterval, RemoveProfile, CallSaving, Ghosts
<1>2. ASSUME NEW u \in Uids, NEW x \in Urls, SetSubscriptionUrl(u, x, saved)
      PROVE  AcceptsChanges(store) /\ UNCHANGED <<handed, confirmed>>
  BY <1>2 DEF SetSubscriptionUrl, Ghosts
<1>3. ASSUME NEW u \in Uids, NEW c \in Edits, CreateProfile(u, c, saved)
      PROVE  AcceptsChanges(store) /\ UNCHANGED <<handed, confirmed>>
  BY <1>3 DEF CreateProfile
<1>4. ASSUME NEW u \in Uids, NEW c \in Edits, SaveProfileContent(u, c, saved)
      PROVE  AcceptsChanges(store)
  BY <1>4 DEF SaveProfileContent
<1>5. ASSUME RequestRuntimeConfig(saved)
      PROVE  AcceptsChanges(store) /\ UNCHANGED <<handed, confirmed>>
  BY <1>5 DEF RequestRuntimeConfig, Ghosts
<1>6. ASSUME GenerateRuntimeConfig(saved) PROVE AcceptsChanges(store)
  BY <1>6 DEF GenerateRuntimeConfig
<1> QED
  BY <1>1, <1>2, <1>3, <1>4, <1>5, <1>6 DEF Commands

LEMMA QuietCalls ==
    ASSUME QueuedCommands \/ Network
    PROVE  UNCHANGED <<disk, handed, confirmed>>
<1>1. ASSUME QueuedCommands PROVE UNCHANGED <<disk, handed, confirmed>>
  BY <1>1 DEF QueuedCommands, SaveProfileContentFails, CancelRuntime, SetRuntimeOverrides,
     ChainChanged, CreateProfileAsync, SaveProfileContentAsync, ImportFromUrl, UpdateProfile,
     RefreshDueProfiles, CallOnly, NoSave, Ghosts
<1>2. ASSUME Network PROVE UNCHANGED <<disk, handed, confirmed>>
  BY <1>2 DEF Network, ImportFails, ImportAnswered, UpdateAnswered, UpdateFails, Event, NoSave, Ghosts
<1> QED
  BY <1>1, <1>2

LEMMA QuietWorkers ==
    ASSUME Writer \/ Generator \/ \E saved \in BOOLEAN : FinishCreation(saved)
    PROVE  IsFileBusy(store) /\ UNCHANGED <<handed, confirmed>>
<1>1. ASSUME Writer PROVE IsFileBusy(store) /\ UNCHANGED <<handed, confirmed>>
  BY <1>1 DEF Writer, PrepareWrite, CommitWrite, CommitFails, WorkerIs, Event, Ghosts,
     IsFileBusy, FileRunning
<1>2. ASSUME Generator PROVE IsFileBusy(store) /\ UNCHANGED <<handed, confirmed>>
  BY <1>2 DEF Generator, ReadProfile, WriteRuntime, WritePreview, RuntimeGivesUp, RuntimeStep,
     RuntimeIs, Event, Ghosts, IsFileBusy, RuntimeRunning
<1>3. ASSUME NEW saved \in BOOLEAN, FinishCreation(saved)
      PROVE  IsFileBusy(store) /\ UNCHANGED <<handed, confirmed>>
  BY <1>3 DEF FinishCreation, WriterDone, WorkerIs, Ghosts, IsFileBusy, FileRunning
<1> QED
  BY <1>1, <1>2, <1>3

LEMMA QuietLifecycle ==
    ASSUME Lifecycle
    PROVE  \/ UNCHANGED <<disk, handed, confirmed>>
           \/ RestoreBackup
           \/ Crash
BY DEF Lifecycle, SetMaintenanceMode, BeginShutdown, Load, CallOnly, NoSave, Ghosts

LEMMA BusyWhileFinishing ==
    ASSUME NEW saved \in BOOLEAN, FinishUpdate(saved) \/ FinishRuntime(saved)
    PROVE  IsFileBusy(store)
BY DEF FinishUpdate, FinishRuntime, WriterDone, WorkerIs, RuntimeIs, IsFileBusy, FileRunning,
   RuntimeRunning

\* Once changes are refused and no work is in progress, the disk is left
\* alone: what backups read, a restore replaces and a quit leaves.
THEOREM IdleLeavesTheDisk == Spec => IdleIsQuiet
<1> DEFINE Quiet == ~AcceptsChanges(store) /\ ~IsFileBusy(store) => disk' = disk \/ RestoreBackup
<1>1. ASSUME Next PROVE Quiet
  <2> SUFFICES ASSUME ~AcceptsChanges(store), ~IsFileBusy(store)
               PROVE  disk' = disk \/ RestoreBackup
    OBVIOUS
  <2>1. CASE \E saved \in BOOLEAN : Commands(saved)
    BY <2>1, QuietCommands
  <2>2. CASE QueuedCommands \/ Network
    BY <2>2, QuietCalls
  <2>3. CASE Writer \/ Generator
    BY <2>3, QuietWorkers
  <2>4. CASE FinishWrite \/ FinishGeneration
    BY <2>4, QuietWorkers, BusyWhileFinishing DEF FinishWrite, FinishGeneration
  <2>5. CASE Lifecycle
    BY <2>5, QuietLifecycle DEF Crash
  <2> QED
    BY <1>1, <2>1, <2>2, <2>3, <2>4, <2>5 DEF Next
<1>2. [Next]_vars => [Quiet]_vars
  BY <1>1
<1> QED
  BY <1>2, PTL DEF Spec, IdleIsQuiet

\* The steps that change what is reported or announced.
LEMMA Reports ==
    ASSUME Next
    PROVE  \/ UNCHANGED <<handed, confirmed>>
           \/ \E saved \in BOOLEAN :
                  \/ \E u \in Uids, c \in Edits : SaveProfileContent(u, c, saved)
                  \/ GenerateRuntimeConfig(saved) \/ FinishUpdate(saved) \/ FinishRuntime(saved)
           \/ RestoreBackup
           \/ Crash
<1>1. CASE \E saved \in BOOLEAN : Commands(saved)
  BY <1>1, QuietCommands
<1>2. CASE QueuedCommands \/ Network
  BY <1>2, QuietCalls
<1>3. CASE Writer \/ Generator
  BY <1>3, QuietWorkers
<1>4. CASE FinishWrite \/ FinishGeneration
  BY <1>4, QuietWorkers DEF FinishWrite, FinishGeneration
<1>5. CASE Lifecycle
  BY <1>5, QuietLifecycle
<1> QED
  BY <1>1, <1>2, <1>3, <1>4, <1>5 DEF Next

\* What profileContentSaved(uid, true) says at the end of a queued save.
LEMMA SaveIsConfirmed ==
    ASSUME IInv, NEW saved \in BOOLEAN, FinishUpdate(saved), NEW u \in Uids,
           confirmed'[u] # confirmed[u]
    PROVE  disk'.file[u] = confirmed'[u] /\ u \in Listed(store')
<1> DEFINE request == store.write.request
           s == CancelIfCurrent(store, u)
           t == [s EXCEPT !.owed = Answer(store.owed, <<request>>)]
<1>1. /\ request.uid = u /\ request.kind = "Save" /\ WriteSucceeded /\ u \in Listed(store)
      /\ saved /\ confirmed'[u] = request.content
  BY DEF FinishUpdate, IInv, Ranged
<1>2. /\ Calm(store, s) /\ s.owed = store.owed
  BY StoreIsOrderly, CancelIfCurrentIsCalm, RuntimeCancelled DEF CancelIfCurrent
<1>3. store' = NextOrIdle(t) /\ Save(s, disk, saved) /\ WriterDone
  BY <1>1, <1>2 DEF FinishUpdate
<1>4. /\ s \in StoreRec /\ Distinct(s) /\ Orderly(s) /\ s.profiles = store.profiles
      /\ s.fileQueue = store.fileQueue \/ s.fileQueue = <<>>
  BY <1>2, StoreIsOrderly, CalmKeepsOrder DEF Calm, Orderly
<1>5. disk'.file = disk.file
  BY <1>3, <1>4, SaveIsOfIndex DEF IInv, Ranged
<1>6. disk.file[u] = request.content
  BY <1>1 DEF IInv, FilesKept, WriteSucceeded, WorkerIs
<1> HIDE DEF s
<1>7. Listed(store') = Listed(store)
  <2> DEFINE f == [t EXCEPT !.write = NoWrite]
             e == [f EXCEPT !.shown = IsFileBusy(f)]
  <2>1. f.profiles = store.profiles /\ e.profiles = store.profiles
    BY <1>4 DEF StoreRec
  <2>2. StartNextWrite(f).profiles = f.profiles
    BY <1>4 DEF StartNextWrite, StoreRec
  <2>3. store' = IF f.fileQueue # <<>> /\ ~f.maintenance THEN StartNextWrite(f) ELSE e
    BY <1>3 DEF NextOrIdle
  <2> QED
    BY <2>1, <2>2, <2>3 DEF Listed
<1> QED
  BY <1>1, <1>5, <1>6, <1>7

\* profileContentSaved(uid, true) is only said of contents that the file of a
\* listed profile holds, at once (saveProfileContent()) or from the queue.
THEOREM SavedContentsAreOnDisk == Spec => SavedIsOnDisk
<1> DEFINE Says(u) == confirmed'[u] \notin {confirmed[u], Nothing}
           Holds(u) == disk'.file[u] = confirmed'[u] /\ u \in Listed(store')
           Kept == \A u \in Uids : Says(u) => Holds(u)
<1>1. ASSUME IInv, Next PROVE Kept
  <2> SUFFICES ASSUME NEW u \in Uids, Says(u) PROVE Holds(u)
    OBVIOUS
  <2>1. CASE UNCHANGED confirmed
    BY <2>1
  <2>2. ASSUME NEW saved \in BOOLEAN, NEW v \in Uids, NEW c \in Edits, SaveProfileContent(v, c, saved)
        PROVE  Holds(u)
    <3> DEFINE t == CancelIfCurrent(CancelFileOperations(store), v)
               d == [disk EXCEPT !.file[v] = c]
    <3>1. /\ v \in Listed(store) /\ store' = t /\ Save(t, d, saved)
          /\ confirmed' = [confirmed EXCEPT ![v] = c]
      BY <2>2 DEF SaveProfileContent
    <3>2. u = v /\ confirmed'[u] = c
      BY <3>1 DEF IInv, Ranged
    <3>3. Calm(store, t)
      BY <1>1, StoreIsOrderly, BothCancelled
    <3> HIDE DEF t
    <3>4. Listed(store') = Listed(store)
      BY <3>1, <3>3 DEF Calm, Listed
    <3>5. d.file[v] = c /\ disk \in DiskRec
      BY <1>1 DEF IInv, Ranged, DiskRec
    <3>6. disk' = IF saved THEN [d EXCEPT !.index = Index(t)] ELSE d
      BY <3>1 DEF Save
    <3>7. disk'.file = d.file
      BY <3>5, <3>6 DEF DiskRec
    <3> QED
      BY <3>1, <3>2, <3>4, <3>5, <3>7
  <2>3. ASSUME NEW saved \in BOOLEAN, GenerateRuntimeConfig(saved) \/ FinishRuntime(saved)
        PROVE  UNCHANGED confirmed
    BY <2>3 DEF GenerateRuntimeConfig, FinishRuntime
  <2>4. ASSUME NEW saved \in BOOLEAN, FinishUpdate(saved) PROVE Holds(u)
    BY <1>1, <2>4, SaveIsConfirmed
  <2>5. CASE RestoreBackup
    BY <2>5 DEF RestoreBackup
  <2>6. CASE Crash
    BY <2>1, <2>6 DEF Crash
  <2> QED
    BY <1>1, <2>1, <2>2, <2>3, <2>4, <2>5, <2>6, Reports
<1>2. IInv /\ [Next]_vars => [Kept]_vars
  BY <1>1
<1> QED
  BY <1>2, InvariantHolds, PTL DEF Spec, SavedIsOnDisk

\* What runtimeConfigReady() announces was made from the selection, the
\* overrides and the chain of now, and from the profile's file unless a write
\* of it is under way or was cancelled on its way.
THEOREM AnnouncedIsCurrent == Spec => DeliveredIsCurrent
<1> DEFINE r == store.runtime
           Current ==
               /\ r.uid = store.currentUid /\ r.settings = store.settings
               /\ \/ r.content = disk.file[r.uid]
                  \/ FileRunning(store) /\ store.write.request.uid = r.uid
                  \/ r.uid \in tainted
           Kept == r.path \in handed' \ handed => Current
<1>1. ASSUME IInv, Next PROVE Kept
  <2> SUFFICES ASSUME r.path \in handed' \ handed PROVE Current
    OBVIOUS
  <2>1. ~UNCHANGED handed /\ handed' # {}
    OBVIOUS
  <2>2. ASSUME NEW saved \in BOOLEAN,
               \/ \E u \in Uids, c \in Edits : SaveProfileContent(u, c, saved)
               \/ FinishUpdate(saved)
        PROVE  FALSE
    BY <2>1, <2>2 DEF SaveProfileContent, FinishUpdate
  <2>3. ASSUME NEW saved \in BOOLEAN, GenerateRuntimeConfig(saved) PROVE FALSE
    <3>1. r.path \in 0 .. runs /\ runs \in Nat
      BY <1>1, BoundsAssumption DEF IInv, SnapshotsKept
    <3>2. runs' = runs + 1 /\ handed' \subseteq handed \cup {runs'}
      BY <2>3 DEF GenerateRuntimeConfig, Requested
    <3> QED
      BY <3>1, <3>2
  <2>4. ASSUME NEW saved \in BOOLEAN, FinishRuntime(saved) PROVE Current
    <3>1. r.stage = "done" /\ Delivers /\ RuntimeRunning(store)
      BY <2>4 DEF FinishRuntime, RuntimeIs, RuntimeRunning
    <3>2. ~r.cancelled /\ ~r.failed /\ RuntimeKept(store, disk, tainted)
      BY <1>1, <3>1 DEF Delivers, IInv
    <3> QED
      BY <3>1, <3>2 DEF RuntimeKept, Committed, FileRunning
  <2>5. ~RestoreBackup /\ ~Crash
    BY <2>1 DEF RestoreBackup, Crash
  <2> QED
    BY <1>1, <2>1, <2>2, <2>3, <2>4, <2>5, Reports
<1>2. IInv /\ [Next]_vars => [Kept]_vars
  BY <1>1
<1> QED
  BY <1>2, InvariantHolds, PTL DEF Spec, DeliveredIsCurrent
=============================================================================
