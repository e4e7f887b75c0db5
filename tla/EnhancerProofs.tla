---------------------------- MODULE EnhancerProofs ----------------------------
(***************************************************************************)
(* The chain, its files and its index agree, a save that is reported is on *)
(* disk, and a configuration that is delivered is made with the chain as   *)
(* it is: for any steps, scripts and sources, and any number of calls.     *)
(***************************************************************************)
EXTENDS Enhancer, TLAPS, SequenceTheorems, WellFoundedInduction

-----------------------------------------------------------------------------
(* Sequences *)

\* A set of numbers that is not empty has a least member.
LEMMA LeastNumber ==
    ASSUME NEW T \in SUBSET Nat, T # {}
    PROVE  \E i \in T : \A j \in T : i <= j
<1>1. PICK i \in T : \A j \in T : <<j, i>> \notin OpToRel(<, Nat)
  BY NatLessThanWellFounded, WFMin
<1>2. \A j \in T : ~(j < i)
  BY <1>1 DEF OpToRel
<1> QED
  BY <1>2

\* What is left without the i-th element.
LEMMA RemoveAtProperties ==
    ASSUME NEW S, NEW s \in Seq(S), NEW i \in 1 .. Len(s)
    PROVE  /\ RemoveAt(s, i) \in Seq(S) /\ Len(RemoveAt(s, i)) = Len(s) - 1
           /\ \A j \in 1 .. Len(s) - 1 : RemoveAt(s, i)[j] = IF j < i THEN s[j] ELSE s[j + 1]
<1> DEFINE a == SubSeq(s, 1, i - 1)
           b == SubSeq(s, i + 1, Len(s))
<1>1. a \in Seq(S) /\ Len(a) = i - 1 /\ \A j \in 1 .. i - 1 : a[j] = s[j]
  OBVIOUS
<1>2. b \in Seq(S) /\ Len(b) = Len(s) - i /\ \A j \in 1 .. Len(s) - i : b[j] = s[i + j]
  OBVIOUS
<1>3. RemoveAt(s, i) = a \o b
  BY DEF RemoveAt
<1> HIDE DEF a, b
<1>4. /\ a \o b \in Seq(S) /\ Len(a \o b) = Len(a) + Len(b)
      /\ \A j \in 1 .. Len(a) + Len(b) : (a \o b)[j] = IF j <= Len(a) THEN a[j] ELSE b[j - Len(a)]
  BY <1>1, <1>2, ConcatProperties
<1>5. ASSUME NEW j \in 1 .. Len(s) - 1
      PROVE  (a \o b)[j] = IF j < i THEN s[j] ELSE s[j + 1]
  <2>1. CASE j < i
    BY <1>1, <1>2, <1>4, <2>1
  <2>2. CASE j >= i
    <3> DEFINE k == j - Len(a)
    <3>1. k \in 1 .. Len(s) - i /\ ~(j <= Len(a)) /\ i + k = j + 1
      BY <1>1, <2>2
    <3>2. (a \o b)[j] = b[k]
      BY <1>1, <1>2, <1>4, <2>2, <3>1
    <3> HIDE DEF k
    <3>3. b[k] = s[i + k]
      BY <1>2, <3>1
    <3> QED
      BY <2>2, <3>1, <3>2, <3>3
  <2>3. j < i \/ j >= i
    OBVIOUS
  <2> QED
    BY <2>1, <2>2, <2>3
<1> QED
  BY <1>1, <1>2, <1>3, <1>4, <1>5

\* A sequence with e at the i-th place.
LEMMA InsertAtProperties ==
    ASSUME NEW S, NEW s \in Seq(S), NEW i \in 1 .. Len(s) + 1, NEW e \in S
    PROVE  /\ InsertAt(s, i, e) \in Seq(S) /\ Len(InsertAt(s, i, e)) = Len(s) + 1
           /\ \A j \in 1 .. Len(s) + 1 :
                InsertAt(s, i, e)[j] = IF j < i THEN s[j] ELSE IF j = i THEN e ELSE s[j - 1]
<1> DEFINE a == SubSeq(s, 1, i - 1)
           m == a \o <<e>>
           b == SubSeq(s, i, Len(s))
<1>1. a \in Seq(S) /\ Len(a) = i - 1 /\ \A j \in 1 .. i - 1 : a[j] = s[j]
  OBVIOUS
<1>2. /\ b \in Seq(S) /\ Len(b) = Len(s) - i + 1
      /\ \A j \in 1 .. Len(s) - i + 1 : b[j] = s[i + j - 1]
  BY SubSeqProperties
<1>3. <<e>> \in Seq(S) /\ Len(<<e>>) = 1 /\ <<e>>[1] = e
  OBVIOUS
<1>4. InsertAt(s, i, e) = m \o b
  BY DEF InsertAt
<1> HIDE DEF a, b
<1>5. /\ m \in Seq(S) /\ Len(m) = Len(a) + 1
      /\ \A j \in 1 .. Len(a) + 1 : m[j] = IF j <= Len(a) THEN a[j] ELSE <<e>>[j - Len(a)]
  BY <1>1, <1>3, ConcatProperties
<1>6. Len(m) = i /\ \A j \in 1 .. i : m[j] = IF j < i THEN s[j] ELSE e
  BY <1>1, <1>3, <1>5
<1> HIDE DEF m
<1>7. /\ m \o b \in Seq(S) /\ Len(m \o b) = Len(m) + Len(b)
      /\ \A j \in 1 .. Len(m) + Len(b) : (m \o b)[j] = IF j <= Len(m) THEN m[j] ELSE b[j - Len(m)]
  BY <1>2, <1>5, ConcatProperties
<1>8. ASSUME NEW j \in 1 .. Len(s) + 1
      PROVE  (m \o b)[j] = IF j < i THEN s[j] ELSE IF j = i THEN e ELSE s[j - 1]
  <2>1. CASE j <= i
    BY <1>2, <1>6, <1>7, <2>1
  <2>2. CASE j > i
    <3> DEFINE k == j - Len(m)
    <3>1. k \in 1 .. Len(s) - i + 1 /\ ~(j <= Len(m)) /\ i + k - 1 = j - 1
      BY <1>6, <2>2
    <3>2. (m \o b)[j] = b[k]
      BY <1>2, <1>6, <1>7, <2>2, <3>1
    <3> HIDE DEF k
    <3>3. b[k] = s[i + k - 1]
      BY <1>2, <3>1
    <3> QED
      BY <2>2, <3>1, <3>2, <3>3
  <2>3. j <= i \/ j > i
    OBVIOUS
  <2> QED
    BY <2>1, <2>2, <2>3
<1> QED
  BY <1>2, <1>4, <1>6, <1>7, <1>8

\* A sequence with e at its end, and what follows its i-th element.
LEMMA AppendElements ==
    ASSUME NEW S, NEW s \in Seq(S), NEW e \in S
    PROVE  /\ Append(s, e) \in Seq(S) /\ Len(Append(s, e)) = Len(s) + 1
           /\ Append(s, e)[Len(s) + 1] = e
           /\ \A j \in 1 .. Len(s) : Append(s, e)[j] = s[j]
           /\ Range(Append(s, e)) = Range(s) \cup {e}
<1>1. /\ Append(s, e) \in Seq(S) /\ Len(Append(s, e)) = Len(s) + 1
      /\ Append(s, e)[Len(s) + 1] = e
      /\ \A j \in 1 .. Len(s) : Append(s, e)[j] = s[j]
  OBVIOUS
<1>2. DOMAIN s = 1 .. Len(s) /\ DOMAIN Append(s, e) = 1 .. Len(s) + 1
  BY <1>1
<1>3. Range(Append(s, e)) \subseteq Range(s) \cup {e}
  BY <1>1, <1>2 DEF Range
<1>4. ASSUME NEW x \in Range(s) PROVE x \in Range(Append(s, e))
  <2>1. PICK j \in 1 .. Len(s) : x = s[j]
    BY <1>2 DEF Range
  <2>2. j \in 1 .. Len(s) + 1 /\ x = Append(s, e)[j]
    BY <1>1, <2>1
  <2> QED
    BY <1>2, <2>2 DEF Range
<1>5. e \in Range(Append(s, e))
  BY <1>1, <1>2 DEF Range
<1> QED
  BY <1>1, <1>3, <1>4, <1>5

LEMMA RestElements ==
    ASSUME NEW S, NEW s \in Seq(S), NEW i \in 1 .. Len(s)
    PROVE  LET rest == SubSeq(s, i + 1, Len(s))
           IN /\ rest \in Seq(S) /\ Len(rest) = Len(s) - i
              /\ \A j \in 1 .. Len(s) - i : rest[j] = s[i + j]
              /\ Range(rest) \subseteq Range(s)
<1> DEFINE rest == SubSeq(s, i + 1, Len(s))
<1>1. /\ rest \in Seq(S) /\ Len(rest) = Len(s) - i
      /\ \A j \in 1 .. Len(s) - i : rest[j] = s[i + j]
  OBVIOUS
<1>2. DOMAIN rest = 1 .. Len(s) - i /\ DOMAIN s = 1 .. Len(s)
  BY <1>1
<1> HIDE DEF rest
<1>3. ASSUME NEW x \in Range(rest) PROVE x \in Range(s)
  <2>1. PICK j \in 1 .. Len(s) - i : x = rest[j]
    BY <1>2 DEF Range
  <2>2. x = s[i + j] /\ i + j \in 1 .. Len(s)
    BY <1>1, <2>1
  <2> QED
    BY <1>2, <2>2 DEF Range
<1> QED
  BY <1>1, <1>3 DEF rest

-----------------------------------------------------------------------------
(* The records *)

LEMMA AppIsRecord ==
    /\ app.store = store /\ app.write = write /\ app.dialog = dialog /\ app.run = run
BY DEF app

\* What a slot leaves is the application's state afterwards.
LEMMA ApplyIsApp ==
    ASSUME NEW t \in AppRec, Apply(t)
    PROVE  app' = t
BY DEF Apply, app, AppRec

LEMMA SameIsApp ==
    ASSUME UNCHANGED <<store, write, dialog, run>>
    PROVE  app' = app
BY DEF app

\* No write and no generation are known by their phase.
LEMMA Shapes ==
    ASSUME NEW s \in AppRec
    PROVE  /\ s.write = NoWrite <=> s.write.phase = "none"
           /\ s.write # NoWrite => s.write \in WriteRec
           /\ s.run = NoRun <=> s.run.phase = "idle"
           /\ s.run # NoRun => s.run \in RunRec
           /\ s.dialog.state # "closed" => s.dialog \in DialogRec
BY DEF AppRec, WriteRec, NoWrite, RunRec, NoRun, DialogRec, Closed

\* What there is to write, element by element.
LEMMA PendingAre ==
    ASSUME NEW s \in AppRec
    PROVE  /\ \A i \in DOMAIN s.store.queue : s.store.queue[i] \in Pending(s) \cap Request
           /\ s.write # NoWrite => s.write.request \in Pending(s) \cap Request
           /\ Range(s.store.queue) \subseteq Pending(s) \cap Request
           /\ Pending(s) \subseteq Request
<1>1. s.store.queue \in Seq(Request)
  BY DEF AppRec, StoreRec
<1>2. Range(s.store.queue) \subseteq Request
  BY <1>1 DEF Range
<1>3. s.write # NoWrite => s.write.request \in Request
  BY Shapes DEF WriteRec
<1> QED
  BY <1>1, <1>2, <1>3 DEF Pending, Range

LEMMA ListedAre ==
    ASSUME NEW s \in AppRec
    PROVE  /\ Listed(s) \subseteq Items
           /\ \A i \in DOMAIN s.store.chain : s.store.chain[i] \in Step /\ s.store.chain[i].uid \in Listed(s)
           /\ \A uid \in Listed(s) : \E i \in DOMAIN s.store.chain : s.store.chain[i].uid = uid
           /\ DOMAIN s.store.chain = 1 .. Len(s.store.chain)
<1>1. s.store.chain \in Seq(Step)
  BY DEF AppRec, StoreRec
<1>2. \A i \in DOMAIN s.store.chain : s.store.chain[i] \in Step
  BY <1>1
<1> QED
  BY <1>1, <1>2 DEF Listed, Step

-----------------------------------------------------------------------------
(* The dialog *)

\* Everything but the dialog is the same.
Same(s, t) == t.store = s.store /\ t.write = s.write /\ t.run = s.run

\* The dialog is as it was, or is open and does not wait.
Hears(s, t) == t.dialog = s.dialog \/ t.dialog.state \notin {"saving", "closed"}

\* So is the dialog, and no save is added to what is pending.
Settles(s, t) == Hears(s, t) /\ \A q \in Pending(t) : q.create \/ q \in Pending(s)

LEMMA SettlesKept ==
    ASSUME NEW s, NEW t, DialogKept(s), Settles(s, t)
    PROVE  DialogKept(t)
BY DEF DialogKept, Settles, Hears, Unanswered

LEMMA SettlesOn ==
    ASSUME NEW s, NEW t, NEW u, Settles(s, t), Settles(t, u)
    PROVE  Settles(s, u)
BY DEF Settles, Hears

LEMMA SameSettles ==
    ASSUME NEW s, NEW t, Same(s, t), Hears(s, t)
    PROVE  Settles(s, t)
BY DEF Settles, Same, Pending

LEMMA SameKept ==
    ASSUME NEW s, NEW d, NEW a, NEW c, Kept(s, d, a, c), NEW t \in AppRec, Same(s, t)
    PROVE  Kept(t, d, a, c) /\ Pending(t) = Pending(s) /\ Listed(t) = Listed(s)
<1>1. Pending(t) = Pending(s) /\ Listed(t) = Listed(s)
  BY DEF Same, Pending, Listed
<1>2. StoreKept(t)
  BY <1>1 DEF Kept, StoreKept, Same
<1>3. QueueKept(t, a, c)
  BY <1>1 DEF Kept, QueueKept, Same
<1>4. FilesKept(t, d, a)
  BY <1>1 DEF Kept, FilesKept, Same
<1>5. RunKept(t.run, t.store.chain, a)
  BY DEF Kept, Same
<1> QED
  BY <1>1, <1>2, <1>3, <1>4, <1>5 DEF Kept

\* An answer closes the dialog or lets it be edited again.
LEMMA AnswerIsSame ==
    ASSUME NEW s \in AppRec, NEW uid \in Items, NEW success \in BOOLEAN
    PROVE  LET t == ItemContentSaved(s, uid, success)
           IN /\ t \in AppRec /\ Same(s, t)
              /\ \/ Hears(s, t)
                 \/ success /\ s.dialog.state = "saving" /\ s.dialog.uid = uid /\ t.dialog = Closed
<1> DEFINE t == ItemContentSaved(s, uid, success)
<1>1. CASE s.dialog.state # "saving" \/ s.dialog.uid # uid
  BY <1>1 DEF ItemContentSaved, Same, Hears
<1>2. CASE s.dialog.state = "saving" /\ s.dialog.uid = uid
  <2>1. s.dialog \in DialogRec
    BY <1>2, Shapes
  <2>2. CASE success
    BY <1>2, <2>2 DEF ItemContentSaved, AppRec, Same
  <2>3. CASE ~success
    <3> DEFINE heard == Dialog("editing", uid)
    <3>1. t = [s EXCEPT !.dialog = heard]
      BY <1>2, <2>3 DEF ItemContentSaved
    <3>2. heard \in DialogRec /\ heard.state = "editing"
      BY ItemsAssumption DEF Dialog, DialogRec
    <3> HIDE DEF heard
    <3>3. t \in AppRec /\ Same(s, t) /\ t.dialog = heard
      BY <3>1, <3>2 DEF AppRec, Same
    <3> QED
      BY <3>2, <3>3 DEF Hears
  <2> QED
    BY <2>2, <2>3
<1> QED
  BY <1>1, <1>2

LEMMA GiveUpIsSame ==
    ASSUME NEW s \in AppRec, NEW requests
    PROVE  LET t == GiveUp(s, requests)
           IN /\ t \in AppRec /\ Same(s, t)
              /\ Hears(s, t)
<1>1. CASE s.dialog.state # "saving"
  BY <1>1 DEF GiveUp, Same, Hears
<1>2. CASE s.dialog.state = "saving"
  <2>1. s.dialog.uid \in Items
    BY <1>2, Shapes DEF DialogRec
  <2>2. LET t == ItemContentSaved(s, s.dialog.uid, FALSE)
        IN t \in AppRec /\ Same(s, t) /\ Hears(s, t)
    BY <2>1, AnswerIsSame
  <2> QED
    BY <2>2 DEF GiveUp, Same, Hears
<1> QED
  BY <1>1, <1>2

-----------------------------------------------------------------------------
(* The slots *)

\* A change of the chain voids the generation, and that is all.
LEMMA ChainChangedIs ==
    ASSUME NEW s \in AppRec
    PROVE  LET t == ChainChanged(s)
           IN /\ t \in AppRec /\ t.store = s.store /\ t.write = s.write /\ t.dialog = s.dialog
              /\ t.run.phase = s.run.phase
              /\ t.run.phase # "idle" => t.run = [s.run EXCEPT !.cancelled = TRUE] /\ t.run.cancelled
<1> DEFINE t == ChainChanged(s)
<1>1. CASE s.run.phase = "idle"
  BY <1>1 DEF ChainChanged
<1>2. CASE s.run.phase # "idle"
  <2>1. s.run \in RunRec
    BY <1>2, Shapes
  <2>2. t = [s EXCEPT !.run.cancelled = TRUE]
    BY <1>2 DEF ChainChanged
  <2>3. /\ t \in AppRec /\ t.store = s.store /\ t.write = s.write /\ t.dialog = s.dialog
        /\ t.run = [s.run EXCEPT !.cancelled = TRUE]
    <3>1. [s.run EXCEPT !.cancelled = TRUE] \in RunRec
      BY <2>1 DEF RunRec
    <3>2. t = [s EXCEPT !.run = [s.run EXCEPT !.cancelled = TRUE]]
      BY <2>2
    <3> QED
      BY <3>1, <3>2 DEF AppRec
  <2> QED
    BY <2>1, <2>3 DEF RunRec
<1> QED
  BY <1>1, <1>2

\* A generation that is void, or none, is kept whatever the chain becomes.
LEMMA VoidRunKept ==
    ASSUME NEW r \in RunRec \cup {NoRun}, NEW a, NEW steps, RunKept(r, steps, a), NEW t, NEW b, NEW more,
           t.phase = r.phase,
           t.phase # "idle" => t = [r EXCEPT !.cancelled = TRUE] /\ t.cancelled
    PROVE  RunKept(t, more, b)
<1> SUFFICES ASSUME t.phase # "idle"
             PROVE  t.at \in 1 .. Len(t.chain) + (IF t.phase = "script" THEN 0 ELSE 1)
  BY DEF RunKept
<1>1. r \in RunRec
  BY DEF NoRun
<1>2. t.at = r.at /\ t.chain = r.chain
  BY <1>1 DEF RunRec
<1> QED
  BY <1>2 DEF RunKept

LEMMA ChainChangedKept ==
    ASSUME NEW s, NEW d, NEW a, NEW c, Kept(s, d, a, c)
    PROVE  Kept(ChainChanged(s), d, a, c)
<1> DEFINE t == ChainChanged(s)
<1>1. s \in AppRec
  BY DEF Kept
<1>2. /\ t \in AppRec /\ t.store = s.store /\ t.write = s.write /\ t.run.phase = s.run.phase
      /\ t.run.phase # "idle" => t.run = [s.run EXCEPT !.cancelled = TRUE] /\ t.run.cancelled
  BY <1>1, ChainChangedIs
<1> HIDE DEF t
<1>3. Pending(t) = Pending(s) /\ Listed(t) = Listed(s)
  BY <1>2 DEF Pending, Listed
<1>4. StoreKept(t) /\ QueueKept(t, a, c) /\ FilesKept(t, d, a)
  BY <1>2, <1>3 DEF Kept, StoreKept, QueueKept, FilesKept
<1>5. RunKept(t.run, t.store.chain, a)
  <2>1. s.run \in RunRec \cup {NoRun}
    BY <1>1 DEF AppRec
  <2> QED
    BY <1>2, <2>1, VoidRunKept DEF Kept
<1>6. Kept(t, d, a, c)
  BY <1>2, <1>4, <1>5 DEF Kept
<1> QED
  BY <1>6 DEF t

-----------------------------------------------------------------------------
(* The write queue *)

\* What a cancellation leaves: the write that runs, marked.
Cancelled(s, u) ==
    /\ u \in AppRec /\ u.run = s.run /\ u.store.queue = <<>>
    /\ u.store.chain = s.store.chain /\ u.store.used = s.store.used
    /\ u.store.maintenance = s.store.maintenance /\ u.store.running = s.store.running
    /\ IF s.write = NoWrite THEN u.write = NoWrite
       ELSE u.write # NoWrite /\ u.write.request = s.write.request /\ u.write.cancelled
    /\ Hears(s, u)

LEMMA CancelledIs ==
    ASSUME NEW s \in AppRec
    PROVE  Cancelled(s, CancelFileOperations(s))
<1> DEFINE work == IF s.write.phase = "none" THEN s.write ELSE [s.write EXCEPT !.cancelled = TRUE]
           held == [s.store EXCEPT !.generation = @ + 1, !.queue = <<>>]
           t == [s EXCEPT !.store.generation = @ + 1, !.store.queue = <<>>,
                          !.write = IF @.phase = "none" THEN @ ELSE [@ EXCEPT !.cancelled = TRUE]]
           u == GiveUp(t, Range(s.store.queue))
<1>1. /\ held \in StoreRec /\ held.queue = <<>> /\ held.chain = s.store.chain
      /\ held.used = s.store.used /\ held.maintenance = s.store.maintenance
      /\ held.running = s.store.running
  <2>1. s.store \in StoreRec /\ <<>> \in Seq(Request)
    BY DEF AppRec
  <2>2. s.store.generation + 1 \in Nat
    BY <2>1 DEF StoreRec
  <2> DEFINE next == s.store.generation + 1
             none == <<>>
  <2>3. held = [s.store EXCEPT !.generation = next, !.queue = none]
    OBVIOUS
  <2>4. next \in Nat /\ none \in Seq(Request) /\ none = <<>>
    BY <2>1, <2>2
  <2> HIDE DEF next, none, held
  <2> QED
    BY <2>1, <2>3, <2>4 DEF StoreRec
<1>2. /\ work \in WriteRec \cup {NoWrite}
      /\ IF s.write = NoWrite THEN work = NoWrite
         ELSE work \in WriteRec /\ work.request = s.write.request /\ work.cancelled
  <2>1. CASE s.write = NoWrite
    BY <2>1, Shapes
  <2>2. CASE s.write # NoWrite
    BY <2>2, Shapes DEF WriteRec
  <2> QED
    BY <2>1, <2>2
<1>3. work \in WriteRec => work # NoWrite
  BY DEF WriteRec, NoWrite
<1>4. t = [s EXCEPT !.store = held, !.write = work]
  BY DEF AppRec
<1> HIDE DEF held, work, t
<1>5. t \in AppRec /\ t.store = held /\ t.write = work /\ t.run = s.run /\ t.dialog = s.dialog
  BY <1>1, <1>2, <1>4 DEF AppRec
<1>6. u \in AppRec /\ Same(t, u) /\ Hears(t, u)
  BY <1>5, GiveUpIsSame
<1>7. CancelFileOperations(s) = u
  BY DEF CancelFileOperations, t
<1> HIDE DEF u
<1> QED
  BY <1>1, <1>2, <1>3, <1>5, <1>6, <1>7 DEF Cancelled, Same, Hears

\* A cancellation keeps what is to be kept.
LEMMA CancelledKept ==
    ASSUME NEW s, NEW d, NEW a, NEW c, Kept(s, d, a, c), NEW u, Cancelled(s, u)
    PROVE  Kept(u, d, a, c) /\ Served(u) /\ Listed(u) = Listed(s)
<1>1. s \in AppRec /\ Listed(u) = Listed(s)
  BY DEF Kept, Cancelled, Listed
<1>2. Range(u.store.queue) = {} /\ DOMAIN u.store.queue = {}
  BY DEF Cancelled, Range
<1>3. Pending(u) \subseteq Pending(s)
  BY <1>2 DEF Pending, Cancelled
<1>4. StoreKept(u)
  BY <1>1 DEF Kept, StoreKept, Cancelled
<1>5. QueueKept(u, a, c)
  <2>1. u.store.used = s.store.used
    BY DEF Cancelled
  <2> QED
    BY <1>1, <1>2, <1>3, <2>1 DEF Kept, QueueKept
<1>6. FilesKept(u, d, a)
  BY <1>1 DEF Kept, FilesKept, Cancelled, NoWrite
<1>7. RunKept(u.run, u.store.chain, a)
  BY DEF Kept, Cancelled
<1> QED
  BY <1>1, <1>4, <1>5, <1>6, <1>7 DEF Kept, Cancelled, Served

LEMMA CancelledSettles ==
    ASSUME NEW s, NEW u, Cancelled(s, u)
    PROVE  Settles(s, u)
<1>1. Range(u.store.queue) = {}
  BY DEF Cancelled, Range
<1> QED
  BY <1>1 DEF Settles, Cancelled, Pending

\* The first request that can be served is: the rest of the queue follows it.
LEMMA StartNextWriteKept ==
    ASSUME NEW s, NEW d, NEW a, NEW c, Kept(s, d, a, c), s.write = NoWrite
    PROVE  LET u == StartNextWrite(s)
           IN /\ Kept(u, d, a, c) /\ Served(u) /\ u.run = s.run /\ u.store.chain = s.store.chain
              /\ Settles(s, u)
<1> DEFINE queue == s.store.queue
           ready == {i \in DOMAIN queue : queue[i].create \/ queue[i].uid \in Listed(s)}
           first == CHOOSE i \in ready : \A j \in ready : i <= j
           dropped == [s EXCEPT !.store.queue = <<>>]
           rest == SubSeq(queue, first + 1, Len(queue))
           begun == [phase |-> "started", request |-> queue[first],
                     generation |-> s.store.generation, cancelled |-> FALSE, failed |-> FALSE]
           t == [s EXCEPT !.store.queue = rest, !.store.running = TRUE, !.write = begun]
           u == StartNextWrite(s)
<1>1. s \in AppRec /\ queue \in Seq(Request) /\ s.store \in StoreRec
  BY DEF Kept, AppRec, StoreRec
<1>2. CASE s.store.maintenance
  <2>1. u = s
    BY <1>2 DEF StartNextWrite
  <2>2. Served(s) /\ Settles(s, s)
    BY <1>2 DEF Kept, StoreKept, Served, Settles, Hears
  <2> QED
    BY <2>1, <2>2
<1>3. CASE ~s.store.maintenance /\ ready = {}
  <2>1. u = GiveUp(dropped, Range(queue))
    BY <1>3 DEF StartNextWrite
  <2>2. /\ dropped \in AppRec /\ dropped.store.queue = <<>> /\ dropped.write = s.write
        /\ dropped.run = s.run /\ dropped.dialog = s.dialog
        /\ dropped.store.chain = s.store.chain /\ dropped.store.used = s.store.used
        /\ dropped.store.maintenance = s.store.maintenance
        /\ dropped.store.running = s.store.running
    <3> DEFINE none == <<>>
               held == [s.store EXCEPT !.queue = none]
    <3>1. none \in Seq(Request) /\ none = <<>>
      OBVIOUS
    <3>2. dropped = [s EXCEPT !.store = held]
      OBVIOUS
    <3> HIDE DEF none, dropped
    <3>3. /\ held \in StoreRec /\ held.queue = none /\ held.chain = s.store.chain
          /\ held.used = s.store.used /\ held.maintenance = s.store.maintenance
          /\ held.running = s.store.running
      BY <1>1, <3>1 DEF StoreRec
    <3> HIDE DEF held
    <3> QED
      BY <1>1, <3>1, <3>2, <3>3 DEF AppRec
  <2> HIDE DEF dropped
  <2>3. Cancelled(s, dropped)
    BY <2>2 DEF Cancelled, Hears
  <2>4. Kept(dropped, d, a, c) /\ Served(dropped)
    BY <2>3, CancelledKept
  <2>5. u \in AppRec /\ Same(dropped, u) /\ Hears(dropped, u)
    BY <2>1, <2>2, GiveUpIsSame
  <2>6. Kept(u, d, a, c)
    BY <2>4, <2>5, SameKept
  <2> HIDE DEF u
  <2>7. /\ Kept(u, d, a, c) /\ Served(u) /\ u.run = s.run /\ u.store.chain = s.store.chain
        /\ Settles(s, u)
    BY <2>2, <2>3, <2>4, <2>5, <2>6, CancelledSettles, SameSettles, SettlesOn DEF Same, Served
  <2> QED
    BY <2>7 DEF u
<1>4. CASE ~s.store.maintenance /\ ready # {}
  <2>1. u = GiveUp(t, {queue[i] : i \in 1 .. first - 1})
    BY <1>4 DEF StartNextWrite
  <2>2. first \in 1 .. Len(queue)
    <3>1. ready \in SUBSET Nat /\ ready \subseteq 1 .. Len(queue)
      BY <1>1
    <3>2. \E i \in ready : \A j \in ready : i <= j
      BY <1>4, <3>1, LeastNumber
    <3>3. first \in ready
      BY <3>2
    <3> QED
      BY <3>1, <3>3
  <2> HIDE DEF ready, first
  <2>3. /\ rest \in Seq(Request) /\ Len(rest) = Len(queue) - first
        /\ \A j \in 1 .. Len(queue) - first : rest[j] = queue[first + j]
        /\ Range(rest) \subseteq Range(queue)
    BY <1>1, <2>2, RestElements
  <2>4. queue[first] \in Request /\ queue[first] \in Pending(s)
    BY <1>1, <2>2, PendingAre
  <2>5. begun \in WriteRec /\ begun.request = queue[first] /\ begun.phase = "started"
    BY <1>1, <2>4 DEF WriteRec, StoreRec
  <2>6. begun # NoWrite
    BY DEF NoWrite
  <2> HIDE DEF begun, rest
  <2>7. /\ t \in AppRec /\ t.store.queue = rest /\ t.write = begun
        /\ t.run = s.run /\ t.dialog = s.dialog
        /\ t.store.chain = s.store.chain /\ t.store.used = s.store.used
        /\ t.store.maintenance = s.store.maintenance /\ t.store.running = TRUE
    BY <1>1, <2>3, <2>5 DEF AppRec, StoreRec
  <2> HIDE DEF t
  <2>8. Listed(t) = Listed(s) /\ Pending(t) = Range(rest) \cup {queue[first]}
    BY <2>5, <2>6, <2>7 DEF Listed, Pending
  <2>9. Pending(t) \subseteq Pending(s)
    BY <2>3, <2>4, <2>8 DEF Pending
  <2>10. StoreKept(t)
    BY <1>4, <2>6, <2>7, <2>8 DEF Kept, StoreKept
  <2>11. \A i, j \in 1 .. Len(queue) : i < j => Follows(queue[i], queue[j])
    BY <1>1 DEF Kept, QueueKept
  <2>12. DOMAIN rest = 1 .. Len(queue) - first
    BY <2>3, <2>2
  <2>13. ASSUME NEW i \in DOMAIN rest, NEW j \in DOMAIN rest, i < j
         PROVE  Follows(rest[i], rest[j])
    <3>1. i \in 1 .. Len(queue) - first /\ j \in 1 .. Len(queue) - first /\ i < j
      BY <2>12, <2>13
    <3>2. Len(queue) \in Nat
      BY <1>1
    <3> HIDE DEF queue
    <3>3. /\ first + i \in 1 .. Len(queue) /\ first + j \in 1 .. Len(queue)
          /\ first + i < first + j
      BY <2>2, <3>1, <3>2
    <3>4. rest[i] = queue[first + i] /\ rest[j] = queue[first + j]
      BY <2>3, <3>1
    <3> QED
      BY <2>11, <3>3, <3>4
  <2>14. ASSUME NEW r \in Range(rest)
         PROVE  Follows(queue[first], r)
    <3>1. PICK j \in 1 .. Len(queue) - first : r = rest[j]
      BY <2>12 DEF Range
    <3>2. r = queue[first + j] /\ first + j \in 1 .. Len(queue) /\ first < first + j
      BY <1>1, <2>2, <2>3, <3>1
    <3> QED
      BY <2>2, <2>11, <3>2
  <2>15. QueueKept(t, a, c)
    <3>1. t.store.used = s.store.used /\ t.store.queue = rest /\ t.write.request = queue[first]
      BY <2>5, <2>7
    <3>2. \A q \in Pending(t) :
           /\ q.uid \in s.store.used /\ (q.create => q.uid \notin Listed(s))
           /\ a[q.uid] <= q.content.version /\ q.content.version <= c
      BY <2>9 DEF Kept, QueueKept
    <3> HIDE DEF queue
    <3> QED
      BY <2>8, <2>13, <2>14, <3>1, <3>2 DEF QueueKept
  <2>16. FilesKept(t, d, a)
    BY <2>5, <2>7, <2>8 DEF Kept, FilesKept
  <2>17. RunKept(t.run, t.store.chain, a)
    BY <2>7 DEF Kept
  <2>18. Kept(t, d, a, c)
    BY <2>7, <2>10, <2>15, <2>16, <2>17 DEF Kept
  <2>19. u \in AppRec /\ Same(t, u) /\ Hears(t, u)
    BY <2>1, <2>7, GiveUpIsSame
  <2>20. Kept(u, d, a, c)
    BY <2>18, <2>19, SameKept
  <2> HIDE DEF u
  <2>21. /\ Kept(u, d, a, c) /\ Served(u) /\ u.run = s.run /\ u.store.chain = s.store.chain
         /\ Settles(s, u)
    <3>1. Settles(s, t)
      BY <2>7, <2>9 DEF Settles, Hears
    <3> QED
      BY <2>7, <2>19, <2>20, <3>1, SameSettles, SettlesOn DEF Same, Served
  <2> QED
    BY <2>21 DEF u
<1> QED
  BY <1>2, <1>3, <1>4

LEMMA StoreSet ==
    ASSUME NEW s \in AppRec, NEW held \in StoreRec
    PROVE  LET t == [s EXCEPT !.store = held]
           IN t \in AppRec /\ t.store = held /\ t.write = s.write /\ t.dialog = s.dialog /\ t.run = s.run
BY DEF AppRec

\* The end of a write, before the next.
Idle(s) == [s EXCEPT !.write = NoWrite, !.store.running = FALSE]

LEMMA IdleIs ==
    ASSUME NEW s \in AppRec
    PROVE  LET v == Idle(s)
           IN /\ v \in AppRec /\ v.write = NoWrite /\ v.run = s.run /\ v.dialog = s.dialog
              /\ v.store.queue = s.store.queue /\ v.store.chain = s.store.chain
              /\ v.store.used = s.store.used /\ v.store.maintenance = s.store.maintenance
              /\ ~v.store.running /\ Listed(v) = Listed(s)
              /\ Pending(v) = Range(s.store.queue)
<1> DEFINE v == Idle(s)
           held == [s.store EXCEPT !.running = FALSE]
<1>1. v = [s EXCEPT !.write = NoWrite, !.store = held]
  BY DEF Idle
<1>2. /\ held \in StoreRec /\ held.queue = s.store.queue /\ held.chain = s.store.chain
      /\ held.used = s.store.used /\ held.maintenance = s.store.maintenance
      /\ ~held.running
  BY DEF AppRec, StoreRec
<1> HIDE DEF v, held
<1>3. v \in AppRec /\ v.write = NoWrite /\ v.run = s.run /\ v.dialog = s.dialog /\ v.store = held
  BY <1>1, <1>2 DEF AppRec
<1>4. Listed(v) = Listed(s) /\ Pending(v) = Range(s.store.queue)
  BY <1>2, <1>3 DEF Listed, Pending
<1> QED
  BY <1>2, <1>3, <1>4 DEF v

LEMMA IdleKept ==
    ASSUME NEW s, NEW d, NEW a, NEW c, Kept(s, d, a, c)
    PROVE  Kept(Idle(s), d, a, c)
<1> DEFINE v == Idle(s)
<1>1. s \in AppRec
  BY DEF Kept
<1>2. /\ v \in AppRec /\ v.write = NoWrite /\ v.run = s.run
      /\ v.store.queue = s.store.queue /\ v.store.chain = s.store.chain
      /\ v.store.used = s.store.used /\ v.store.maintenance = s.store.maintenance
      /\ ~v.store.running /\ Listed(v) = Listed(s)
      /\ Pending(v) = Range(s.store.queue)
  BY <1>1, IdleIs
<1> HIDE DEF v
<1>3. StoreKept(v)
  BY <1>2 DEF Kept, StoreKept
<1>4. QueueKept(v, a, c)
  <2>1. Pending(v) \subseteq Pending(s)
    BY <1>2 DEF Pending
  <2> QED
    BY <1>2, <2>1 DEF Kept, QueueKept
<1>5. FilesKept(v, d, a)
  BY <1>2 DEF Kept, FilesKept, NoWrite
<1>6. Kept(v, d, a, c)
  BY <1>2, <1>3, <1>4, <1>5 DEF Kept
<1> QED
  BY <1>6 DEF v

\* The slot goes on with the next write, from what it has left.
LEMMA NextOrIdleKept ==
    ASSUME NEW s, NEW d, NEW a, NEW c, s \in AppRec, Kept(Idle(s), d, a, c)
    PROVE  LET u == NextOrIdle(s)
           IN /\ Kept(u, d, a, c) /\ Served(u) /\ u.run = s.run /\ u.store.chain = s.store.chain
              /\ Settles(s, u)
<1> DEFINE v == Idle(s)
<1>1. v.write = NoWrite /\ v.run = s.run /\ v.dialog = s.dialog /\ v.store.chain = s.store.chain
  BY IdleIs
<1>5. Pending(v) \subseteq Pending(s)
  BY IdleIs DEF Pending
<1>2. NextOrIdle(s) = StartNextWrite(v)
  BY DEF NextOrIdle, Idle
<1> HIDE DEF v
<1>3. Kept(v, d, a, c)
  BY DEF v
<1>4. LET u == StartNextWrite(v)
      IN /\ Kept(u, d, a, c) /\ Served(u) /\ u.run = v.run /\ u.store.chain = v.store.chain
         /\ Settles(v, u)
  BY <1>1, <1>3, StartNextWriteKept
<1>6. Settles(s, v)
  BY <1>1, <1>5 DEF Settles, Hears
<1> QED
  BY <1>1, <1>2, <1>4, <1>6, SettlesOn

\* A request joins the queue when it is newer than what is pending for its step.
LEMMA EnqueueWriteKept ==
    ASSUME NEW s, NEW d, NEW a, NEW c, Kept(s, d, a, c), Served(s), NEW q \in Request,
           q.uid \in s.store.used, q.create => q.uid \notin Listed(s),
           a[q.uid] <= q.content.version, q.content.version <= c,
           \A p \in Pending(s) : Follows(p, q)
    PROVE  LET u == EnqueueWrite(s, q)
           IN /\ Kept(u, d, a, c) /\ Served(u) /\ u.run = s.run /\ u.store.chain = s.store.chain
              /\ Hears(s, u) /\ \A p \in Pending(u) : p.create \/ p \in Pending(s) \/ p = q
<1> DEFINE longer == Append(s.store.queue, q)
           held == [s.store EXCEPT !.queue = longer]
           t == [s EXCEPT !.store.queue = Append(@, q)]
           u == EnqueueWrite(s, q)
<1>1. s \in AppRec /\ s.store \in StoreRec /\ s.store.queue \in Seq(Request)
  BY DEF Kept, AppRec, StoreRec
<1>2. CASE ~AcceptsChanges(s)
  BY <1>2 DEF EnqueueWrite, Hears
<1>3. CASE AcceptsChanges(s)
  <2>1. /\ longer \in Seq(Request) /\ Len(longer) = Len(s.store.queue) + 1
        /\ longer[Len(s.store.queue) + 1] = q
        /\ \A j \in 1 .. Len(s.store.queue) : longer[j] = s.store.queue[j]
        /\ Range(longer) = Range(s.store.queue) \cup {q}
    BY <1>1, AppendElements
  <2>2. t = [s EXCEPT !.store = held]
    OBVIOUS
  <2>3. u = IF s.store.running THEN t ELSE StartNextWrite(t)
    BY <1>3 DEF EnqueueWrite
  <2> HIDE DEF longer, t, u
  <2>4. /\ held \in StoreRec /\ held.queue = longer /\ held.chain = s.store.chain
        /\ held.used = s.store.used /\ held.maintenance = s.store.maintenance
        /\ held.running = s.store.running
    BY <1>1, <2>1 DEF StoreRec
  <2> HIDE DEF held
  <2>5. /\ t \in AppRec /\ t.store = held /\ t.write = s.write
        /\ t.dialog = s.dialog /\ t.run = s.run
    BY <1>1, <2>2, <2>4, StoreSet
  <2>6. Listed(t) = Listed(s) /\ Pending(t) = Pending(s) \cup {q}
    BY <2>1, <2>4, <2>5 DEF Listed, Pending
  <2>7. StoreKept(t)
    BY <1>3, <2>4, <2>5, <2>6 DEF Kept, StoreKept, AcceptsChanges
  <2>8. ASSUME NEW i \in DOMAIN longer, NEW j \in DOMAIN longer, i < j
        PROVE  Follows(longer[i], longer[j])
    <3> DEFINE n == Len(s.store.queue)
    <3>1. n \in Nat /\ DOMAIN longer = 1 .. n + 1 /\ DOMAIN s.store.queue = 1 .. n
      BY <1>1, <2>1
    <3>2. i \in 1 .. n /\ longer[i] = s.store.queue[i] /\ s.store.queue[i] \in Pending(s)
      BY <1>1, <2>1, <2>8, <3>1, PendingAre
    <3>3. CASE j \in 1 .. n
      BY <2>1, <2>8, <3>1, <3>2, <3>3 DEF Kept, QueueKept
    <3>4. CASE j = n + 1
      BY <2>1, <3>2, <3>4
    <3> QED
      BY <3>1, <3>3, <3>4
  <2>9. ASSUME s.write # NoWrite, NEW r \in Range(longer)
        PROVE  Follows(s.write.request, r)
    <3>1. s.write.request \in Pending(s)
      BY <1>1, <2>9, PendingAre
    <3> QED
      BY <2>1, <2>9, <3>1 DEF Kept, QueueKept
  <2>10. QueueKept(t, a, c)
    <3>1. t.store.queue = longer /\ t.store.used = s.store.used /\ t.write = s.write
      BY <2>4, <2>5
    <3>2. \A p \in Pending(s) :
             /\ p.uid \in s.store.used /\ (p.create => p.uid \notin Listed(s))
             /\ a[p.uid] <= p.content.version /\ p.content.version <= c
      BY DEF Kept, QueueKept
    <3> QED
      BY <2>6, <2>8, <2>9, <3>1, <3>2 DEF QueueKept
  <2>11. FilesKept(t, d, a)
    BY <2>4, <2>5, <2>6 DEF Kept, FilesKept
  <2>12. Kept(t, d, a, c)
    BY <2>4, <2>5, <2>7, <2>10, <2>11 DEF Kept
  <2>13. CASE s.store.running
    BY <2>3, <2>4, <2>5, <2>6, <2>12, <2>13 DEF Served, Hears, u
  <2>14. CASE ~s.store.running
    <3>1. t.write = NoWrite
      BY <2>4, <2>5, <2>12, <2>14 DEF Kept, StoreKept
    <3>2. LET w == StartNextWrite(t)
          IN /\ Kept(w, d, a, c) /\ Served(w) /\ w.run = t.run /\ w.store.chain = t.store.chain
             /\ Settles(t, w)
      BY <2>12, <3>1, StartNextWriteKept
    <3> QED
      BY <2>3, <2>4, <2>5, <2>6, <2>14, <3>2 DEF Settles, Hears, u
  <2> QED
    BY <2>13, <2>14
<1> QED
  BY <1>2, <1>3

-----------------------------------------------------------------------------
(* What actions have in common *)

\* A generation that is marked as void, or none.
Voided(r, t) ==
    t.phase = r.phase /\ (t.phase # "idle" => t = [r EXCEPT !.cancelled = TRUE] /\ t.cancelled)

\* The chain becomes another one, in which no pending step is listed, with
\* files d2 and confirmations b; what is pending stays so or is cancelled.
LEMMA ChainKept ==
    ASSUME NEW s, NEW d, NEW a, NEW c, Kept(s, d, a, c), NEW t \in AppRec,
           NEW e \in [Items -> Contents \cup {Absent}], NEW b \in [Items -> 0 .. MaxCalls],
           \A uid \in Items : b[uid] <= c,
           t.store.queue \in {s.store.queue, <<>>}, s.store.used \subseteq t.store.used,
           t.store.maintenance => t.store.queue = <<>>, t.store.running = s.store.running,
           t.write = NoWrite <=> s.write = NoWrite,
           t.write # NoWrite => t.write.request = s.write.request,
           \A i, j \in DOMAIN t.store.chain : t.store.chain[i].uid = t.store.chain[j].uid => i = j,
           Listed(t) \subseteq t.store.used,
           \A q \in Pending(s) : /\ q.create => q.uid \notin Listed(t)
                                 /\ b[q.uid] <= q.content.version,
           \A uid \in Items \ t.store.used : b[uid] = 0,
           \A uid \in Listed(t) : e[uid] # Absent /\ b[uid] <= e[uid].version,
           t.write.phase = "ended" /\ ~t.write.cancelled /\ ~t.write.failed =>
               e[t.write.request.uid] = t.write.request.content,
           Voided(s.run, t.run)
    PROVE  Kept(t, e, b, c)
<1>1. s \in AppRec /\ c \in 0 .. MaxCalls
  BY DEF Kept
<1>2. StoreKept(t)
  BY DEF Kept, StoreKept
<1>3. /\ DOMAIN t.store.queue \subseteq DOMAIN s.store.queue
      /\ \A i \in DOMAIN t.store.queue : t.store.queue[i] = s.store.queue[i]
      /\ Range(t.store.queue) \subseteq Range(s.store.queue)
  BY DEF Range
<1>4. Pending(t) \subseteq Pending(s)
  BY <1>3 DEF Pending
<1>5. QueueKept(t, b, c)
  <2>1. \A q \in Pending(t) :
             /\ q.uid \in t.store.used /\ (q.create => q.uid \notin Listed(t))
             /\ b[q.uid] <= q.content.version /\ q.content.version <= c
    BY <1>4 DEF Kept, QueueKept
  <2>2. \A i, j \in DOMAIN t.store.queue : i < j => Follows(t.store.queue[i], t.store.queue[j])
    BY <1>3 DEF Kept, QueueKept
  <2>3. t.write # NoWrite => \A r \in Range(t.store.queue) : Follows(t.write.request, r)
    BY <1>3 DEF Kept, QueueKept
  <2> QED
    BY <2>1, <2>2, <2>3 DEF QueueKept
<1>6. FilesKept(t, e, b)
  BY DEF FilesKept
<1>7. RunKept(t.run, t.store.chain, b)
  <2>1. s.run \in RunRec \cup {NoRun} /\ RunKept(s.run, s.store.chain, a)
    BY DEF Kept, AppRec
  <2> QED
    BY <2>1, VoidRunKept DEF Voided
<1> QED
  BY <1>1, <1>2, <1>5, <1>6, <1>7 DEF Kept

\* The worker goes on with its request.
LEMMA WriteKept ==
    ASSUME NEW s, NEW d, NEW a, NEW c, Kept(s, d, a, c), NEW t \in AppRec,
           NEW e \in [Items -> Contents \cup {Absent}],
           t.store = s.store, t.run = s.run, s.write # NoWrite, t.write # NoWrite,
           t.write.request = s.write.request, FilesKept(t, e, a)
    PROVE  Kept(t, e, a, c)
<1>1. Listed(t) = Listed(s) /\ Pending(t) = Pending(s)
  BY DEF Listed, Pending
<1>2. StoreKept(t)
  BY <1>1 DEF Kept, StoreKept
<1>3. QueueKept(t, a, c)
  BY <1>1 DEF Kept, QueueKept
<1> QED
  BY <1>2, <1>3 DEF Kept

\* The generation goes on.
LEMMA RunOnlyKept ==
    ASSUME NEW s, NEW d, NEW a, NEW c, Kept(s, d, a, c), NEW t \in AppRec,
           t.store = s.store, t.write = s.write, RunKept(t.run, t.store.chain, a)
    PROVE  Kept(t, d, a, c)
<1>1. Listed(t) = Listed(s) /\ Pending(t) = Pending(s)
  BY DEF Listed, Pending
<1>2. StoreKept(t)
  BY <1>1 DEF Kept, StoreKept
<1>3. QueueKept(t, a, c)
  BY <1>1 DEF Kept, QueueKept
<1>4. FilesKept(t, d, a)
  BY <1>1 DEF Kept, FilesKept
<1> QED
  BY <1>2, <1>3, <1>4 DEF Kept

LEMMA CallsKept ==
    ASSUME NEW s, NEW d, NEW a, NEW c, Kept(s, d, a, c), NEW more \in 0 .. MaxCalls, c <= more
    PROVE  Kept(s, d, a, more)
<1>1. c \in 0 .. MaxCalls /\ MaxCalls \in Nat
  BY ItemsAssumption DEF Kept
<1>2. ASSUME NEW q \in Pending(s) PROVE q.content.version <= more
  <2>1. q.content.version <= c /\ q \in Request
    BY PendingAre DEF Kept, QueueKept
  <2>2. q.content.version \in Nat
    BY <2>1, <1>1 DEF Request, Contents
  <2> QED
    BY <1>1, <2>1, <2>2
<1>3. QueueKept(s, a, more)
  BY <1>2 DEF Kept, QueueKept
<1>4. \A uid \in Items : a[uid] <= more
  BY <1>1 DEF Kept
<1> QED
  BY <1>3, <1>4 DEF Kept

LEMMA CalledMore ==
    ASSUME calls \in 0 .. MaxCalls, Called
    PROVE  calls' \in 0 .. MaxCalls /\ calls <= calls' /\ calls' = calls + 1
BY ItemsAssumption DEF Called

\* What the invariant says of the application.
LEMMA AppKept ==
    ASSUME IInv
    PROVE  /\ app \in AppRec /\ Kept(app, disk, acked, calls) /\ Served(app)
           /\ disk \in [Items -> Contents \cup {Absent}] /\ acked \in [Items -> 0 .. MaxCalls]
           /\ calls \in 0 .. MaxCalls
BY DEF IInv, Kept

\* The files of the steps, known by what is written to one of them.
LEMMA FileWritten ==
    ASSUME NEW d \in [Items -> Contents \cup {Absent}], NEW uid \in Items,
           NEW file \in Contents \cup {Absent}
    PROVE  LET e == [d EXCEPT ![uid] = file]
           IN /\ e \in [Items -> Contents \cup {Absent}] /\ e[uid] = file
              /\ \A other \in Items \ {uid} : e[other] = d[other]
OBVIOUS

LEMMA ContentsAre ==
    ASSUME NEW content \in Contents
    PROVE  /\ content # Absent /\ content.version \in 0 .. MaxCalls /\ content.version \in Nat
           /\ Template \in Contents /\ Template.version = 0
BY ItemsAssumption DEF Contents, Absent, Template

-----------------------------------------------------------------------------
(* The worker *)

LEMMA WorkerPreparesKept ==
    ASSUME IInv, WorkerPrepares
    PROVE  /\ Kept(app', disk', acked', calls') /\ Served(app') /\ IndexKept'
           /\ Settles(app, app')
<1>1. app \in AppRec /\ Kept(app, disk, acked, calls) /\ Served(app)
  BY AppKept
<1>2. write \in WriteRec /\ write # NoWrite
  BY <1>1, Shapes, AppIsRecord DEF WorkerPrepares, NoWrite
<1>3. /\ write' \in WriteRec /\ write'.request = write.request
      /\ ~(write'.phase = "ended" /\ ~write'.cancelled /\ ~write'.failed)
  BY <1>2 DEF WorkerPrepares, WriteRec
<1>4. write' # NoWrite
  BY <1>3 DEF WriteRec, NoWrite
<1> DEFINE t == app'
<1>5. /\ t \in AppRec /\ t.store = app.store /\ t.run = app.run /\ t.write = write'
      /\ t.dialog = app.dialog
  BY <1>1, <1>3 DEF WorkerPrepares, app, AppRec
<1> HIDE DEF t
<1>6. Listed(t) = Listed(app)
  BY <1>5 DEF Listed
<1>7. FilesKept(t, disk, acked)
  BY <1>1, <1>3, <1>5, <1>6 DEF Kept, FilesKept
<1>8. Kept(t, disk, acked, calls)
  <2>1. disk \in [Items -> Contents \cup {Absent}]
    BY <1>1 DEF Kept
  <2> QED
    BY <1>1, <1>2, <1>3, <1>4, <1>5, <1>7, <2>1, AppIsRecord, WriteKept
<1>9. Served(t)
  BY <1>1, <1>5 DEF Served
<1>10. IndexKept'
  BY DEF WorkerPrepares, IInv, IndexKept
<1>11. Settles(app, t)
  BY <1>2, <1>3, <1>4, <1>5, AppIsRecord DEF Settles, Hears, Pending
<1> QED
  BY <1>5, <1>8, <1>9, <1>10, <1>11 DEF t, WorkerPrepares

LEMMA WorkerCommitsKept ==
    ASSUME IInv, WorkerCommits
    PROVE  /\ Kept(app', disk', acked', calls') /\ Served(app') /\ IndexKept'
           /\ Settles(app, app')
<1>1. /\ app \in AppRec /\ Kept(app, disk, acked, calls) /\ Served(app)
      /\ disk \in [Items -> Contents \cup {Absent}]
  BY AppKept
<1>2. write \in WriteRec /\ write # NoWrite
  BY <1>1, Shapes, AppIsRecord DEF WorkerCommits, NoWrite
<1> DEFINE uid == write.request.uid
           content == write.request.content
<1>3. uid \in Items /\ content \in Contents /\ content # Absent /\ write.request \in Pending(app)
  BY <1>1, <1>2, PendingAre, AppIsRecord, ContentsAre DEF WriteRec, Request
<1>4. /\ write' \in WriteRec /\ write'.request = write.request
      /\ \/ disk' = disk /\ write'.failed
         \/ disk' = [disk EXCEPT ![uid] = content]
  BY <1>2 DEF WorkerCommits, WriteRec
<1>5. write' # NoWrite
  BY <1>4 DEF WriteRec, NoWrite
<1> DEFINE t == app'
<1>6. /\ t \in AppRec /\ t.store = app.store /\ t.run = app.run /\ t.write = write'
      /\ t.dialog = app.dialog
  BY <1>1, <1>4 DEF WorkerCommits, app, AppRec
<1> HIDE DEF t, uid, content
<1>7. Listed(t) = Listed(app) /\ Listed(app) \subseteq Items
  BY <1>1, <1>6, ListedAre DEF Listed
<1>8. acked[uid] <= content.version
  BY <1>1, <1>3 DEF Kept, QueueKept, uid, content
<1>9. /\ disk' \in [Items -> Contents \cup {Absent}]
      /\ \A other \in Listed(app) : disk'[other] # Absent /\ acked[other] <= disk'[other].version
      /\ ~t.write.failed => disk'[uid] = content
  <2>1. \A other \in Listed(app) : disk[other] # Absent /\ acked[other] <= disk[other].version
    BY <1>1 DEF Kept, FilesKept
  <2>2. CASE disk' = disk /\ write'.failed
    BY <1>1, <1>6, <2>1, <2>2
  <2>3. CASE disk' = [disk EXCEPT ![uid] = content]
    BY <1>1, <1>3, <1>7, <1>8, <2>1, <2>3
  <2> QED
    BY <1>4, <2>2, <2>3 DEF uid, content
<1>10. FilesKept(t, disk', acked)
  BY <1>1, <1>4, <1>6, <1>7, <1>9 DEF Kept, FilesKept, uid, content
<1>11. Kept(t, disk', acked, calls)
  BY <1>1, <1>2, <1>4, <1>5, <1>6, <1>9, <1>10, AppIsRecord, WriteKept
<1>12. Served(t)
  BY <1>1, <1>6 DEF Served
<1>13. IndexKept'
  BY DEF WorkerCommits, IInv, IndexKept
<1>14. Settles(app, t)
  BY <1>2, <1>4, <1>5, <1>6, AppIsRecord DEF Settles, Hears, Pending
<1> QED
  BY <1>6, <1>11, <1>12, <1>13, <1>14 DEF t, WorkerCommits

LEMMA FinishUpdateKept ==
    ASSUME IInv, FinishUpdate
    PROVE  /\ Kept(app', disk', acked', calls') /\ Served(app') /\ IndexKept'
           /\ DialogKept(app')
           /\ dialog.state = "saving" /\ dialog'.state = "closed" =>
                /\ write.phase = "ended" /\ write.request.uid = dialog.uid
                /\ disk[dialog.uid] = write.request.content /\ dialog.uid \in Listed(app)
                /\ ~dialog.behind => disk[dialog.uid].version = dialog.asked
<1> DEFINE uid == write.request.uid
           content == write.request.content
           success == WriteCounts(app) /\ uid \in Listed(app)
           t == IF success THEN ChainChanged(app) ELSE app
           w == ItemContentSaved(t, uid, success)
           v == Idle(app)
           z == Idle(w)
           u == NextOrIdle(w)
<1>1. /\ app \in AppRec /\ Kept(app, disk, acked, calls) /\ Kept(v, disk, acked, calls)
      /\ disk \in [Items -> Contents \cup {Absent}] /\ acked \in [Items -> 0 .. MaxCalls]
  BY AppKept, IdleKept
<1>2. write \in WriteRec /\ write # NoWrite /\ write.phase = "ended"
  BY <1>1, Shapes, AppIsRecord DEF FinishUpdate, NoWrite
<1>3. uid \in Items /\ content \in Contents /\ write.request \in Pending(app) /\ content.version \in 0 .. MaxCalls
  BY <1>1, <1>2, PendingAre, AppIsRecord, ContentsAre DEF WriteRec, Request
<1>4. success \in BOOLEAN
  BY DEF WriteCounts
<1>5. /\ t \in AppRec /\ t.store = app.store /\ t.write = app.write /\ t.dialog = app.dialog
      /\ IF success THEN Voided(app.run, t.run) ELSE t.run = app.run
  BY <1>1, ChainChangedIs DEF Voided
<1>6. /\ Apply(u) /\ acked' = IF success THEN [acked EXCEPT ![uid] = content.version] ELSE acked
      /\ UNCHANGED <<disk, calls, index, saveFailures>> /\ IndexKept
  BY DEF FinishUpdate, IInv
<1>7. success => /\ ~write.cancelled /\ ~write.failed /\ uid \in Listed(app)
                 /\ disk[uid] = content
  BY <1>1, <1>2, AppIsRecord DEF WriteCounts, Kept, FilesKept
<1> HIDE DEF success, t
<1>8. /\ w \in AppRec /\ Same(t, w)
      /\ \/ Hears(t, w)
         \/ success /\ t.dialog.state = "saving" /\ t.dialog.uid = uid /\ w.dialog = Closed
  BY <1>3, <1>4, <1>5, AnswerIsSame
<1> HIDE DEF w, u
<1>9. /\ z \in AppRec /\ z.write = NoWrite /\ z.run = w.run /\ ~z.store.running
      /\ z.store.queue = app.store.queue /\ z.store.chain = app.store.chain
      /\ z.store.used = app.store.used /\ z.store.maintenance = app.store.maintenance
      /\ z.dialog = w.dialog /\ Pending(z) = Range(app.store.queue)
  BY <1>5, <1>8, IdleIs DEF Same
<1>10. /\ v \in AppRec /\ v.write = NoWrite /\ v.run = app.run /\ ~v.store.running
       /\ v.store.queue = app.store.queue /\ v.store.chain = app.store.chain
       /\ v.store.used = app.store.used /\ v.store.maintenance = app.store.maintenance
       /\ Listed(v) = Listed(app) /\ Pending(v) = Range(app.store.queue)
  BY <1>1, IdleIs
<1> HIDE DEF v, z
<1>11. Listed(z) = Listed(v)
  BY <1>9, <1>10 DEF Listed
<1>12. Kept(z, disk, acked', calls)
  <2>1. CASE success
    <3> DEFINE b == [acked EXCEPT ![uid] = content.version]
    <3>1. /\ b \in [Items -> 0 .. MaxCalls] /\ b[uid] = content.version
          /\ \A other \in Items \ {uid} : b[other] = acked[other]
      BY <1>1, <1>3
    <3>2. acked' = b
      BY <1>6, <2>1
    <3> HIDE DEF b
    <3>3. ASSUME NEW q \in Pending(v)
          PROVE  (q.create => q.uid \notin Listed(z)) /\ b[q.uid] <= q.content.version
      <4>1. /\ q \in Pending(app) /\ q \in Request /\ Follows(write.request, q)
            /\ acked[q.uid] <= q.content.version /\ (q.create => q.uid \notin Listed(v))
        <5>1. q \in Range(app.store.queue)
          BY <1>10
        <5>2. Follows(write.request, q)
          BY <1>1, <1>2, <5>1, AppIsRecord DEF Kept, QueueKept
        <5>3. q \in Pending(app) /\ q \in Request
          BY <1>1, <5>1, PendingAre
        <5> QED
          BY <1>1, <1>10, <5>2, <5>3 DEF Kept, QueueKept
      <4>2. q.uid \in Items
        BY <4>1 DEF Request
      <4> QED
        BY <1>11, <3>1, <4>1, <4>2 DEF Follows, uid, content
    <3>4. \A i \in Items \ z.store.used : b[i] = 0
      <4>1. uid \in app.store.used /\ \A i \in Items \ app.store.used : acked[i] = 0
        BY <1>1, <1>3 DEF Kept, QueueKept, FilesKept, uid
      <4> QED
        BY <1>9, <3>1, <4>1
    <3>5. \A i \in Listed(z) : disk[i] # Absent /\ b[i] <= disk[i].version
      <4>1. Listed(z) \subseteq Items
        BY <1>9, ListedAre
      <4>2. \A i \in Listed(z) : disk[i] # Absent /\ acked[i] <= disk[i].version
        BY <1>1, <1>11 DEF Kept, FilesKept
      <4> QED
        BY <1>3, <1>7, <2>1, <3>1, <4>1, <4>2 DEF Contents
    <3>6. \A i, j \in DOMAIN z.store.chain : z.store.chain[i].uid = z.store.chain[j].uid => i = j
      BY <1>1, <1>9 DEF Kept, StoreKept
    <3>7. /\ Listed(z) \subseteq z.store.used
          /\ z.store.maintenance => z.store.queue = <<>>
      BY <1>1, <1>9, <1>10, <1>11 DEF Kept, StoreKept
    <3>8. Voided(v.run, z.run)
      BY <1>5, <1>8, <1>9, <1>10, <2>1 DEF Same
    <3>9. /\ z.store.queue \in {v.store.queue, <<>>} /\ v.store.used \subseteq z.store.used
          /\ z.store.running = v.store.running
      <4>1. z.store.running \in BOOLEAN /\ v.store.running \in BOOLEAN
        BY <1>9, <1>10 DEF AppRec, StoreRec
      <4> QED
        BY <1>9, <1>10, <4>1
    <3>10. ~(z.write.phase = "ended")
      BY <1>9 DEF NoWrite
    <3>11. \A i \in Items : b[i] <= calls
      BY <1>1, <1>3, <3>1 DEF Kept, QueueKept, content
    <3> QED
      BY <1>1, <1>9, <1>10, <3>1, <3>2, <3>3, <3>4, <3>5, <3>6, <3>7, <3>8, <3>9, <3>10, <3>11, ChainKept
  <2>2. CASE ~success
    <3>1. acked' = acked /\ z.run = v.run
      BY <1>5, <1>6, <1>8, <1>9, <1>10, <2>2 DEF Same
    <3>2. z.store = v.store
      BY <1>5, <1>8, <1>9, <1>10 DEF Same, z, v, Idle, AppRec
    <3>3. Same(v, z)
      BY <1>9, <1>10, <3>1, <3>2 DEF Same
    <3> QED
      BY <1>1, <1>9, <3>1, <3>3, SameKept
  <2> QED
    BY <2>1, <2>2
<1>13. /\ Kept(u, disk, acked', calls) /\ Served(u) /\ u.store.chain = w.store.chain
       /\ Settles(w, u)
  BY <1>8, <1>12, NextOrIdleKept DEF u, z
<1>14. app' = u
  BY <1>6, <1>13, ApplyIsApp DEF Kept
<1>15. dialog' = u.dialog /\ store' = u.store
  BY <1>6 DEF Apply
<1>16. dialog.state = "saving" /\ dialog'.state = "closed" => success /\ dialog.uid = uid
  BY <1>5, <1>8, <1>13, <1>15, AppIsRecord DEF Settles, Hears
<1>17. IndexKept'
  BY <1>5, <1>6, <1>8, <1>13, <1>15, AppIsRecord DEF IndexKept, Same
<1>18. DialogKept(app) /\ ~write.request.create
  BY DEF IInv, FinishUpdate
<1>19. DialogKept(u)
  <2>1. Pending(w) = Pending(app)
    BY <1>5, <1>8 DEF Same, Pending
  <2>2. u.dialog = app.dialog \/ u.dialog.state # "saving"
    BY <1>5, <1>8, <1>13 DEF Settles, Hears, Closed
  <2> QED
    BY <1>13, <1>18, <2>1, <2>2 DEF DialogKept, Unanswered, Settles
<1>20. dialog.state = "saving" /\ ~dialog.behind /\ dialog.uid = uid => content.version = dialog.asked
  BY <1>3, <1>18, AppIsRecord DEF DialogKept, Unanswered
<1> QED
  BY <1>2, <1>6, <1>7, <1>13, <1>14, <1>16, <1>17, <1>19, <1>20

LEMMA FinishCreationKept ==
    ASSUME IInv, FinishCreation
    PROVE  /\ Kept(app', disk', acked', calls') /\ Served(app') /\ IndexKept'
           /\ Settles(app, app')
<1> DEFINE uid == write.request.uid
           content == write.request.content
           new == [uid |-> uid, enabled |-> TRUE]
           steps == Append(store.chain, new)
           held == [store EXCEPT !.chain = steps]
           listed == [app EXCEPT !.store.chain = Append(@, new)]
           t == ChainChanged(listed)
           v == Idle(app)
           z == Idle(t)
<1>1. /\ app \in AppRec /\ Kept(app, disk, acked, calls) /\ Kept(v, disk, acked, calls)
      /\ disk \in [Items -> Contents \cup {Absent}] /\ acked \in [Items -> 0 .. MaxCalls]
  BY AppKept, IdleKept
<1>2. write \in WriteRec /\ write # NoWrite /\ write.phase = "ended" /\ write.request.create
  BY <1>1, Shapes, AppIsRecord DEF FinishCreation, NoWrite
<1>3. /\ uid \in Items /\ content \in Contents /\ content # Absent
      /\ write.request \in Pending(app) /\ content.version \in 0 .. MaxCalls
  BY <1>1, <1>2, PendingAre, AppIsRecord, ContentsAre DEF WriteRec, Request
<1>4. uid \notin Listed(app) /\ uid \in store.used /\ acked[uid] <= content.version
  BY <1>1, <1>2, <1>3, AppIsRecord DEF Kept, QueueKept
<1>5. /\ v \in AppRec /\ v.write = NoWrite /\ v.run = app.run /\ ~v.store.running
      /\ v.store.queue = store.queue /\ v.store.chain = store.chain
      /\ v.store.used = store.used /\ v.store.maintenance = store.maintenance
      /\ Listed(v) = Listed(app) /\ Pending(v) = Range(store.queue)
  BY <1>1, IdleIs, AppIsRecord
<1>6. IndexKept
  BY DEF IInv
<1>7. CASE /\ WriteCounts(app) /\ Apply(NextOrIdle(t))
           /\ index' = listed.store.chain /\ UNCHANGED <<disk, saveFailures>>
           /\ UNCHANGED <<acked, calls>>
  <2>1. /\ store.chain \in Seq(Step) /\ new \in Step /\ store \in StoreRec
        /\ DOMAIN store.chain = 1 .. Len(store.chain) /\ Len(store.chain) \in Nat
    BY <1>1, <1>3, AppIsRecord DEF AppRec, StoreRec, Step
  <2>2. /\ steps \in Seq(Step) /\ Len(steps) = Len(store.chain) + 1
        /\ steps[Len(store.chain) + 1] = new
        /\ \A j \in 1 .. Len(store.chain) : steps[j] = store.chain[j]
    BY <2>1, AppendElements
  <2>3. listed = [app EXCEPT !.store = held]
    BY AppIsRecord
  <2>4. new.uid = uid
    OBVIOUS
  <2> HIDE DEF steps, listed, new
  <2>5. /\ held \in StoreRec /\ held.queue = store.queue /\ held.chain = steps
        /\ held.used = store.used /\ held.maintenance = store.maintenance
        /\ held.running = store.running
    BY <2>1, <2>2 DEF StoreRec
  <2> HIDE DEF held
  <2>6. /\ listed \in AppRec /\ listed.store = held /\ listed.write = write
        /\ listed.dialog = dialog /\ listed.run = run
    BY <1>1, <2>3, <2>5, StoreSet, AppIsRecord
  <2>7. /\ t \in AppRec /\ t.store = held /\ t.write = write /\ t.dialog = dialog
        /\ Voided(run, t.run)
    BY <2>6, ChainChangedIs DEF Voided
  <2> HIDE DEF t
  <2>8. /\ z \in AppRec /\ z.write = NoWrite /\ z.run = t.run /\ ~z.store.running
        /\ z.store.queue = store.queue /\ z.store.chain = steps
        /\ z.store.used = store.used /\ z.store.maintenance = store.maintenance
    BY <2>5, <2>7, IdleIs
  <2> HIDE DEF v, z
  <2>9. DOMAIN steps = 1 .. Len(store.chain) + 1
    BY <2>2
  <2>10. Listed(z) = Listed(app) \cup {uid}
    <3>1. Listed(z) = {steps[i].uid : i \in 1 .. Len(store.chain) + 1}
      BY <2>8, <2>9 DEF Listed
    <3>2. Listed(app) = {store.chain[i].uid : i \in 1 .. Len(store.chain)}
      BY <2>1, AppIsRecord DEF Listed
    <3>3. Len(store.chain) + 1 \in 1 .. Len(store.chain) + 1
      BY <2>1
    <3>4. \A i \in 1 .. Len(store.chain) : i \in 1 .. Len(store.chain) + 1
      BY <2>1
    <3>5. \A i \in 1 .. Len(store.chain) + 1 : i \in 1 .. Len(store.chain) \/ i = Len(store.chain) + 1
      BY <2>1
    <3> QED
      BY <2>2, <2>4, <3>1, <3>2, <3>3, <3>4, <3>5
  <2>11. ~write.failed /\ ~write.cancelled /\ disk[uid] = content
    BY <1>1, <1>2, <1>7, AppIsRecord DEF WriteCounts, Kept, FilesKept
  <2>12. \A i, j \in DOMAIN z.store.chain : z.store.chain[i].uid = z.store.chain[j].uid => i = j
    <3>1. \A i \in 1 .. Len(store.chain) : store.chain[i].uid # uid
      BY <1>1, <1>4, <2>1, ListedAre, AppIsRecord
    <3>2. \A i, j \in 1 .. Len(store.chain) : store.chain[i].uid = store.chain[j].uid => i = j
      BY <1>1, <2>1, AppIsRecord DEF Kept, StoreKept
    <3>3. \A i \in 1 .. Len(store.chain) + 1 : i \in 1 .. Len(store.chain) \/ i = Len(store.chain) + 1
      BY <2>1
    <3> QED
      BY <2>2, <2>4, <2>8, <2>9, <3>1, <3>2, <3>3
  <2>13. ASSUME NEW q \in Pending(v)
         PROVE  (q.create => q.uid \notin Listed(z)) /\ acked[q.uid] <= q.content.version
    <3>1. q \in Range(store.queue) /\ q \in Pending(app)
      BY <1>1, <1>5, AppIsRecord, PendingAre
    <3>2. Follows(write.request, q)
      BY <1>1, <1>2, <3>1, AppIsRecord DEF Kept, QueueKept
    <3>3. (q.create => q.uid \notin Listed(app)) /\ acked[q.uid] <= q.content.version
      BY <1>1, <3>1 DEF Kept, QueueKept
    <3> QED
      BY <1>2, <2>10, <3>2, <3>3 DEF Follows, uid
  <2>14. /\ Listed(z) \subseteq z.store.used
         /\ z.store.maintenance => z.store.queue = <<>>
    BY <1>1, <1>4, <2>8, <2>10, AppIsRecord DEF Kept, StoreKept
  <2>15. \A i \in Items \ z.store.used : acked[i] = 0
    BY <1>1, <2>8, AppIsRecord DEF Kept, FilesKept
  <2>16. \A i \in Listed(z) : disk[i] # Absent /\ acked[i] <= disk[i].version
    BY <1>1, <1>3, <1>4, <2>10, <2>11 DEF Kept, FilesKept
  <2>17. /\ z.store.queue \in {v.store.queue, <<>>} /\ v.store.used \subseteq z.store.used
         /\ z.store.running = v.store.running
    <3>1. z.store.running \in BOOLEAN /\ v.store.running \in BOOLEAN
      BY <1>5, <2>8 DEF AppRec, StoreRec
    <3> QED
      BY <1>5, <2>8, <3>1
  <2>18. ~(z.write.phase = "ended") /\ Voided(v.run, z.run)
    BY <1>5, <2>7, <2>8, AppIsRecord DEF NoWrite
  <2>19. Kept(z, disk, acked, calls)
    <3>1. \A i \in Items : acked[i] <= calls
      BY <1>1 DEF Kept
    <3> QED
      BY <1>1, <1>5, <2>8, <2>12, <2>13, <2>14, <2>15, <2>16, <2>17, <2>18, <3>1, ChainKept
  <2> DEFINE u == NextOrIdle(t)
  <2>20. /\ Kept(u, disk, acked, calls) /\ Served(u) /\ u.store.chain = t.store.chain
         /\ Settles(t, u)
    BY <2>7, <2>19, NextOrIdleKept DEF z
  <2> HIDE DEF u
  <2>21. app' = u /\ dialog' = u.dialog /\ store'.chain = u.store.chain
    BY <1>7, <2>20, ApplyIsApp DEF Kept, u, Apply
  <2>22. IndexKept'
    BY <1>6, <1>7, <2>2, <2>5, <2>6, <2>7, <2>20, <2>21 DEF IndexKept
  <2>23. Settles(app, t)
    BY <2>5, <2>7, AppIsRecord DEF Settles, Hears, Pending
  <2> QED
    BY <1>7, <2>20, <2>21, <2>22, <2>23, SettlesOn
<1>8. CASE /\ \/ UNCHANGED saveFailures
              \/ saveFailures' = saveFailures + 1
           /\ Apply(NextOrIdle(app)) /\ disk' = [disk EXCEPT ![uid] = Absent]
           /\ UNCHANGED index /\ UNCHANGED <<acked, calls>>
  <2> HIDE DEF v
  <2>1. /\ disk' \in [Items -> Contents \cup {Absent}]
        /\ \A other \in Listed(app) : disk'[other] = disk[other]
    <3>1. Listed(app) \subseteq Items
      BY <1>1, ListedAre
    <3> QED
      BY <1>1, <1>3, <1>4, <1>8, <3>1
  <2>2. FilesKept(v, disk', acked)
    <3>1. v.write.phase # "ended"
      BY <1>5 DEF NoWrite
    <3> QED
      BY <1>1, <1>5, <2>1, <3>1 DEF Kept, FilesKept
  <2>3. Kept(v, disk', acked, calls)
    BY <1>1, <2>1, <2>2 DEF Kept
  <2> DEFINE u == NextOrIdle(app)
  <2>4. /\ Kept(u, disk', acked, calls) /\ Served(u) /\ u.store.chain = app.store.chain
        /\ Settles(app, u)
    BY <1>1, <2>3, NextOrIdleKept DEF v
  <2> HIDE DEF u
  <2>5. app' = u /\ dialog' = u.dialog /\ store'.chain = u.store.chain
    BY <1>8, <2>4, ApplyIsApp DEF Kept, u, Apply
  <2>6. IndexKept'
    BY <1>6, <1>8, <2>4, <2>5, AppIsRecord DEF IndexKept
  <2> QED
    BY <1>8, <2>4, <2>5, <2>6, AppIsRecord
<1> QED
  BY <1>7, <1>8 DEF FinishCreation

-----------------------------------------------------------------------------
(* Changes of the chain *)

\* Every step is listed once.
Distinct(steps) == \A i, j \in DOMAIN steps : steps[i].uid = steps[j].uid => i = j

\* A step's place in the chain.
LEMMA IndexOfIs ==
    ASSUME NEW s \in AppRec, NEW uid \in Listed(s)
    PROVE  /\ IndexOf(s, uid) \in 1 .. Len(s.store.chain)
           /\ s.store.chain[IndexOf(s, uid)].uid = uid
<1>1. \E i \in DOMAIN s.store.chain : s.store.chain[i].uid = uid
  BY ListedAre
<1> QED
  BY <1>1, ListedAre DEF IndexOf

LEMMA DistinctRemoved ==
    ASSUME NEW steps \in Seq(Step), Distinct(steps), NEW at \in 1 .. Len(steps)
    PROVE  LET fewer == RemoveAt(steps, at)
           IN /\ fewer \in Seq(Step) /\ Len(fewer) = Len(steps) - 1 /\ Distinct(fewer)
              /\ \A i \in DOMAIN fewer : \E j \in DOMAIN steps \ {at} : fewer[i] = steps[j]
              /\ \A i \in DOMAIN fewer : fewer[i].uid # steps[at].uid
<1> DEFINE fewer == RemoveAt(steps, at)
           From(i) == IF i < at THEN i ELSE i + 1
<1>1. /\ fewer \in Seq(Step) /\ Len(fewer) = Len(steps) - 1
      /\ \A j \in 1 .. Len(steps) - 1 : fewer[j] = IF j < at THEN steps[j] ELSE steps[j + 1]
  BY RemoveAtProperties
<1>2. DOMAIN fewer = 1 .. Len(steps) - 1 /\ DOMAIN steps = 1 .. Len(steps) /\ Len(steps) \in Nat
  BY <1>1
<1> HIDE DEF fewer
<1>3. \A i \in 1 .. Len(steps) - 1 : /\ From(i) \in (1 .. Len(steps)) \ {at}
                                   /\ fewer[i] = steps[From(i)]
  BY <1>1, <1>2
<1>4. \A i, j \in 1 .. Len(steps) - 1 : From(i) = From(j) => i = j
  BY <1>2
<1> HIDE DEF From
<1>5. Distinct(fewer)
  <2>1. SUFFICES ASSUME NEW i \in 1 .. Len(steps) - 1, NEW j \in 1 .. Len(steps) - 1,
                        fewer[i].uid = fewer[j].uid
                 PROVE  i = j
    BY <1>2 DEF Distinct
  <2>2. From(i) = From(j)
    BY <1>2, <1>3, <2>1 DEF Distinct
  <2> QED
    BY <1>4, <2>2
<1>6. \A i \in DOMAIN fewer : \E j \in DOMAIN steps \ {at} : fewer[i] = steps[j]
  BY <1>2, <1>3
<1>7. \A i \in DOMAIN fewer : fewer[i].uid # steps[at].uid
  BY <1>2, <1>6 DEF Distinct
<1> QED
  BY <1>1, <1>5, <1>6, <1>7 DEF fewer

LEMMA DistinctInserted ==
    ASSUME NEW steps \in Seq(Step), Distinct(steps), NEW at \in 1 .. Len(steps) + 1, NEW new \in Step,
           \A i \in DOMAIN steps : steps[i].uid # new.uid
    PROVE  LET more == InsertAt(steps, at, new)
           IN /\ more \in Seq(Step) /\ Distinct(more)
              /\ \A i \in DOMAIN more : more[i] = new \/ \E j \in DOMAIN steps : more[i] = steps[j]
<1> DEFINE more == InsertAt(steps, at, new)
           From(i) == IF i < at THEN i ELSE i - 1
<1>1. /\ more \in Seq(Step) /\ Len(more) = Len(steps) + 1
      /\ \A j \in 1 .. Len(steps) + 1 :
            more[j] = IF j < at THEN steps[j] ELSE IF j = at THEN new ELSE steps[j - 1]
  BY InsertAtProperties
<1>2. DOMAIN more = 1 .. Len(steps) + 1 /\ DOMAIN steps = 1 .. Len(steps) /\ Len(steps) \in Nat
  BY <1>1
<1> HIDE DEF more
<1>3. \A i \in (1 .. Len(steps) + 1) \ {at} : From(i) \in 1 .. Len(steps) /\ more[i] = steps[From(i)]
  BY <1>1, <1>2
<1>4. \A i, j \in (1 .. Len(steps) + 1) \ {at} : From(i) = From(j) => i = j
  BY <1>2
<1>5. more[at] = new
  BY <1>1
<1> HIDE DEF From
<1>6. Distinct(more)
  <2>1. SUFFICES ASSUME NEW i \in 1 .. Len(steps) + 1, NEW j \in 1 .. Len(steps) + 1,
                        more[i].uid = more[j].uid
                 PROVE  i = j
    BY <1>2 DEF Distinct
  <2>2. CASE i # at /\ j # at
    <3>1. From(i) = From(j)
      BY <1>2, <1>3, <2>1, <2>2 DEF Distinct
    <3> QED
      BY <1>4, <2>2, <3>1
  <2>3. CASE i = at \/ j = at
    BY <1>2, <1>3, <1>5, <2>1, <2>3
  <2> QED
    BY <2>2, <2>3
<1>7. \A i \in DOMAIN more : more[i] = new \/ \E j \in DOMAIN steps : more[i] = steps[j]
  BY <1>2, <1>3, <1>5
<1> QED
  BY <1>1, <1>6, <1>7 DEF more

\* The chain alone is another one.
LEMMA StepsOnlySet ==
    ASSUME NEW s \in AppRec, NEW steps \in Seq(Step)
    PROVE  LET t == [s EXCEPT !.store.chain = steps]
           IN /\ t \in AppRec /\ t.write = s.write /\ t.dialog = s.dialog /\ t.run = s.run
              /\ t.store.chain = steps /\ t.store.used = s.store.used /\ t.store.queue = s.store.queue
              /\ t.store.maintenance = s.store.maintenance /\ t.store.running = s.store.running
<1> DEFINE held == [s.store EXCEPT !.chain = steps]
           t == [s EXCEPT !.store.chain = steps]
<1>1. s.store \in StoreRec
  BY DEF AppRec
<1>2. t = [s EXCEPT !.store = held]
  OBVIOUS
<1>3. /\ held \in StoreRec /\ held.chain = steps /\ held.used = s.store.used
      /\ held.queue = s.store.queue
      /\ held.maintenance = s.store.maintenance /\ held.running = s.store.running
  BY <1>1 DEF StoreRec
<1> HIDE DEF held, t
<1>4. t \in AppRec /\ t.store = held /\ t.write = s.write /\ t.dialog = s.dialog /\ t.run = s.run
  BY <1>2, <1>3, StoreSet
<1> QED
  BY <1>3, <1>4 DEF t

\* The index follows the chain, or its failure is on record.
LEMMA SaveKept ==
    ASSUME IndexKept, NEW s \in AppRec, Save(s), store'.chain = s.store.chain
    PROVE  IndexKept'
<1>1. s.store.chain \in Seq(Step)
  BY DEF AppRec, StoreRec
<1> QED
  BY <1>1 DEF Save, IndexKept

\* An action that gives the chain other steps, all of them listed before,
\* voids the generation and has the index saved.
LEMMA RearrangedKept ==
    ASSUME IInv, Called, NEW s, NEW t, NEW u, NEW e \in [Items -> Contents \cup {Absent}],
           s = app \/ Cancelled(app, s),
           t \in AppRec, t.write = s.write, t.dialog = s.dialog, t.run = s.run,
           t.store.used = s.store.used, t.store.queue = s.store.queue,
           t.store.maintenance = s.store.maintenance, t.store.running = s.store.running,
           Distinct(t.store.chain), Listed(t) \subseteq Listed(app),
           \A uid \in Listed(t) : e[uid] = disk[uid],
           e = disk \/ Cancelled(app, s),
           u = ChainChanged(t), Apply(u), Save(t), disk' = e, acked' = acked
    PROVE  /\ Kept(app', disk', acked', calls') /\ Served(app') /\ IndexKept'
           /\ Settles(app, app')
<1>1. /\ app \in AppRec /\ Kept(app, disk, acked, calls) /\ Served(app)
      /\ acked \in [Items -> 0 .. MaxCalls] /\ calls \in 0 .. MaxCalls
      /\ disk \in [Items -> Contents \cup {Absent}]
  BY AppKept
<1>2. Kept(app, disk, acked, calls')
  BY <1>1, CalledMore, CallsKept
<1>3. /\ u \in AppRec /\ u.store = t.store /\ u.write = t.write /\ u.dialog = t.dialog
      /\ Voided(t.run, u.run)
  BY ChainChangedIs DEF Voided
<1>4. app' = u /\ store' = u.store /\ dialog' = u.dialog
  BY <1>3, ApplyIsApp DEF Apply
<1>5. /\ s.run = app.run /\ s.store.queue \in {app.store.queue, <<>>}
      /\ s.store.used = app.store.used /\ s.store.maintenance = app.store.maintenance
      /\ s.store.running = app.store.running
      /\ s.write = NoWrite <=> app.write = NoWrite
      /\ s.write # NoWrite => s.write.request = app.write.request
      /\ Settles(app, s)
  BY CancelledSettles DEF Cancelled, Hears, Settles
<1>6. s.store.queue # <<>> => s.store.running
  BY <1>1 DEF Cancelled, Served
<1>7. Listed(u) = Listed(t)
  BY <1>3 DEF Listed
<1>8. /\ \A i, j \in DOMAIN u.store.chain : u.store.chain[i].uid = u.store.chain[j].uid => i = j
      /\ Listed(u) \subseteq u.store.used
      /\ u.store.maintenance => u.store.queue = <<>>
  BY <1>1, <1>3, <1>5, <1>7 DEF Distinct, Kept, StoreKept
<1>9. \A q \in Pending(app) : (q.create => q.uid \notin Listed(u)) /\ acked[q.uid] <= q.content.version
  BY <1>1, <1>7 DEF Kept, QueueKept
<1>10. \A uid \in Items \ u.store.used : acked[uid] = 0
  BY <1>1, <1>3, <1>5 DEF Kept, FilesKept
<1>11. \A uid \in Listed(u) : e[uid] # Absent /\ acked[uid] <= e[uid].version
  BY <1>1, <1>7 DEF Kept, FilesKept
<1>12. ASSUME u.write.phase = "ended", ~u.write.cancelled, ~u.write.failed
       PROVE  e[u.write.request.uid] = u.write.request.content
  <2>1. u.write = s.write
    BY <1>3
  <2>2. CASE s = app /\ e = disk
    BY <1>1, <1>12, <2>1, <2>2 DEF Kept, FilesKept
  <2>3. CASE Cancelled(app, s)
    BY <1>12, <2>1, <2>3 DEF Cancelled, NoWrite
  <2> QED
    BY <2>2, <2>3
<1>13. Voided(app.run, u.run)
  BY <1>3, <1>5
<1>14. Kept(u, e, acked, calls')
  <2>1. /\ u.store.queue \in {app.store.queue, <<>>} /\ app.store.used \subseteq u.store.used
        /\ u.store.running = app.store.running
        /\ u.write = NoWrite <=> app.write = NoWrite
        /\ u.write # NoWrite => u.write.request = app.write.request
    BY <1>3, <1>5
  <2>2. u.write.phase = "ended" /\ ~u.write.cancelled /\ ~u.write.failed =>
            e[u.write.request.uid] = u.write.request.content
    BY <1>12
  <2>3. \A uid \in Items : acked[uid] <= calls'
    BY <1>2 DEF Kept
  <2> QED
    BY <1>1, <1>2, <1>3, <1>8, <1>9, <1>10, <1>11, <1>13, <2>1, <2>2, <2>3, ChainKept
<1>15. Served(u)
  BY <1>3, <1>6 DEF Served
<1>16. IndexKept'
  BY <1>3, <1>4, SaveKept DEF IInv
<1>17. Settles(s, u)
  BY <1>3 DEF Settles, Hears, Pending
<1> QED
  BY <1>4, <1>5, <1>14, <1>15, <1>16, <1>17, SettlesOn

LEMMA RemoveItemKept ==
    ASSUME IInv, NEW uid \in Items, RemoveItem(uid)
    PROVE  /\ Kept(app', disk', acked', calls') /\ Served(app') /\ IndexKept'
           /\ Settles(app, app')
<1> DEFINE s == CancelFileOperations(app)
           at == IndexOf(app, uid)
           chain == app.store.chain
           fewer == RemoveAt(s.store.chain, at)
           t == [s EXCEPT !.store.chain = fewer]
           u == ChainChanged(t)
           e == [disk EXCEPT ![uid] = Absent]
<1>1. /\ app \in AppRec /\ Kept(app, disk, acked, calls)
      /\ disk \in [Items -> Contents \cup {Absent}]
  BY AppKept
<1>2. /\ Called /\ uid \in Listed(app) /\ Apply(u) /\ Save(t) /\ disk' = e /\ acked' = acked
  <2>1. t = [s EXCEPT !.store.chain = RemoveAt(s.store.chain, IndexOf(app, uid))]
    OBVIOUS
  <2> QED
    BY <2>1 DEF RemoveItem
<1>3. Cancelled(app, s)
  BY <1>1, CancelledIs
<1>4. s \in AppRec /\ s.store.chain = app.store.chain
  BY <1>3 DEF Cancelled
<1>5. /\ at \in 1 .. Len(chain) /\ chain[at].uid = uid
      /\ chain \in Seq(Step) /\ Distinct(chain)
  BY <1>1, <1>2, IndexOfIs DEF Kept, StoreKept, Distinct, AppRec, StoreRec
<1>6. fewer = RemoveAt(chain, at)
  BY <1>4
<1> HIDE DEF s, at, fewer, chain
<1>7. /\ fewer \in Seq(Step) /\ Distinct(fewer)
      /\ \A i \in DOMAIN fewer : \E j \in DOMAIN chain \ {at} : fewer[i] = chain[j]
      /\ \A i \in DOMAIN fewer : fewer[i].uid # uid
  <2> DEFINE less == RemoveAt(chain, at)
  <2>1. /\ less \in Seq(Step) /\ Len(less) = Len(chain) - 1 /\ Distinct(less)
        /\ \A i \in DOMAIN less : \E j \in DOMAIN chain \ {at} : less[i] = chain[j]
        /\ \A i \in DOMAIN less : less[i].uid # chain[at].uid
    BY <1>5, DistinctRemoved
  <2> HIDE DEF less
  <2>2. fewer = less
    BY <1>6 DEF less
  <2> QED
    BY <1>5, <2>1, <2>2
<1>8. /\ t \in AppRec /\ t.write = s.write /\ t.dialog = s.dialog /\ t.run = s.run
      /\ t.store.chain = fewer /\ t.store.used = s.store.used /\ t.store.queue = s.store.queue
      /\ t.store.maintenance = s.store.maintenance /\ t.store.running = s.store.running
  BY <1>4, <1>7, StepsOnlySet
<1> HIDE DEF t
<1>9. Listed(t) \subseteq Listed(app) \ {uid}
  BY <1>8, <1>7 DEF Listed, chain
<1>10. e \in [Items -> Contents \cup {Absent}] /\ \A i \in Listed(t) : e[i] = disk[i]
  <2>1. Listed(app) \subseteq Items
    BY <1>1, ListedAre
  <2> QED
    BY <1>1, <1>9, <2>1
<1>11. Distinct(t.store.chain) /\ Listed(t) \subseteq Listed(app)
  BY <1>8, <1>9, <1>7
<1> HIDE DEF e, u
<1>12. u = ChainChanged(t)
  BY DEF u
<1> QED
  BY <1>2, <1>3, <1>8, <1>10, <1>11, <1>12, RearrangedKept

LEMMA SetEnabledKept ==
    ASSUME IInv, NEW uid \in Items, SetEnabled(uid)
    PROVE  /\ Kept(app', disk', acked', calls') /\ Served(app') /\ IndexKept'
           /\ Settles(app, app')
<1> DEFINE at == IndexOf(app, uid)
           chain == app.store.chain
           switched == [chain[at] EXCEPT !.enabled = ~chain[at].enabled]
           steps == [chain EXCEPT ![at] = switched]
           t == [app EXCEPT !.store.chain = steps]
           u == ChainChanged(t)
<1>1. /\ app \in AppRec /\ Kept(app, disk, acked, calls)
      /\ disk \in [Items -> Contents \cup {Absent}]
  BY AppKept
<1>2. Called /\ uid \in Listed(app) /\ Apply(u) /\ Save(t) /\ disk' = disk /\ acked' = acked
  <2>1. t = [app EXCEPT !.store.chain[IndexOf(app, uid)].enabled = ~@]
    OBVIOUS
  <2> QED
    BY <2>1 DEF SetEnabled
<1>3. /\ at \in 1 .. Len(chain) /\ chain \in Seq(Step) /\ Distinct(chain)
      /\ DOMAIN chain = 1 .. Len(chain)
  BY <1>1, <1>2, IndexOfIs DEF Kept, StoreKept, Distinct, AppRec, StoreRec
<1> HIDE DEF at, chain
<1>4. chain[at] \in Step
  BY <1>3
<1>5. switched \in Step /\ switched.uid = chain[at].uid
  BY <1>4 DEF Step
<1> HIDE DEF switched
<1>6. /\ steps \in Seq(Step) /\ DOMAIN steps = DOMAIN chain
      /\ \A i \in DOMAIN chain : steps[i].uid = chain[i].uid
  BY <1>3, <1>5
<1> HIDE DEF steps
<1>7. /\ t \in AppRec /\ t.write = app.write /\ t.dialog = app.dialog /\ t.run = app.run
      /\ t.store.chain = steps /\ t.store.used = app.store.used /\ t.store.queue = app.store.queue
      /\ t.store.maintenance = app.store.maintenance /\ t.store.running = app.store.running
  BY <1>1, <1>6, StepsOnlySet
<1> HIDE DEF t
<1>8. Distinct(t.store.chain) /\ Listed(t) = Listed(app)
  BY <1>3, <1>6, <1>7 DEF Listed, Distinct, chain
<1> HIDE DEF u
<1>9. u = ChainChanged(t)
  BY DEF u
<1> QED
  BY <1>1, <1>2, <1>7, <1>8, <1>9, RearrangedKept

LEMMA MoveItemKept ==
    ASSUME IInv, NEW uid \in Items, NEW target, MoveItem(uid, target)
    PROVE  /\ Kept(app', disk', acked', calls') /\ Served(app') /\ IndexKept'
           /\ Settles(app, app')
<1> DEFINE from == IndexOf(app, uid)
           chain == app.store.chain
           fewer == RemoveAt(chain, from)
           steps == InsertAt(fewer, target, chain[from])
           t == [app EXCEPT !.store.chain = steps]
           u == ChainChanged(t)
<1>1. /\ app \in AppRec /\ Kept(app, disk, acked, calls)
      /\ disk \in [Items -> Contents \cup {Absent}]
  BY AppKept
<1>2. /\ Called /\ uid \in Listed(app) /\ target \in DOMAIN store.chain
      /\ Apply(u) /\ Save(t) /\ disk' = disk /\ acked' = acked
  <2>1. t = [app EXCEPT !.store.chain = InsertAt(RemoveAt(@, from), target, @[from])]
    OBVIOUS
  <2> QED
    BY <2>1 DEF MoveItem
<1>3. /\ from \in 1 .. Len(chain) /\ chain \in Seq(Step) /\ Distinct(chain)
      /\ DOMAIN chain = 1 .. Len(chain) /\ target \in 1 .. Len(chain)
  BY <1>1, <1>2, IndexOfIs, AppIsRecord DEF Kept, StoreKept, Distinct, AppRec, StoreRec
<1> HIDE DEF from, chain
<1>4. /\ fewer \in Seq(Step) /\ Len(fewer) = Len(chain) - 1 /\ Distinct(fewer)
      /\ \A i \in DOMAIN fewer : \E j \in DOMAIN chain \ {from} : fewer[i] = chain[j]
      /\ \A i \in DOMAIN fewer : fewer[i].uid # chain[from].uid
  BY <1>3, DistinctRemoved
<1>5. chain[from] \in Step /\ target \in 1 .. Len(fewer) + 1
  BY <1>3, <1>4
<1> HIDE DEF fewer
<1>6. /\ steps \in Seq(Step) /\ Distinct(steps)
      /\ \A i \in DOMAIN steps : steps[i] = chain[from] \/ \E j \in DOMAIN fewer : steps[i] = fewer[j]
  BY <1>4, <1>5, DistinctInserted
<1> HIDE DEF steps
<1>7. /\ t \in AppRec /\ t.write = app.write /\ t.dialog = app.dialog /\ t.run = app.run
      /\ t.store.chain = steps /\ t.store.used = app.store.used /\ t.store.queue = app.store.queue
      /\ t.store.maintenance = app.store.maintenance /\ t.store.running = app.store.running
  BY <1>1, <1>6, StepsOnlySet
<1> HIDE DEF t
<1>8. ASSUME NEW i \in DOMAIN steps PROVE steps[i].uid \in Listed(app)
  <2>1. \E j \in DOMAIN chain : steps[i] = chain[j]
    BY <1>3, <1>4, <1>6
  <2> QED
    BY <2>1 DEF Listed, chain
<1>9. Distinct(t.store.chain) /\ Listed(t) \subseteq Listed(app)
  BY <1>6, <1>7, <1>8 DEF Listed
<1> HIDE DEF u
<1>10. u = ChainChanged(t)
  BY DEF u
<1> QED
  BY <1>1, <1>2, <1>7, <1>9, <1>10, RearrangedKept

LEMMA RenameItemKept ==
    ASSUME IInv, NEW uid \in Items, RenameItem(uid)
    PROVE  /\ Kept(app', disk', acked', calls') /\ Served(app') /\ IndexKept'
           /\ Settles(app, app')
<1> DEFINE u == ChainChanged(app)
<1>1. /\ app \in AppRec /\ Kept(app, disk, acked, calls) /\ Served(app)
      /\ disk \in [Items -> Contents \cup {Absent}] /\ calls \in 0 .. MaxCalls
  BY AppKept
<1>2. Called /\ Apply(u) /\ Save(app) /\ disk' = disk /\ acked' = acked
  BY DEF RenameItem
<1>3. /\ u \in AppRec /\ u.store = app.store /\ u.dialog = app.dialog /\ u.write = app.write
  BY <1>1, ChainChangedIs
<1>4. Kept(u, disk, acked, calls')
  BY <1>1, <1>2, CalledMore, CallsKept, ChainChangedKept
<1> HIDE DEF u
<1>5. app' = u /\ store' = u.store /\ dialog' = u.dialog
  BY <1>2, <1>3, ApplyIsApp DEF Apply
<1>6. Served(u)
  BY <1>1, <1>3 DEF Served
<1>7. IndexKept'
  BY <1>1, <1>2, <1>3, <1>5, SaveKept DEF IInv
<1>8. Settles(app, u)
  BY <1>3 DEF Settles, Hears, Pending
<1> QED
  BY <1>2, <1>4, <1>5, <1>6, <1>7, <1>8

LEMMA DistinctAppended ==
    ASSUME NEW steps \in Seq(Step), Distinct(steps), NEW new \in Step,
           \A i \in DOMAIN steps : steps[i].uid # new.uid
    PROVE  LET more == Append(steps, new)
           IN /\ more \in Seq(Step) /\ Distinct(more)
              /\ \A i \in DOMAIN more : more[i] = new \/ \E j \in DOMAIN steps : more[i] = steps[j]
<1> DEFINE more == Append(steps, new)
           n == Len(steps)
<1>1. /\ more \in Seq(Step) /\ Len(more) = n + 1 /\ more[n + 1] = new
      /\ \A j \in 1 .. n : more[j] = steps[j]
  BY AppendElements
<1>2. DOMAIN more = 1 .. n + 1 /\ DOMAIN steps = 1 .. n /\ n \in Nat
  BY <1>1
<1> HIDE DEF more, n
<1>3. \A i \in 1 .. n + 1 : i \in 1 .. n \/ i = n + 1
  BY <1>2
<1>4. Distinct(more)
  BY <1>1, <1>2, <1>3 DEF Distinct
<1>5. \A i \in DOMAIN more : more[i] = new \/ \E j \in DOMAIN steps : more[i] = steps[j]
  BY <1>1, <1>2, <1>3
<1> QED
  BY <1>1, <1>4, <1>5 DEF more

LEMMA AddItemKept ==
    ASSUME IInv, NEW uid \in Items, AddItem(uid)
    PROVE  /\ Kept(app', disk', acked', calls') /\ Served(app') /\ IndexKept'
           /\ Settles(app, app')
<1>1. /\ app \in AppRec /\ Kept(app, disk, acked, calls) /\ Served(app) /\ IndexKept
      /\ disk \in [Items -> Contents \cup {Absent}] /\ calls \in 0 .. MaxCalls
      /\ acked \in [Items -> 0 .. MaxCalls]
  BY AppKept DEF IInv
<1>2. Called /\ uid \notin store.used /\ acked' = acked
  BY DEF AddItem
<1>3. Kept(app, disk, acked, calls')
  BY <1>1, <1>2, CalledMore, CallsKept
<1>4. CASE UNCHANGED <<store, write, dialog, run, disk, index, saveFailures>>
  <2>1. app' = app
    BY <1>4, SameIsApp
  <2> QED
    BY <1>1, <1>2, <1>3, <1>4, <2>1 DEF IndexKept, Settles, Hears
<1> DEFINE new == [uid |-> uid, enabled |-> TRUE]
           steps == Append(app.store.chain, new)
           uids == app.store.used \cup {uid}
           t == [app EXCEPT !.store.chain = steps, !.store.used = uids]
           u == ChainChanged(t)
           e == [disk EXCEPT ![uid] = Template]
<1>5. CASE Apply(u) /\ Save(t) /\ disk' = e
  <2>1. /\ app.store.chain \in Seq(Step) /\ Distinct(app.store.chain)
        /\ new \in Step /\ new.uid = uid /\ uids \in SUBSET Items
    BY <1>1 DEF AppRec, StoreRec, Step, Kept, StoreKept, Distinct
  <2>2. uid \notin Listed(app) /\ Listed(app) \subseteq app.store.used /\ app.store.used \subseteq Items
    BY <1>1, <1>2, AppIsRecord DEF Kept, StoreKept, AppRec, StoreRec
  <2> DEFINE chain == app.store.chain
  <2>19. \A i \in DOMAIN chain : chain[i].uid # new.uid
    BY <1>1, <2>1, <2>2, ListedAre
  <2>20. chain \in Seq(Step) /\ Distinct(chain) /\ steps = Append(chain, new)
    BY <2>1
  <2> HIDE DEF steps, new, uids, chain
  <2>3. /\ steps \in Seq(Step) /\ Distinct(steps)
        /\ \A i \in DOMAIN steps : steps[i] = new \/ \E j \in DOMAIN chain : steps[i] = chain[j]
    <3> DEFINE more == Append(chain, new)
    <3>1. /\ more \in Seq(Step) /\ Distinct(more)
          /\ \A i \in DOMAIN more : more[i] = new \/ \E j \in DOMAIN chain : more[i] = chain[j]
      BY <2>1, <2>19, <2>20, DistinctAppended
    <3> HIDE DEF more
    <3>2. steps = more
      BY <2>20 DEF more
    <3> QED
      BY <3>1, <3>2
  <2>4. /\ t \in AppRec /\ t.write = app.write /\ t.dialog = app.dialog /\ t.run = app.run
        /\ t.store.chain = steps /\ t.store.used = uids /\ t.store.queue = app.store.queue
        /\ t.store.maintenance = app.store.maintenance /\ t.store.running = app.store.running
    <3> DEFINE held == [app.store EXCEPT !.chain = steps, !.used = uids]
    <3>1. t = [app EXCEPT !.store = held]
      BY <1>1 DEF AppRec
    <3>2. app.store \in StoreRec
      BY <1>1 DEF AppRec
    <3>3. /\ held \in StoreRec /\ held.chain = steps /\ held.used = uids
          /\ held.queue = app.store.queue
          /\ held.maintenance = app.store.maintenance /\ held.running = app.store.running
      BY <2>1, <2>3, <3>2 DEF StoreRec
    <3> HIDE DEF t, held
    <3>4. /\ t \in AppRec /\ t.store = held /\ t.write = app.write /\ t.dialog = app.dialog
          /\ t.run = app.run
      BY <1>1, <3>1, <3>3, StoreSet
    <3> QED
      BY <3>3, <3>4
  <2> HIDE DEF t
  <2>5. /\ u \in AppRec /\ u.store = t.store /\ u.write = app.write /\ u.dialog = app.dialog
        /\ Voided(app.run, u.run)
    BY <2>4, ChainChangedIs DEF Voided
  <2> HIDE DEF u
  <2>6. Listed(u) \subseteq Listed(app) \cup {uid}
    BY <2>1, <2>3, <2>4, <2>5 DEF Listed, chain
  <2>7. app' = u /\ store' = u.store /\ dialog' = u.dialog
    BY <1>5, <2>5, ApplyIsApp DEF Apply
  <2>8. /\ e \in [Items -> Contents \cup {Absent}] /\ e[uid] = Template
        /\ \A i \in Items \ {uid} : e[i] = disk[i]
        /\ Template # Absent /\ Template.version = 0
    <3>1. Template \in Contents /\ Template # Absent /\ Template.version = 0
      BY ItemsAssumption DEF Template, Absent, Contents
    <3> QED
      BY <1>1, <3>1
  <2> HIDE DEF e
  <2>9. acked[uid] = 0 /\ \A i \in Items \ u.store.used : acked[i] = 0
    BY <1>1, <1>2, <2>4, <2>5, AppIsRecord DEF Kept, FilesKept, uids
  <2>10. ASSUME NEW i \in Listed(u) PROVE e[i] # Absent /\ acked[i] <= e[i].version
    BY <1>1, <2>2, <2>6, <2>8, <2>9 DEF Kept, FilesKept
  <2>11. ASSUME NEW q \in Pending(app)
         PROVE  (q.create => q.uid \notin Listed(u)) /\ acked[q.uid] <= q.content.version
    BY <1>1, <1>2, <2>6, AppIsRecord DEF Kept, QueueKept
  <2>12. u.write.phase = "ended" /\ ~u.write.cancelled /\ ~u.write.failed =>
             e[u.write.request.uid] = u.write.request.content
    <3>1. CASE app.write = NoWrite
      BY <2>5, <3>1 DEF NoWrite
    <3>2. CASE app.write # NoWrite
      <4>1. app.write.request \in Pending(app) /\ app.write.request \in Request
        BY <1>1, <3>2, PendingAre
      <4>2. app.write.request.uid \in app.store.used
        BY <1>1, <4>1 DEF Kept, QueueKept
      <4> QED
        BY <1>1, <1>2, <2>2, <2>5, <2>8, <4>2, AppIsRecord DEF Kept, FilesKept
    <3> QED
      BY <3>1, <3>2
  <2>13. /\ \A i, j \in DOMAIN u.store.chain : u.store.chain[i].uid = u.store.chain[j].uid => i = j
         /\ Listed(u) \subseteq u.store.used
         /\ u.store.maintenance => u.store.queue = <<>>
    BY <1>1, <2>2, <2>3, <2>4, <2>5, <2>6 DEF Distinct, Kept, StoreKept, uids
  <2>14. /\ u.store.queue \in {app.store.queue, <<>>} /\ app.store.used \subseteq u.store.used
         /\ u.store.running = app.store.running
         /\ u.write = NoWrite <=> app.write = NoWrite
         /\ u.write # NoWrite => u.write.request = app.write.request
    BY <2>4, <2>5 DEF uids
  <2>15. \A i \in Items : acked[i] <= calls'
    BY <1>3 DEF Kept
  <2>16. Kept(u, e, acked, calls')
    BY <1>1, <1>3, <2>5, <2>8, <2>9, <2>10, <2>11, <2>12, <2>13, <2>14, <2>15, ChainKept
  <2>17. Served(u)
    BY <1>1, <2>4, <2>5 DEF Served
  <2>18. IndexKept'
    BY <1>1, <1>5, <2>4, <2>5, <2>7, SaveKept
  <2>21. Settles(app, u)
    BY <2>4, <2>5 DEF Settles, Hears, Pending
  <2> QED
    BY <1>2, <1>5, <2>7, <2>16, <2>17, <2>18, <2>21
<1>6. \/ UNCHANGED <<store, write, dialog, run, disk, index, saveFailures>>
      \/ Apply(u) /\ Save(t) /\ disk' = e
  <2>1. t = [app EXCEPT !.store.chain = Append(@, [uid |-> uid, enabled |-> TRUE]),
                        !.store.used = @ \cup {uid}]
    BY <1>1 DEF AppRec
  <2> QED
    BY <2>1 DEF AddItem
<1> QED
  BY <1>4, <1>5, <1>6

LEMMA ImportItemKept ==
    ASSUME IInv, NEW uid \in Items, NEW behaves \in Behaviours, ImportItemAsync(uid, behaves)
    PROVE  /\ Kept(app', disk', acked', calls') /\ Served(app') /\ IndexKept'
           /\ Settles(app, app')
<1> DEFINE uids == app.store.used \cup {uid}
           held == [app.store EXCEPT !.used = uids]
           t == [app EXCEPT !.store.used = uids]
           q == [uid |-> uid, create |-> TRUE, content |-> [version |-> 0, behaves |-> behaves]]
           u == EnqueueWrite(t, q)
<1>1. /\ app \in AppRec /\ Kept(app, disk, acked, calls) /\ Served(app) /\ IndexKept
      /\ calls \in 0 .. MaxCalls
  BY AppKept DEF IInv
<1>2. /\ Called /\ uid \notin app.store.used /\ acked' = acked /\ disk' = disk /\ Apply(u)
      /\ UNCHANGED <<index, saveFailures>>
  BY AppIsRecord DEF ImportItemAsync
<1>3. Kept(app, disk, acked, calls')
  BY <1>1, <1>2, CalledMore, CallsKept
<1>4. /\ held \in StoreRec /\ held.queue = app.store.queue /\ held.chain = app.store.chain
      /\ held.used = uids /\ held.maintenance = app.store.maintenance
      /\ held.running = app.store.running
  BY <1>1 DEF AppRec, StoreRec
<1>5. t = [app EXCEPT !.store = held]
  OBVIOUS
<1> HIDE DEF t, held, u
<1>6. /\ t \in AppRec /\ t.store = held /\ t.write = app.write /\ t.dialog = app.dialog
      /\ t.run = app.run
  BY <1>1, <1>4, <1>5, StoreSet
<1>7. Listed(t) = Listed(app) /\ Pending(t) = Pending(app)
  BY <1>4, <1>6 DEF Listed, Pending
<1>8. StoreKept(t)
  BY <1>1, <1>4, <1>6, <1>7 DEF Kept, StoreKept
<1>9. QueueKept(t, acked, calls')
  BY <1>3, <1>4, <1>6, <1>7 DEF Kept, QueueKept
<1>10. FilesKept(t, disk, acked)
  BY <1>1, <1>4, <1>6, <1>7 DEF Kept, FilesKept
<1>11. Kept(t, disk, acked, calls')
  BY <1>3, <1>4, <1>6, <1>8, <1>9, <1>10 DEF Kept
<1>12. Served(t)
  BY <1>1, <1>4, <1>6 DEF Served
<1>13. /\ q \in Request /\ q.uid \in t.store.used /\ q.uid \notin Listed(t) /\ q.create
       /\ acked[q.uid] <= q.content.version /\ q.content.version <= calls'
  <2>1. calls' \in 0 .. MaxCalls /\ MaxCalls \in Nat
    BY <1>1, <1>2, CalledMore, ItemsAssumption
  <2>2. acked[uid] = 0 /\ uid \notin Listed(app)
    BY <1>1, <1>2 DEF Kept, FilesKept, StoreKept
  <2> QED
    BY <1>4, <1>6, <1>7, <2>1, <2>2 DEF Request, Contents
<1>14. ASSUME NEW p \in Pending(t) PROVE Follows(p, q)
  <2>1. p.uid \in app.store.used
    BY <1>1, <1>7 DEF Kept, QueueKept
  <2> QED
    BY <1>2, <2>1 DEF Follows
<1> HIDE DEF q
<1>15. LET w == EnqueueWrite(t, q)
       IN /\ Kept(w, disk, acked, calls') /\ Served(w) /\ w.run = t.run /\ w.store.chain = t.store.chain
          /\ Hears(t, w) /\ \A p \in Pending(w) : p.create \/ p \in Pending(t) \/ p = q
  BY <1>11, <1>12, <1>13, <1>14, EnqueueWriteKept
<1>16. app' = u /\ store' = u.store /\ dialog' = u.dialog
  BY <1>2, <1>15, ApplyIsApp DEF Apply, Kept, u
<1>17. IndexKept'
  BY <1>1, <1>2, <1>4, <1>6, <1>15, <1>16, AppIsRecord DEF IndexKept, u
<1>18. Settles(app, u)
  BY <1>6, <1>7, <1>13, <1>15 DEF Settles, Hears, u
<1> QED
  BY <1>2, <1>15, <1>16, <1>17, <1>18 DEF u

-----------------------------------------------------------------------------
(* The edit dialog *)

LEMMA DialogOnlyKept ==
    ASSUME IInv, UNCHANGED <<store, write, run, disk, index, acked, calls, saveFailures>>,
           dialog' \in DialogRec \cup {Closed}
    PROVE  Kept(app', disk', acked', calls') /\ Served(app') /\ IndexKept'
<1>1. app \in AppRec /\ Kept(app, disk, acked, calls) /\ Served(app) /\ IndexKept
  BY AppKept DEF IInv
<1> DEFINE t == app'
<1>2. /\ t \in AppRec /\ t.store = app.store /\ t.write = app.write /\ t.run = app.run
  BY <1>1 DEF app, AppRec
<1> HIDE DEF t
<1>3. Kept(t, disk, acked, calls)
  BY <1>1, <1>2, SameKept DEF Same
<1>4. Served(t)
  BY <1>1, <1>2 DEF Served
<1>5. IndexKept'
  BY <1>1 DEF IndexKept
<1> QED
  BY <1>3, <1>4, <1>5 DEF t

LEMMA EditStepKept ==
    ASSUME IInv, NEW uid \in Items, EditStep(uid)
    PROVE  /\ Kept(app', disk', acked', calls') /\ Served(app') /\ IndexKept'
           /\ Settles(app, app')
<1> DEFINE opened == Dialog("loading", uid)
<1>1. opened \in DialogRec /\ opened.state = "loading"
  BY ItemsAssumption DEF Dialog, DialogRec
<1>2. dialog' = opened /\ UNCHANGED <<store, write, run, disk, index, acked, calls, saveFailures>>
  BY DEF EditStep
<1> HIDE DEF opened
<1>3. Settles(app, app')
  BY <1>1, <1>2 DEF Settles, Hears, Pending, app
<1> QED
  BY <1>1, <1>2, <1>3, DialogOnlyKept

LEMMA EditorLoadsKept ==
    ASSUME IInv, NEW ok \in BOOLEAN, EditorLoads(ok)
    PROVE  /\ Kept(app', disk', acked', calls') /\ Served(app') /\ IndexKept'
           /\ Settles(app, app')
<1> DEFINE loaded == Dialog(IF ok THEN "editing" ELSE "unreadable", dialog.uid)
<1>1. app \in AppRec /\ dialog.state = "loading"
  BY AppKept DEF EditorLoads
<1>2. dialog \in DialogRec
  BY <1>1, Shapes, AppIsRecord
<1>3. loaded \in DialogRec /\ loaded.state \in {"editing", "unreadable"}
  BY <1>2, ItemsAssumption DEF Dialog, DialogRec
<1>4. dialog' = loaded /\ UNCHANGED <<store, write, run, disk, index, acked, calls, saveFailures>>
  BY DEF EditorLoads
<1> HIDE DEF loaded
<1>5. Settles(app, app')
  BY <1>3, <1>4 DEF Settles, Hears, Pending, app
<1> QED
  BY <1>3, <1>4, <1>5, DialogOnlyKept

\* Nothing is asked of a dialog that is closed.
LEMMA EditorClosesKept ==
    ASSUME IInv, EditorCloses
    PROVE  /\ Kept(app', disk', acked', calls') /\ Served(app') /\ IndexKept'
           /\ DialogKept(app')
<1>1. dialog' = Closed
  BY DEF EditorCloses
<1>2. DialogKept(app')
  BY <1>1 DEF DialogKept, Closed, app
<1> QED
  BY <1>1, <1>2, DialogOnlyKept DEF EditorCloses

LEMMA EditorSavesKept ==
    ASSUME IInv, NEW behaves \in Behaviours, EditorSaves(behaves)
    PROVE  /\ Kept(app', disk', acked', calls') /\ Served(app') /\ IndexKept'
           /\ DialogKept(app') /\ dialog.state # "saving"
<1> DEFINE uid == app.dialog.uid
           saving == [state |-> "saving", uid |-> uid, asked |-> calls + 1,
                      behind |-> Unanswered(app, uid) # {}]
           t == [app EXCEPT !.dialog = saving]
           content == [version |-> calls + 1, behaves |-> behaves]
           q == [uid |-> uid, content |-> content, create |-> FALSE]
           refused == ~AcceptsChanges(app) \/ uid \notin Listed(app)
           u == IF refused THEN ItemContentSaved(t, uid, FALSE) ELSE EnqueueWrite(t, q)
<1>1. /\ app \in AppRec /\ Kept(app, disk, acked, calls) /\ Served(app) /\ IndexKept
      /\ calls \in 0 .. MaxCalls
  BY AppKept DEF IInv
<1>2. /\ Called /\ acked' = acked /\ disk' = disk /\ Apply(u) /\ dialog.state = "editing"
      /\ UNCHANGED <<index, saveFailures>>
  BY AppIsRecord DEF EditorSaves
<1>3. Kept(app, disk, acked, calls') /\ calls' = calls + 1 /\ calls' \in 0 .. MaxCalls
  BY <1>1, <1>2, CalledMore, CallsKept
<1>4. app.dialog \in DialogRec /\ uid \in Items
  BY <1>1, <1>2, Shapes, AppIsRecord DEF DialogRec
<1>5. /\ saving \in DialogRec /\ saving.uid = uid /\ saving.asked = calls + 1
      /\ ~saving.behind => Unanswered(app, uid) = {}
  BY <1>3, <1>4 DEF DialogRec
<1>6. t = [app EXCEPT !.dialog = saving]
  OBVIOUS
<1> HIDE DEF t, saving, uid, u
<1>7. t \in AppRec /\ Same(app, t) /\ t.dialog = saving
  BY <1>1, <1>5, <1>6 DEF AppRec, Same
<1>8. /\ Kept(t, disk, acked, calls') /\ Served(t)
      /\ Pending(t) = Pending(app) /\ Listed(t) = Listed(app)
  BY <1>1, <1>3, <1>7, SameKept DEF Served, Same
<1>12. DialogKept(t)
  BY <1>5, <1>7, <1>8 DEF DialogKept, Unanswered
<1>9. /\ Kept(u, disk, acked, calls') /\ Served(u) /\ u.store.chain = t.store.chain
      /\ DialogKept(u)
  <2>1. CASE refused
    <3> DEFINE w == ItemContentSaved(t, uid, FALSE)
    <3>1. w \in AppRec /\ Same(t, w) /\ Hears(t, w)
      BY <1>4, <1>7, AnswerIsSame
    <3> HIDE DEF w
    <3>2. Kept(w, disk, acked, calls') /\ Served(w) /\ w.store.chain = t.store.chain
      BY <1>8, <3>1, SameKept DEF Same, Served
    <3>3. DialogKept(w)
      BY <1>12, <3>1, SameSettles, SettlesKept
    <3> QED
      BY <2>1, <3>2, <3>3 DEF u, w
  <2>2. CASE ~refused
    <3>1. calls + 1 \in 0 .. MaxCalls /\ calls \in Nat
      BY <1>1, <1>3, ItemsAssumption
    <3>2. /\ q \in Request /\ q.uid = uid /\ q.create = FALSE /\ q.content.version = calls + 1
      BY <1>4, <3>1 DEF Request, Contents
    <3> HIDE DEF q
    <3>3. q.uid \in t.store.used
      BY <1>8, <2>2, <3>2 DEF Kept, StoreKept
    <3>4. acked[q.uid] <= q.content.version
      BY <1>3, <1>4, <3>2 DEF Kept
    <3>5. ASSUME NEW p \in Pending(t) PROVE Follows(p, q)
      <4>1. p \in Pending(app) /\ p \in Request
        BY <1>1, <1>8, PendingAre
      <4>2. (p.create => p.uid \notin Listed(app)) /\ p.content.version <= calls
        BY <1>1, <4>1 DEF Kept, QueueKept
      <4>3. p.content.version \in Nat
        BY <3>1, <4>1, ItemsAssumption DEF Request, Contents
      <4> QED
        BY <2>2, <3>1, <3>2, <4>2, <4>3 DEF Follows
    <3>6. q.content.version <= calls'
      BY <1>3, <3>1, <3>2
    <3>7. LET w == EnqueueWrite(t, q)
          IN /\ Kept(w, disk, acked, calls') /\ Served(w) /\ w.run = t.run /\ w.store.chain = t.store.chain
             /\ Hears(t, w) /\ \A p \in Pending(w) : p.create \/ p \in Pending(t) \/ p = q
      BY <1>8, <3>2, <3>3, <3>4, <3>5, <3>6, EnqueueWriteKept
    <3> DEFINE w == EnqueueWrite(t, q)
    <3>8. DialogKept(w)
      <4>1. /\ w.dialog = t.dialog \/ w.dialog.state # "saving"
            /\ \A p \in Pending(w) : p.create \/ p \in Pending(t) \/ p = q
        BY <3>7 DEF Hears
      <4> HIDE DEF w
      <4>2. q.content.version = t.dialog.asked
        BY <1>5, <1>7, <3>2
      <4> QED
        BY <1>12, <4>1, <4>2 DEF DialogKept, Unanswered
    <3> QED
      BY <2>2, <3>7, <3>8 DEF u, q
  <2> QED
    BY <2>1, <2>2
<1>10. app' = u /\ store' = u.store
  BY <1>2, <1>9, ApplyIsApp DEF Apply, Kept
<1>11. IndexKept'
  BY <1>1, <1>2, <1>7, <1>9, <1>10, AppIsRecord DEF IndexKept, Same
<1> QED
  BY <1>2, <1>9, <1>10, <1>11

-----------------------------------------------------------------------------
(* Backups and the end of the application *)

LEMMA BeginShutdownKept ==
    ASSUME IInv, BeginShutdown
    PROVE  /\ Kept(app', disk', acked', calls') /\ Served(app') /\ IndexKept'
           /\ Settles(app, app')
<1> DEFINE s == ChainChanged(app)
           held == [s.store EXCEPT !.shuttingDown = TRUE]
           u == [s EXCEPT !.store.shuttingDown = TRUE]
<1>1. app \in AppRec /\ Kept(app, disk, acked, calls) /\ Served(app) /\ IndexKept
  BY AppKept DEF IInv
<1>2. Apply(u) /\ UNCHANGED <<disk, index, acked, calls, saveFailures>>
  BY DEF BeginShutdown
<1>3. s \in AppRec /\ s.store = app.store /\ s.write = app.write /\ s.dialog = app.dialog /\ Kept(s, disk, acked, calls)
  BY <1>1, ChainChangedIs, ChainChangedKept
<1>4. u = [s EXCEPT !.store = held]
  OBVIOUS
<1> HIDE DEF s, u
<1>5. /\ held \in StoreRec /\ held.queue = s.store.queue /\ held.chain = s.store.chain
      /\ held.used = s.store.used /\ held.maintenance = s.store.maintenance
      /\ held.running = s.store.running
  BY <1>3 DEF AppRec, StoreRec
<1> HIDE DEF held
<1>6. u \in AppRec /\ u.store = held /\ u.write = s.write /\ u.dialog = s.dialog /\ u.run = s.run
  BY <1>3, <1>4, <1>5, StoreSet
<1>7. Listed(u) = Listed(s) /\ Pending(u) = Pending(s)
  BY <1>5, <1>6 DEF Listed, Pending
<1>8. StoreKept(u)
  BY <1>3, <1>5, <1>6, <1>7 DEF Kept, StoreKept
<1>9. QueueKept(u, acked, calls)
  BY <1>3, <1>5, <1>6, <1>7 DEF Kept, QueueKept
<1>10. FilesKept(u, disk, acked)
  BY <1>3, <1>5, <1>6, <1>7 DEF Kept, FilesKept
<1>11. Kept(u, disk, acked, calls)
  BY <1>3, <1>5, <1>6, <1>8, <1>9, <1>10 DEF Kept
<1>12. Served(u)
  BY <1>1, <1>3, <1>5, <1>6 DEF Served
<1>13. app' = u /\ store' = u.store /\ dialog' = u.dialog
  BY <1>2, <1>6, ApplyIsApp DEF Apply
<1>14. IndexKept'
  BY <1>1, <1>2, <1>3, <1>5, <1>6, <1>13, AppIsRecord DEF IndexKept
<1>15. Settles(app, u)
  BY <1>3, <1>5, <1>6 DEF Settles, Hears, Pending
<1> QED
  BY <1>2, <1>11, <1>12, <1>13, <1>14, <1>15

LEMMA SetMaintenanceModeKept ==
    ASSUME IInv, NEW enabled \in BOOLEAN, SetMaintenanceMode(enabled)
    PROVE  /\ Kept(app', disk', acked', calls') /\ Served(app') /\ IndexKept'
           /\ Settles(app, app')
<1> DEFINE held == [app.store EXCEPT !.maintenance = enabled]
           t == [app EXCEPT !.store.maintenance = enabled]
           s == CancelFileOperations(t)
           u == IF enabled THEN ChainChanged(s) ELSE t
<1>1. /\ app \in AppRec /\ Kept(app, disk, acked, calls) /\ Served(app) /\ IndexKept
      /\ calls \in 0 .. MaxCalls /\ disk \in [Items -> Contents \cup {Absent}]
      /\ acked \in [Items -> 0 .. MaxCalls]
  BY AppKept DEF IInv
<1>2. /\ enabled => Called
      /\ ~enabled => calls' = calls
      /\ acked' = acked /\ disk' = disk /\ Apply(u)
      /\ UNCHANGED <<index, saveFailures>>
  BY DEF SetMaintenanceMode
<1>3. Kept(app, disk, acked, calls')
  BY <1>1, <1>2, CalledMore, CallsKept
<1>4. t = [app EXCEPT !.store = held]
  OBVIOUS
<1>5. /\ held \in StoreRec /\ held.queue = app.store.queue /\ held.chain = app.store.chain
      /\ held.used = app.store.used /\ held.maintenance = enabled
      /\ held.running = app.store.running
  BY <1>1 DEF AppRec, StoreRec
<1> HIDE DEF t, held, u
<1>6. /\ t \in AppRec /\ t.store = held /\ t.write = app.write /\ t.dialog = app.dialog
      /\ t.run = app.run
  BY <1>1, <1>4, <1>5, StoreSet
<1>7. /\ Kept(u, disk, acked, calls') /\ Served(u) /\ u.store.chain = app.store.chain
      /\ Settles(app, u)
  <2>1. CASE ~enabled
    <3>1. u = t
      BY <2>1 DEF u
    <3>2. Listed(u) = Listed(app) /\ Pending(u) = Pending(app)
      BY <1>5, <1>6, <3>1 DEF Listed, Pending
    <3>3. StoreKept(u)
      BY <1>3, <1>5, <1>6, <2>1, <3>1, <3>2 DEF Kept, StoreKept
    <3>4. QueueKept(u, acked, calls')
      BY <1>3, <1>5, <1>6, <3>1, <3>2 DEF Kept, QueueKept
    <3>5. FilesKept(u, disk, acked)
      BY <1>3, <1>5, <1>6, <3>1, <3>2 DEF Kept, FilesKept
    <3>6. Kept(u, disk, acked, calls')
      BY <1>3, <1>5, <1>6, <3>1, <3>3, <3>4, <3>5 DEF Kept
    <3> QED
      BY <1>1, <1>5, <1>6, <3>1, <3>2, <3>6 DEF Served, Settles, Hears
  <2>2. CASE enabled
    <3>1. u = ChainChanged(s)
      BY <2>2 DEF u
    <3>2. Cancelled(t, s)
      BY <1>6, CancelledIs
    <3> HIDE DEF s
    <3>3. s \in AppRec
      BY <3>2 DEF Cancelled
    <3>4. /\ u \in AppRec /\ u.store = s.store /\ u.write = s.write /\ u.dialog = s.dialog
          /\ Voided(s.run, u.run)
      BY <3>1, <3>3, ChainChangedIs DEF Voided
    <3>5. /\ u.store.queue = <<>> /\ u.store.used = app.store.used
          /\ u.store.chain = app.store.chain /\ u.store.running = app.store.running
          /\ u.write = NoWrite <=> app.write = NoWrite
          /\ u.write # NoWrite => u.write.request = app.write.request /\ u.write.cancelled
          /\ Settles(app, u)
          /\ Voided(app.run, u.run)
      <4>1. Settles(app, t) /\ Settles(t, s) /\ Settles(s, u)
        BY <1>5, <1>6, <3>2, <3>4, CancelledSettles DEF Settles, Hears, Pending
      <4> QED
        BY <1>5, <1>6, <3>2, <3>4, <4>1, SettlesOn DEF Cancelled
    <3>6. Listed(u) = Listed(app)
      BY <3>5 DEF Listed
    <3>7. ~(u.write.phase = "ended" /\ ~u.write.cancelled)
      BY <3>5 DEF NoWrite
    <3>8. /\ \A i, j \in DOMAIN u.store.chain : u.store.chain[i].uid = u.store.chain[j].uid => i = j
          /\ Listed(u) \subseteq u.store.used
      BY <1>1, <3>5, <3>6 DEF Kept, StoreKept
    <3>9. \A q \in Pending(app) : (q.create => q.uid \notin Listed(u)) /\ acked[q.uid] <= q.content.version
      BY <1>1, <3>6 DEF Kept, QueueKept
    <3>10. /\ \A uid \in Items \ u.store.used : acked[uid] = 0
           /\ \A uid \in Listed(u) : disk[uid] # Absent /\ acked[uid] <= disk[uid].version
      BY <1>1, <3>5, <3>6 DEF Kept, FilesKept
    <3>11. \A uid \in Items : acked[uid] <= calls'
      BY <1>3 DEF Kept
    <3>12. u.store.queue \in {app.store.queue, <<>>}
      BY <3>5
    <3>13. Kept(u, disk, acked, calls')
      BY <1>1, <1>3, <3>4, <3>5, <3>7, <3>8, <3>9, <3>10, <3>11, <3>12, ChainKept
    <3> QED
      BY <3>5, <3>13 DEF Served
  <2> QED
    BY <2>1, <2>2
<1>8. app' = u /\ store' = u.store /\ dialog' = u.dialog
  BY <1>2, <1>7, ApplyIsApp DEF Apply, Kept
<1>9. IndexKept'
  BY <1>1, <1>2, <1>7, <1>8, AppIsRecord DEF IndexKept
<1> QED
  BY <1>2, <1>7, <1>8, <1>9, AppIsRecord

\* The steps that a restore has loaded, each once.
LEMMA ChainsAre ==
    ASSUME NEW steps \in Chains
    PROVE  steps \in Seq(Step) /\ Distinct(steps)
<1>1. CASE steps = <<>>
  BY <1>1 DEF Distinct
<1>2. CASE \E uid \in Items : steps = <<[uid |-> uid, enabled |-> TRUE]>>
  <2>1. PICK uid \in Items : steps = <<[uid |-> uid, enabled |-> TRUE]>>
    BY <1>2
  <2>2. [uid |-> uid, enabled |-> TRUE] \in Step
    BY DEF Step
  <2> QED
    BY <2>1, <2>2 DEF Distinct
<1> QED
  BY <1>1, <1>2 DEF Chains

LEMMA LoadKept ==
    ASSUME IInv, NEW steps \in Chains, NEW files,
           files = [uid \in Items |->
               IF \E i \in DOMAIN steps : steps[i].uid = uid THEN Template ELSE disk[uid]],
           Load(steps, files)
    PROVE  /\ Kept(app', disk', acked', calls') /\ Served(app') /\ IndexKept'
           /\ DialogKept(app') /\ store.maintenance
<1> DEFINE uids == app.store.used \cup {steps[i].uid : i \in DOMAIN steps}
           held == [app.store EXCEPT !.chain = steps, !.used = uids]
           t == [app EXCEPT !.dialog = Closed, !.store.chain = steps, !.store.used = uids]
           s == CancelFileOperations(t)
           u == ChainChanged(s)
           b == [uid \in Items |-> 0]
<1>1. /\ app \in AppRec /\ Kept(app, disk, acked, calls) /\ Served(app) /\ IndexKept
      /\ calls \in 0 .. MaxCalls /\ disk \in [Items -> Contents \cup {Absent}]
  BY AppKept DEF IInv
<1>2. t = [app EXCEPT !.dialog = Closed, !.store = held]
  BY <1>1 DEF AppRec
<1>3. t = [app EXCEPT !.dialog = Closed, !.store.chain = steps,
                      !.store.used = @ \cup {steps[i].uid : i \in DOMAIN steps}]
  BY <1>1 DEF AppRec
<1>4. /\ Called /\ app.store.maintenance /\ ~app.store.running /\ Apply(u)
      /\ index' = steps /\ disk' = files /\ acked' = b /\ saveFailures' = saveFailures
  BY <1>3, AppIsRecord DEF Load, IsFileBusy
<1>5. Kept(app, disk, acked, calls') /\ calls' \in 0 .. MaxCalls
  BY <1>1, <1>4, CalledMore, CallsKept
<1>6. steps \in Seq(Step) /\ Distinct(steps)
  BY ChainsAre
<1>7. uids \in SUBSET Items /\ {steps[i].uid : i \in DOMAIN steps} \subseteq Items
  <2>1. \A i \in DOMAIN steps : steps[i] \in Step
    BY <1>6
  <2>2. \A i \in DOMAIN steps : steps[i].uid \in Items
    BY <2>1 DEF Step
  <2>3. app.store.used \subseteq Items
    BY <1>1 DEF AppRec, StoreRec
  <2> QED
    BY <2>2, <2>3
<1>8. /\ held \in StoreRec /\ held.queue = app.store.queue /\ held.chain = steps
      /\ held.used = uids /\ held.maintenance = app.store.maintenance
      /\ held.running = app.store.running
  <2>1. app.store \in StoreRec
    BY <1>1 DEF AppRec
  <2> HIDE DEF uids
  <2> QED
    BY <1>6, <1>7, <2>1 DEF StoreRec
<1> HIDE DEF t, held
<1>9. t \in AppRec /\ t.store = held /\ t.write = app.write /\ t.run = app.run /\ t.dialog = Closed
  BY <1>1, <1>2, <1>8 DEF AppRec
<1>10. Cancelled(t, s)
  BY <1>9, CancelledIs
<1> HIDE DEF s
<1>11. s \in AppRec
  BY <1>10 DEF Cancelled
<1>12. /\ u \in AppRec /\ u.store = s.store /\ u.write = s.write /\ u.dialog = s.dialog
       /\ Voided(s.run, u.run)
  BY <1>11, ChainChangedIs DEF Voided
<1> HIDE DEF u
<1>13. app.write = NoWrite /\ app.store.queue = <<>>
  BY <1>1, <1>4 DEF Kept, StoreKept
<1>14. /\ u.store.queue = <<>> /\ u.store.used = uids /\ u.store.chain = steps
       /\ u.store.running = app.store.running /\ u.write = NoWrite
       /\ Voided(app.run, u.run)
  BY <1>8, <1>9, <1>10, <1>12, <1>13 DEF Cancelled
<1>15. Listed(u) = {steps[i].uid : i \in DOMAIN steps} /\ Listed(u) \subseteq Items
  BY <1>7, <1>14 DEF Listed
<1>16. Pending(app) = {}
  BY <1>13 DEF Pending, Range
<1>17. /\ files \in [Items -> Contents \cup {Absent}]
       /\ \A uid \in Listed(u) : files[uid] = Template
       /\ Template # Absent /\ Template.version = 0
  <2>1. Template \in Contents /\ Template # Absent /\ Template.version = 0
    BY ItemsAssumption DEF Template, Absent, Contents
  <2> QED
    BY <1>1, <1>15, <2>1
<1>18. /\ b \in [Items -> 0 .. MaxCalls] /\ \A uid \in Items : b[uid] = 0
  BY ItemsAssumption
<1> HIDE DEF b
<1>19. /\ \A uid \in Items : b[uid] <= calls'
       /\ \A uid \in Items \ u.store.used : b[uid] = 0
       /\ \A uid \in Listed(u) : files[uid] # Absent /\ b[uid] <= files[uid].version
  BY <1>5, <1>15, <1>17, <1>18, ItemsAssumption
<1>20. /\ \A i, j \in DOMAIN u.store.chain : u.store.chain[i].uid = u.store.chain[j].uid => i = j
       /\ Listed(u) \subseteq u.store.used /\ app.store.used \subseteq u.store.used
  BY <1>6, <1>14, <1>15 DEF Distinct
<1>21. Kept(u, files, b, calls')
  <2>1. ~(u.write.phase = "ended")
    BY <1>14 DEF NoWrite
  <2>2. u.store.queue \in {app.store.queue, <<>>}
    BY <1>14
  <2> QED
    BY <1>1, <1>5, <1>12, <1>13, <1>14, <1>16, <1>17, <1>18, <1>19, <1>20, <2>1, <2>2, ChainKept
<1>22. Served(u)
  BY <1>14 DEF Served
<1>23. app' = u /\ store' = u.store
  BY <1>4, <1>12, ApplyIsApp DEF Apply
<1>24. IndexKept'
  BY <1>1, <1>4, <1>6, <1>14, <1>23 DEF IndexKept
<1>25. DialogKept(u)
  BY <1>9, <1>10, <1>12 DEF DialogKept, Cancelled, Hears, Closed
<1> QED
  BY <1>4, <1>21, <1>22, <1>23, <1>24, <1>25, AppIsRecord

-----------------------------------------------------------------------------
(* The generation *)

LEMMA RunStepKept ==
    ASSUME IInv, UNCHANGED <<store, write, dialog, disk, index, acked, calls, saveFailures>>,
           run' \in RunRec \cup {NoRun}, RunKept(run', store.chain, acked)
    PROVE  /\ Kept(app', disk', acked', calls') /\ Served(app') /\ IndexKept'
           /\ Settles(app, app')
<1>1. app \in AppRec /\ Kept(app, disk, acked, calls) /\ Served(app) /\ IndexKept
  BY AppKept DEF IInv
<1> DEFINE t == app'
<1>2. /\ t \in AppRec /\ t.store = app.store /\ t.write = app.write /\ t.run = run'
      /\ t.dialog = app.dialog
  BY <1>1 DEF app, AppRec
<1> HIDE DEF t
<1>3. Kept(t, disk, acked, calls)
  BY <1>1, <1>2, AppIsRecord, RunOnlyKept
<1>4. Served(t)
  BY <1>1, <1>2 DEF Served
<1>5. IndexKept'
  BY <1>1 DEF IndexKept
<1>6. Settles(app, t)
  BY <1>2 DEF Settles, Hears, Pending
<1> QED
  BY <1>3, <1>4, <1>5, <1>6 DEF t

\* What there is of the generation, and of the chain that it took.
LEMMA RunIs ==
    ASSUME IInv
    PROVE  /\ run \in RunRec \cup {NoRun} /\ RunKept(run, store.chain, acked)
           /\ run.phase # "idle" => run \in RunRec
           /\ store.chain \in Seq(Step) /\ Distinct(store.chain)
           /\ \A i \in DOMAIN store.chain :
                  LET file == disk[store.chain[i].uid]
                  IN file # Absent /\ acked[store.chain[i].uid] <= file.version
<1>1. app \in AppRec /\ Kept(app, disk, acked, calls)
  BY AppKept
<1>2. /\ run \in RunRec \cup {NoRun} /\ RunKept(run, store.chain, acked)
      /\ run.phase # "idle" => run \in RunRec
      /\ store.chain \in Seq(Step) /\ Distinct(store.chain)
  BY <1>1, AppIsRecord, Shapes DEF Kept, AppRec, StoreRec, StoreKept, Distinct
<1>3. ASSUME NEW i \in DOMAIN store.chain
      PROVE  LET file == disk[store.chain[i].uid]
             IN file # Absent /\ acked[store.chain[i].uid] <= file.version
  <2>1. store.chain[i].uid \in Listed(app)
    BY <1>1, ListedAre, AppIsRecord
  <2> QED
    BY <1>1, <2>1 DEF Kept, FilesKept
<1> QED
  BY <1>2, <1>3

\* A step that has been tried leaves its outcome behind those before it.
LEMMA PastIs ==
    ASSUME NEW r \in RunRec, r.at \in 1 .. Len(r.chain), NEW source \in Contents \cup {Absent},
           NEW ok \in BOOLEAN
    PROVE  LET t == Past(r, source, ok)
           IN /\ t \in RunRec /\ t.phase = "applying" /\ t.chain = r.chain /\ t.at = r.at + 1
              /\ t.cancelled = r.cancelled
              /\ Len(t.outcomes) = Len(r.outcomes) + 1
              /\ \A k \in 1 .. Len(r.outcomes) : t.outcomes[k] = r.outcomes[k]
              /\ t.outcomes[Len(r.outcomes) + 1].uid = r.chain[r.at].uid
              /\ t.outcomes[Len(r.outcomes) + 1].version = source.version
<1> DEFINE outcome == [uid |-> r.chain[r.at].uid, version |-> source.version, ok |-> ok]
           outcomes == Append(r.outcomes, outcome)
           t == Past(r, source, ok)
<1>1. r.chain \in Seq(Step) /\ r.outcomes \in Seq(Outcome) /\ r.at \in Nat
  BY DEF RunRec
<1>2. r.chain[r.at] \in Step
  BY <1>1
<1>3. source.version \in 0 .. MaxCalls
  BY ItemsAssumption DEF Contents, Absent
<1>4. /\ outcome \in Outcome /\ outcome.uid = r.chain[r.at].uid
      /\ outcome.version = source.version
  BY <1>2, <1>3 DEF Outcome, Step
<1> HIDE DEF outcome
<1>5. /\ outcomes \in Seq(Outcome) /\ Len(outcomes) = Len(r.outcomes) + 1
      /\ outcomes[Len(r.outcomes) + 1] = outcome
      /\ \A k \in 1 .. Len(r.outcomes) : outcomes[k] = r.outcomes[k]
  BY <1>1, <1>4, AppendElements
<1>6. t = [r EXCEPT !.phase = "applying", !.at = r.at + 1, !.source = Absent, !.outcomes = outcomes]
  BY DEF Past, outcome, RunRec
<1> HIDE DEF t, outcomes
<1>7. /\ t \in RunRec /\ t.phase = "applying" /\ t.chain = r.chain /\ t.at = r.at + 1
      /\ t.cancelled = r.cancelled /\ t.outcomes = outcomes
  <2>1. r.at + 1 \in Nat
    BY <1>1
  <2> QED
    BY <1>5, <1>6, <2>1 DEF RunRec
<1> QED
  BY <1>4, <1>5, <1>7 DEF t

LEMMA PastTried ==
    ASSUME NEW r \in RunRec, NEW a, r.at \in 1 .. Len(r.chain), Tried(r, a), Distinct(r.chain),
           r.chain[r.at].enabled, NEW source \in Contents \cup {Absent}, NEW ok \in BOOLEAN,
           a[r.chain[r.at].uid] <= source.version
    PROVE  Tried(Past(r, source, ok), a)
<1> DEFINE t == Past(r, source, ok)
           n == Len(r.outcomes)
           passed == {i \in 1 .. r.at - 1 : r.chain[i].enabled}
           more == {i \in 1 .. t.at - 1 : t.chain[i].enabled}
           Of(k, i) == r.chain[i].uid = r.outcomes[k].uid
           OfNow(k, i) == t.chain[i].uid = t.outcomes[k].uid
<1>1. /\ t \in RunRec /\ t.chain = r.chain /\ t.at = r.at + 1
      /\ Len(t.outcomes) = n + 1
      /\ \A k \in 1 .. n : t.outcomes[k] = r.outcomes[k]
      /\ t.outcomes[n + 1].uid = r.chain[r.at].uid
      /\ t.outcomes[n + 1].version = source.version
  BY PastIs
<1> HIDE DEF t, n
<1>2. n \in Nat /\ DOMAIN t.outcomes = 1 .. n + 1 /\ DOMAIN r.outcomes = 1 .. n
  BY <1>1 DEF RunRec, n
<1>3. more = passed \cup {r.at} /\ r.at \notin passed /\ passed \subseteq DOMAIN r.chain
  BY <1>1 DEF RunRec
<1>4. /\ \A k \in 1 .. n : /\ \E i \in passed : Of(k, i)
                           /\ a[r.outcomes[k].uid] <= r.outcomes[k].version
      /\ \A i \in passed : \E k \in 1 .. n : Of(k, i)
      /\ \A k, l \in 1 .. n : \A i, j \in passed : k < l /\ Of(k, i) /\ Of(l, j) => i < j
  BY <1>2 DEF Tried
<1>5. \A k \in 1 .. n : \A i \in more : OfNow(k, i) <=> Of(k, i)
  BY <1>1
<1>6. \A k \in 1 .. n : \A i \in more : Of(k, i) => i \in passed
  BY <1>3, <1>4 DEF Distinct
<1>7. \A i \in more : OfNow(n + 1, i) <=> i = r.at
  BY <1>1, <1>3 DEF Distinct
<1>8. \A i \in passed : i < r.at
  OBVIOUS
<1>9. \A k \in 1 .. n + 1 : k \in 1 .. n \/ k = n + 1
  BY <1>2
<1>10. ASSUME NEW k \in 1 .. n + 1
       PROVE  (\E i \in more : OfNow(k, i)) /\ a[t.outcomes[k].uid] <= t.outcomes[k].version
  <2>1. CASE k \in 1 .. n
    BY <1>1, <1>3, <1>4, <2>1
  <2>2. CASE k = n + 1
    BY <1>1, <1>3, <2>2
  <2> QED
    BY <1>9, <2>1, <2>2
<1>11. ASSUME NEW i \in more PROVE \E k \in 1 .. n + 1 : OfNow(k, i)
  <2>1. CASE i \in passed
    <3>1. PICK k \in 1 .. n : Of(k, i)
      BY <1>4, <2>1
    <3>2. k \in 1 .. n + 1 /\ OfNow(k, i)
      BY <1>2, <1>5, <3>1
    <3> QED
      BY <3>2
  <2>2. CASE i = r.at
    <3>1. n + 1 \in 1 .. n + 1 /\ OfNow(n + 1, i)
      BY <1>2, <1>7, <2>2
    <3> QED
      BY <3>1
  <2> QED
    BY <1>3, <2>1, <2>2
<1>12. ASSUME NEW k \in 1 .. n + 1, NEW l \in 1 .. n + 1, NEW i \in more, NEW j \in more,
              k < l, OfNow(k, i), OfNow(l, j)
       PROVE  i < j
  <2>1. k \in 1 .. n
    BY <1>2, <1>12
  <2>2. i \in passed /\ Of(k, i)
    BY <1>5, <1>6, <1>12, <2>1
  <2>3. CASE l \in 1 .. n
    <3>1. j \in passed /\ Of(l, j)
      BY <1>5, <1>6, <1>12, <2>3
    <3> QED
      BY <1>4, <1>12, <2>1, <2>2, <2>3, <3>1
  <2>4. CASE l = n + 1
    <3>1. j = r.at
      BY <1>7, <1>12, <2>4
    <3> QED
      BY <1>8, <2>2, <3>1
  <2> QED
    BY <1>9, <2>3, <2>4
<1>13. Tried(t, a)
  BY <1>2, <1>10, <1>11, <1>12 DEF Tried
<1> QED
  BY <1>13 DEF t

LEMMA GenerateKept ==
    ASSUME IInv, Generate
    PROVE  /\ Kept(app', disk', acked', calls') /\ Served(app') /\ IndexKept'
           /\ Settles(app, app')
<1> DEFINE r == [phase |-> "applying", chain |-> store.chain, at |-> 1, outcomes |-> <<>>,
                 cancelled |-> FALSE, fired |-> FALSE, source |-> Absent]
<1>1. store.chain \in Seq(Step)
  BY RunIs
<1>2. run' = r
  BY DEF Generate
<1>3. <<>> \in Seq(Outcome) /\ DOMAIN <<>> = {}
  OBVIOUS
<1>4. /\ r \in RunRec /\ r.phase = "applying" /\ r.chain = store.chain /\ r.at = 1
      /\ DOMAIN r.outcomes = {}
  BY <1>1, <1>3 DEF RunRec
<1> HIDE DEF r
<1>5. 1 \in 1 .. Len(r.chain) + 1 /\ {i \in 1 .. r.at - 1 : r.chain[i].enabled} = {}
  BY <1>1, <1>4
<1>6. Tried(r, acked)
  BY <1>4, <1>5 DEF Tried
<1>7. RunKept(r, store.chain, acked)
  BY <1>4, <1>5, <1>6 DEF RunKept
<1> QED
  BY <1>2, <1>4, <1>7, RunStepKept DEF Generate

LEMMA ApplyStepKept ==
    ASSUME IInv, ApplyStep
    PROVE  /\ Kept(app', disk', acked', calls') /\ Served(app') /\ IndexKept'
           /\ Settles(app, app')
<1> DEFINE step == run.chain[run.at]
           source == disk[step.uid]
           skipped == [run EXCEPT !.at = run.at + 1]
           handed == [run EXCEPT !.phase = "script", !.fired = FALSE, !.source = source]
           ok == source.behaves = "well"
           tried == Past(run, source, ok)
<1>1. /\ run.phase = "applying" /\ ~run.cancelled /\ run.at <= Len(run.chain)
      /\ \/ ~step.enabled /\ run' = skipped
         \/ step.enabled /\ run' = handed /\ source # Absent
         \/ step.enabled /\ run' = tried
      /\ UNCHANGED <<store, write, dialog, disk, index, acked, calls, saveFailures>>
  BY DEF ApplyStep
<1>2. /\ run \in RunRec /\ RunKept(run, store.chain, acked) /\ Distinct(run.chain)
      /\ run.chain = store.chain /\ Tried(run, acked)
  BY <1>1, RunIs DEF RunKept
<1>3. run.at \in Nat /\ run.at \in 1 .. Len(run.chain) /\ Len(run.chain) \in Nat
  BY <1>1, <1>2 DEF RunKept, RunRec
<1>4. step \in Step /\ run.at \in DOMAIN store.chain
  BY <1>2, <1>3 DEF RunRec
<1>5. source \in Contents \cup {Absent} /\ source # Absent /\ acked[step.uid] <= source.version
  <2>1. disk \in [Items -> Contents \cup {Absent}]
    BY AppKept
  <2> QED
    BY <1>2, <1>4, <2>1, RunIs DEF Step
<1>6. CASE ~step.enabled /\ run' = skipped
  <2> HIDE DEF source
  <2>1. /\ skipped \in RunRec /\ skipped.phase = "applying" /\ skipped.chain = run.chain
        /\ skipped.at = run.at + 1 /\ skipped.outcomes = run.outcomes
        /\ skipped.cancelled = run.cancelled
    BY <1>1, <1>2, <1>3 DEF RunRec
  <2> HIDE DEF skipped
  <2>2. {i \in 1 .. skipped.at - 1 : skipped.chain[i].enabled} = {i \in 1 .. run.at - 1 : run.chain[i].enabled}
    BY <1>3, <1>6, <2>1
  <2>3. Tried(skipped, acked)
    BY <1>2, <2>1, <2>2 DEF Tried
  <2>4. skipped.at \in 1 .. Len(skipped.chain) + 1
    BY <1>3, <2>1
  <2>5. RunKept(skipped, store.chain, acked)
    BY <1>2, <2>1, <2>3, <2>4 DEF RunKept
  <2> QED
    BY <1>1, <1>6, <2>1, <2>5, RunStepKept
<1>7. CASE step.enabled /\ run' = handed
  <2>1. source \in Contents \cup {Absent}
    BY <1>5
  <2>2. acked[step.uid] <= source.version
    BY <1>5
  <2> HIDE DEF source
  <2>3. /\ handed \in RunRec /\ handed.phase = "script" /\ handed.chain = run.chain
        /\ handed.at = run.at /\ handed.outcomes = run.outcomes
        /\ handed.cancelled = run.cancelled /\ handed.source = source
    BY <1>1, <1>2, <2>1 DEF RunRec
  <2> HIDE DEF handed
  <2>4. Tried(handed, acked)
    BY <1>2, <2>3 DEF Tried
  <2>5. handed.at \in 1 .. Len(handed.chain) + 0
    BY <1>3, <2>3
  <2>6. RunKept(handed, store.chain, acked)
    BY <1>2, <1>7, <2>2, <2>3, <2>4, <2>5 DEF RunKept
  <2> QED
    BY <1>1, <1>7, <2>3, <2>6, RunStepKept
<1>8. CASE step.enabled /\ run' = tried
  <2>1. ok \in BOOLEAN
    OBVIOUS
  <2> HIDE DEF ok, source
  <2>2. /\ tried \in RunRec /\ tried.phase = "applying" /\ tried.chain = run.chain
        /\ tried.at = run.at + 1 /\ tried.cancelled = run.cancelled
    BY <1>2, <1>3, <1>5, <2>1, PastIs
  <2>3. Tried(tried, acked)
    BY <1>2, <1>3, <1>5, <1>8, <2>1, PastTried
  <2> HIDE DEF tried
  <2>4. tried.at \in 1 .. Len(tried.chain) + 1
    BY <1>3, <2>2
  <2>5. RunKept(tried, store.chain, acked)
    BY <1>2, <2>2, <2>3, <2>4 DEF RunKept
  <2> QED
    BY <1>1, <1>8, <2>2, <2>5, RunStepKept
<1> QED
  BY <1>1, <1>6, <1>7, <1>8

LEMMA WatchdogFiresKept ==
    ASSUME IInv, WatchdogFires
    PROVE  /\ Kept(app', disk', acked', calls') /\ Served(app') /\ IndexKept'
           /\ Settles(app, app')
<1> DEFINE t == [run EXCEPT !.fired = TRUE]
<1>1. /\ run.phase = "script" /\ run' = t
      /\ UNCHANGED <<store, write, dialog, disk, index, acked, calls, saveFailures>>
  BY DEF WatchdogFires
<1>2. run \in RunRec /\ RunKept(run, store.chain, acked)
  BY <1>1, RunIs
<1>3. /\ t \in RunRec /\ t.phase = run.phase /\ t.chain = run.chain /\ t.at = run.at
      /\ t.outcomes = run.outcomes /\ t.cancelled = run.cancelled /\ t.source = run.source
  BY <1>2 DEF RunRec
<1> HIDE DEF t
<1>4. Tried(run, acked) => Tried(t, acked)
  BY <1>3 DEF Tried
<1>5. RunKept(t, store.chain, acked)
  BY <1>2, <1>3, <1>4 DEF RunKept
<1> QED
  BY <1>1, <1>3, <1>5, RunStepKept

LEMMA ScriptReturnsKept ==
    ASSUME IInv, ScriptReturns
    PROVE  /\ Kept(app', disk', acked', calls') /\ Served(app') /\ IndexKept'
           /\ Settles(app, app')
<1> DEFINE ok == ~run.fired /\ run.source.behaves = "well"
           t == Past(run, run.source, ok)
<1>1. /\ run.phase = "script" /\ run' = t
      /\ UNCHANGED <<store, write, dialog, disk, index, acked, calls, saveFailures>>
  BY DEF ScriptReturns
<1>2. /\ run \in RunRec /\ RunKept(run, store.chain, acked) /\ Distinct(store.chain)
      /\ run.source \in Contents \cup {Absent}
  BY <1>1, RunIs DEF RunRec
<1>3. ok \in BOOLEAN
  BY <1>2 DEF RunRec
<1> HIDE DEF ok
<1>4. run.at \in 1 .. Len(run.chain) /\ Len(run.chain) \in Nat /\ run.at \in Nat
  BY <1>1, <1>2 DEF RunKept, RunRec
<1>5. /\ t \in RunRec /\ t.phase = "applying" /\ t.chain = run.chain
      /\ t.at = run.at + 1 /\ t.cancelled = run.cancelled
  BY <1>2, <1>3, <1>4, PastIs
<1>6. ~run.cancelled => Tried(t, acked) /\ run.chain = store.chain
  <2>1. SUFFICES ASSUME ~run.cancelled PROVE Tried(t, acked) /\ run.chain = store.chain
    OBVIOUS
  <2>2. /\ run.chain = store.chain /\ Tried(run, acked)
        /\ run.chain[run.at].enabled /\ acked[run.chain[run.at].uid] <= run.source.version
    BY <1>1, <1>2, <2>1 DEF RunKept
  <2>3. Distinct(run.chain)
    BY <1>2, <2>2
  <2> QED
    BY <1>2, <1>3, <1>4, <2>2, <2>3, PastTried
<1> HIDE DEF t
<1>7. t.at \in 1 .. Len(t.chain) + 1
  BY <1>4, <1>5
<1>8. RunKept(t, store.chain, acked)
  BY <1>5, <1>6, <1>7 DEF RunKept
<1> QED
  BY <1>1, <1>5, <1>8, RunStepKept

LEMMA DeliverKept ==
    ASSUME IInv, Deliver
    PROVE  /\ Kept(app', disk', acked', calls') /\ Served(app') /\ IndexKept'
           /\ Settles(app, app')
<1>1. /\ run' = NoRun
      /\ UNCHANGED <<store, write, dialog, disk, index, acked, calls, saveFailures>>
  BY DEF Deliver
<1>2. RunKept(NoRun, store.chain, acked)
  BY DEF RunKept, NoRun
<1> QED
  BY <1>1, <1>2, RunStepKept

-----------------------------------------------------------------------------
(* The invariant *)

LEMMA InitIInv ==
    Init => IInv
<1> SUFFICES ASSUME Init PROVE IInv
  OBVIOUS
<1>1. PICK first \in Items :
         /\ store = [chain |-> <<[uid |-> first, enabled |-> TRUE]>>, used |-> {first},
                     maintenance |-> FALSE, shuttingDown |-> FALSE, running |-> FALSE,
                     generation |-> 0, queue |-> <<>>]
         /\ disk = [uid \in Items |-> IF uid = first THEN Template ELSE Absent]
  BY DEF Init
<1>2. /\ index = store.chain /\ write = NoWrite /\ dialog = Closed /\ run = NoRun
      /\ acked = [uid \in Items |-> 0] /\ calls = 0 /\ saveFailures = 0
  BY DEF Init
<1> DEFINE steps == <<[uid |-> first, enabled |-> TRUE]>>
<1>3. /\ steps \in Seq(Step) /\ DOMAIN steps = {1} /\ steps[1].uid = first /\ Distinct(steps)
  <2>1. [uid |-> first, enabled |-> TRUE] \in Step
    BY DEF Step
  <2>2. Len(steps) = 1 /\ DOMAIN steps = 1 .. 1
    OBVIOUS
  <2> QED
    BY <2>1, <2>2 DEF Distinct
<1>4. store.chain = steps
  BY <1>1
<1> HIDE DEF steps
<1>5. <<>> \in Seq(Request) /\ DOMAIN <<>> = {}
  OBVIOUS
<1>6. store \in StoreRec /\ store.queue = <<>> /\ ~store.running /\ store.used = {first} /\ ~store.maintenance
  BY <1>1, <1>3, <1>4, <1>5 DEF StoreRec
<1>7. app \in AppRec
  BY <1>2, <1>6 DEF app, AppRec
<1>8. Listed(app) = {first} /\ Pending(app) = {}
  BY <1>2, <1>3, <1>4, <1>5, <1>6, AppIsRecord DEF Listed, Pending, Range
<1>9. Template \in Contents /\ Template # Absent /\ Template.version = 0
  BY ItemsAssumption DEF Template, Absent, Contents
<1>10. /\ disk \in [Items -> Contents \cup {Absent}] /\ disk[first] = Template
       /\ acked \in [Items -> 0 .. MaxCalls] /\ \A uid \in Items : acked[uid] = 0
       /\ calls \in 0 .. MaxCalls /\ calls = 0
  BY <1>1, <1>2, <1>9, ItemsAssumption
<1>11. StoreKept(app)
  BY <1>2, <1>3, <1>4, <1>6, <1>8, AppIsRecord DEF StoreKept, Distinct
<1>12. QueueKept(app, acked, calls)
  BY <1>2, <1>5, <1>6, <1>8, AppIsRecord DEF QueueKept
<1>13. FilesKept(app, disk, acked)
  BY <1>2, <1>8, <1>9, <1>10, AppIsRecord DEF FilesKept, NoWrite
<1>14. RunKept(app.run, app.store.chain, acked)
  BY <1>2, AppIsRecord DEF RunKept, NoRun
<1>15. Kept(app, disk, acked, calls)
  BY <1>7, <1>10, <1>11, <1>12, <1>13, <1>14 DEF Kept
<1>16. Served(app) /\ IndexKept
  BY <1>2, <1>3, <1>4, <1>6, AppIsRecord DEF Served, IndexKept
<1>17. DialogKept(app)
  BY <1>2, AppIsRecord DEF DialogKept, Closed
<1> QED
  BY <1>15, <1>16, <1>17 DEF IInv

\* A dialog that closes as saved has what is on disk.
Reported ==
    dialog.state = "saving" /\ dialog'.state = "closed" /\ ~EditorCloses /\ ~store.maintenance =>
        /\ write.phase = "ended" /\ write.request.uid = dialog.uid
        /\ disk[dialog.uid] = write.request.content /\ dialog.uid \in Listed(app)
        /\ ~dialog.behind => disk[dialog.uid].version = dialog.asked

\* An action that settles the dialog closes none that waits.
LEMMA Settled ==
    ASSUME IInv, Settles(app, app')
    PROVE  DialogKept(app') /\ Reported
<1>1. DialogKept(app')
  BY SettlesKept DEF IInv
<1>2. dialog'.state = "closed" => dialog' = dialog
  BY DEF Settles, Hears, app
<1> QED
  BY <1>1, <1>2 DEF Reported

LEMMA UserKept ==
    ASSUME IInv, User
    PROVE  IInv' /\ Reported
<1>1. ASSUME NEW uid \in Items, AddItem(uid) PROVE IInv' /\ Reported
  BY <1>1, AddItemKept, Settled DEF IInv
<1>2. ASSUME NEW uid \in Items, RemoveItem(uid) PROVE IInv' /\ Reported
  BY <1>2, RemoveItemKept, Settled DEF IInv
<1>3. ASSUME NEW uid \in Items, SetEnabled(uid) PROVE IInv' /\ Reported
  BY <1>3, SetEnabledKept, Settled DEF IInv
<1>4. ASSUME NEW uid \in Items, RenameItem(uid) PROVE IInv' /\ Reported
  BY <1>4, RenameItemKept, Settled DEF IInv
<1>5. ASSUME NEW uid \in Items, EditStep(uid) PROVE IInv' /\ Reported
  BY <1>5, EditStepKept, Settled DEF IInv
<1>6. ASSUME NEW uid \in Items, NEW behaves \in Behaviours, ImportItemAsync(uid, behaves)
      PROVE  IInv' /\ Reported
  BY <1>6, ImportItemKept, Settled DEF IInv
<1>7. ASSUME NEW uid \in Items, NEW target, MoveItem(uid, target) PROVE IInv' /\ Reported
  BY <1>7, MoveItemKept, Settled DEF IInv
<1>8. ASSUME NEW behaves \in Behaviours, EditorSaves(behaves) PROVE IInv' /\ Reported
  BY <1>8, EditorSavesKept DEF IInv, Reported
<1>9. CASE EditorCloses
  BY <1>9, EditorClosesKept DEF IInv, Reported
<1>10. CASE BeginShutdown
  BY <1>10, BeginShutdownKept, Settled DEF IInv
<1>11. CASE Generate
  BY <1>11, GenerateKept, Settled DEF IInv
<1>12. ASSUME NEW enabled \in BOOLEAN, SetMaintenanceMode(enabled) PROVE IInv' /\ Reported
  BY <1>12, SetMaintenanceModeKept, Settled DEF IInv
<1>13. ASSUME NEW steps \in Chains,
              Load(steps, [uid \in Items |->
                  IF \E i \in DOMAIN steps : steps[i].uid = uid THEN Template ELSE disk[uid]])
       PROVE  IInv' /\ Reported
  <2> DEFINE files == [uid \in Items |->
                           IF \E i \in DOMAIN steps : steps[i].uid = uid THEN Template ELSE disk[uid]]
  <2>1. Load(steps, files)
    BY <1>13
  <2>2. /\ Kept(app', disk', acked', calls') /\ Served(app') /\ IndexKept'
        /\ DialogKept(app') /\ store.maintenance
    BY <2>1, LoadKept
  <2> QED
    BY <2>2 DEF IInv, Reported
<1> QED
  BY <1>1, <1>2, <1>3, <1>4, <1>5, <1>6, <1>7, <1>8, <1>9, <1>10, <1>11, <1>12, <1>13 DEF User

LEMMA MachineKept ==
    ASSUME IInv, Machine
    PROVE  IInv' /\ Reported
<1>1. CASE WorkerPrepares
  BY <1>1, WorkerPreparesKept, Settled DEF IInv
<1>2. CASE WorkerCommits
  BY <1>2, WorkerCommitsKept, Settled DEF IInv
<1>3. CASE FinishUpdate
  BY <1>3, FinishUpdateKept DEF IInv, Reported
<1>4. CASE FinishCreation
  BY <1>4, FinishCreationKept, Settled DEF IInv
<1>5. ASSUME NEW ok \in BOOLEAN, EditorLoads(ok) PROVE IInv' /\ Reported
  BY <1>5, EditorLoadsKept, Settled DEF IInv
<1>6. CASE ApplyStep
  BY <1>6, ApplyStepKept, Settled DEF IInv
<1>7. CASE WatchdogFires
  BY <1>7, WatchdogFiresKept, Settled DEF IInv
<1>8. CASE ScriptReturns
  BY <1>8, ScriptReturnsKept, Settled DEF IInv
<1>9. CASE Deliver
  BY <1>9, DeliverKept, Settled DEF IInv
<1> QED
  BY <1>1, <1>2, <1>3, <1>4, <1>5, <1>6, <1>7, <1>8, <1>9 DEF Machine

LEMMA NextKept ==
    ASSUME IInv, [Next]_vars
    PROVE  IInv' /\ (Reported \/ UNCHANGED vars)
<1>1. CASE UNCHANGED vars
  BY <1>1 DEF vars, IInv, IndexKept, app
<1> QED
  BY <1>1, UserKept, MachineKept DEF Next

LEMMA Invariance ==
    Spec => []IInv
<1>1. IInv /\ [Next]_vars => IInv'
  BY NextKept
<1> QED
  BY InitIInv, <1>1, PTL DEF Spec

\* The state has its type; a write runs as long as isFileBusy() says so, the
\* queue waits for nothing else, every listed step has its file, and only a
\* failure to write chain.json sets it apart from the chain
\* (ConfigEnhancer::startNextWrite and the slot of the write).
THEOREM ChainIsSafe ==
    Spec => []Safety
<1>1. IInv => Safety
  <2> SUFFICES ASSUME IInv PROVE Safety
    OBVIOUS
  <2>1. /\ app \in AppRec /\ Kept(app, disk, acked, calls) /\ Served(app) /\ IndexKept
        /\ disk \in [Items -> Contents \cup {Absent}] /\ acked \in [Items -> 0 .. MaxCalls]
        /\ calls \in 0 .. MaxCalls
    BY AppKept DEF IInv
  <2>2. TypeOK
    BY <2>1, AppIsRecord DEF TypeOK, Kept, StoreKept, IndexKept
  <2> QED
    BY <2>1, <2>2, AppIsRecord DEF Safety, Kept, StoreKept, FilesKept, Served, IndexKept
<1> QED
  BY <1>1, Invariance, PTL

\* The dialog closes as saved only over a file that a write has put there, its
\* own unless it asked behind another dialog's, whatever cancellations, removals
\* and restores come between (the slot of a write, which compares the write's
\* generation with the enhancer's, and the dialog's slot of itemContentSaved).
THEOREM ReportedSavesAreOnDisk ==
    Spec => SaveIsOnDisk
<1>1. IInv /\ [Next]_vars =>
          [ dialog.state = "saving" /\ dialog'.state = "closed" /\ ~EditorCloses /\ ~store.maintenance =>
              /\ write.phase = "ended" /\ write.request.uid = dialog.uid
              /\ disk[dialog.uid] = write.request.content /\ dialog.uid \in Listed(app)
              /\ ~dialog.behind => disk[dialog.uid].version = dialog.asked ]_vars
  BY NextKept DEF Reported
<1> QED
  BY <1>1, Invariance, PTL DEF Spec, SaveIsOnDisk

\* A configuration that is delivered is made with every enabled step of the
\* chain as it is, once and in order, and in no older version than was
\* confirmed (chainChanged, which voids the generation, and applyChain).
THEOREM DeliveredIsCurrent ==
    Spec => DeliveredChainIsCurrent
<1> DEFINE tried == run.outcomes
           Place(k) == IndexOf(app, tried[k].uid)
<1>1. ASSUME IInv, Deliver, ~run.cancelled PROVE TriedTheChain(run)
  <2>1. run.phase = "applying" /\ run.at > Len(run.chain)
    BY <1>1 DEF Deliver, Finished
  <2>2. /\ run \in RunRec /\ run.chain = store.chain /\ Tried(run, acked)
        /\ store.chain \in Seq(Step) /\ Distinct(store.chain)
        /\ run.at \in 1 .. Len(run.chain) + 1 /\ Len(store.chain) \in Nat /\ app \in AppRec
        /\ acked \in [Items -> 0 .. MaxCalls]
    BY <1>1, <2>1, RunIs, AppKept DEF RunKept
  <2> DEFINE passed == {i \in DOMAIN store.chain : store.chain[i].enabled}
  <2>3. {i \in 1 .. run.at - 1 : run.chain[i].enabled} = passed
    <3>1. run.at - 1 = Len(store.chain) /\ DOMAIN store.chain = 1 .. Len(store.chain)
      BY <2>1, <2>2
    <3> QED
      BY <2>2, <3>1
  <2> HIDE DEF tried
  <2>4. /\ \A k \in DOMAIN tried : /\ \E i \in passed : store.chain[i].uid = tried[k].uid
                                   /\ acked[tried[k].uid] <= tried[k].version
        /\ \A i \in passed : \E k \in DOMAIN tried : store.chain[i].uid = tried[k].uid
        /\ \A k, l \in DOMAIN tried : \A i, j \in passed :
               k < l /\ store.chain[i].uid = tried[k].uid /\ store.chain[j].uid = tried[l].uid => i < j
    <3> DEFINE before == {i \in 1 .. run.at - 1 : run.chain[i].enabled}
    <3>1. /\ \A k \in DOMAIN tried : /\ \E i \in before : run.chain[i].uid = tried[k].uid
                                     /\ acked[tried[k].uid] <= tried[k].version
          /\ \A i \in before : \E k \in DOMAIN tried : run.chain[i].uid = tried[k].uid
          /\ \A k, l \in DOMAIN tried : \A i, j \in before :
                 k < l /\ run.chain[i].uid = tried[k].uid /\ run.chain[j].uid = tried[l].uid => i < j
      BY <2>2 DEF Tried, tried
    <3>2. before = passed /\ run.chain = store.chain
      BY <2>2, <2>3
    <3> HIDE DEF before, passed
    <3> QED
      BY <3>1, <3>2
  <2>5. ASSUME NEW i \in passed, NEW k \in DOMAIN tried, store.chain[i].uid = tried[k].uid
        PROVE  Place(k) = i /\ tried[k].uid \in Listed(app)
    <3>1. tried[k].uid \in Listed(app)
      BY <2>2, <2>5, ListedAre, AppIsRecord
    <3>2. Place(k) \in DOMAIN store.chain /\ store.chain[Place(k)].uid = tried[k].uid
      BY <2>2, <3>1, IndexOfIs, AppIsRecord
    <3> HIDE DEF Place
    <3> QED
      BY <2>2, <2>5, <3>1, <3>2 DEF Distinct
  <2>6. ASSUME NEW k \in DOMAIN tried
        PROVE  /\ tried[k].uid \in Listed(app) /\ tried[k].version >= acked[tried[k].uid]
               /\ Place(k) \in passed /\ store.chain[Place(k)].uid = tried[k].uid
    <3>1. PICK i \in passed : store.chain[i].uid = tried[k].uid
      BY <2>4
    <3>2. Place(k) = i /\ tried[k].uid \in Listed(app)
      BY <2>5, <3>1
    <3>3. tried[k].version \in Nat /\ acked[tried[k].uid] \in Nat
      <4>1. tried[k] \in Outcome /\ Listed(app) \subseteq Items
        BY <2>2, ListedAre DEF RunRec, tried
      <4> QED
        BY <2>2, <3>2, <4>1, ItemsAssumption DEF Outcome
    <3> HIDE DEF Place
    <3> QED
      BY <2>4, <3>1, <3>2, <3>3
  <2> HIDE DEF passed
  <2>7. \A i \in passed : \E k \in DOMAIN tried : Place(k) = i
    BY <2>4, <2>5
  <2>8. \A k, l \in DOMAIN tried : k < l => Place(k) < Place(l)
    BY <2>4, <2>6
  <2>9. {Place(k) : k \in DOMAIN tried} = passed
    BY <2>6, <2>7
  <2> QED
    BY <2>6, <2>8, <2>9 DEF passed, tried, TriedTheChain
<1>2. IInv /\ [Next]_vars => [Deliver /\ ~run.cancelled => TriedTheChain(run)]_vars
  BY <1>1
<1> QED
  BY <1>2, Invariance, PTL DEF Spec, DeliveredChainIsCurrent

=============================================================================
