---------------------------- MODULE ClientProofs ----------------------------
(***************************************************************************)
(* Proofs about the viewer, the integrations and the config files, and     *)
(* about all parts of Clients together.                                    *)
(***************************************************************************)
EXTENDS Clients, ChatProofs, StreamProofs

-----------------------------------------------------------------------------
(* The detail pane.                                                        *)

LEMMA WidthType == \A c : Width(c) \in 1..PartCount
BY PaneAssumption DEF Width

\* The lock is held by the first of the tasks that wait for it, which started in the order
\* of the choices, and only by those between their start and their end.
QueueInOrder ==
  /\ \A c \in Versions : task[c] = "none" <=> c > version
  /\ \A c, d \in Versions : c < d /\ task[c] = "scheduled" => task[d] \in {"none", "scheduled"}
  /\ \A i \in 1..Len(lockQueue) :
       task[lockQueue[i]] = "queued" \/ (i = 1 /\ task[lockQueue[i]] = "empty")
  /\ \A c \in Versions : task[c] \in {"queued", "empty"} =>
       \E i \in 1..Len(lockQueue) : lockQueue[i] = c
  /\ \A i, j \in 1..Len(lockQueue) : i < j => lockQueue[i] < lockQueue[j]

\* The last choice is not lost: its task is to come, or at work as the current one, or has
\* put everything up and left no other behind it.
LastIsShown ==
  ~unmounted /\ version > 0 =>
    \/ task[version] = "scheduled"
    \/ task[version] \in {"queued", "empty"} /\ revision = version
    \/ /\ task[version] = "done" /\ lockQueue = <<>>
       /\ pane # <<>> /\ pane[1][1] = version /\ Len(pane) = Width(version)

\* What is up is the beginning of one record, of the task's that puts it up.
OneRecordUp ==
  /\ \A i \in 1..Len(pane) : pane[i] = <<pane[1][1], i>>
  /\ \A c \in Versions : task[c] = "empty" =>
       Len(pane) < Width(c) /\ (pane # <<>> => pane[1][1] = c)

PaneInv == PaneTypeOK /\ QueueInOrder /\ LastIsShown /\ OneRecordUp

LEMMA PaneInvInit == PaneInit => PaneInv
<1> SUFFICES ASSUME PaneInit PROVE PaneInv
  OBVIOUS
<1>1. \A c \in Versions : task[c] = "none" /\ c > version
  BY DEF PaneInit, Versions
<1>2. PaneTypeOK
  <2>1. lockQueue \in Seq(Versions) /\ pane \in Seq(Versions \X (1..PartCount))
    BY DEF PaneInit
  <2>2. task \in [Versions -> {"none", "scheduled", "queued", "empty", "done"}]
    BY DEF PaneInit
  <2>3. version = 0 /\ revision = 0 /\ unmounted = FALSE
    BY DEF PaneInit
  <2>4. unmounted \in BOOLEAN
    BY <2>3, Zenon
  <2>5. 0 \in 0..MaxChoices
    BY PaneAssumption
  <2> QED
    BY <2>1, <2>2, <2>3, <2>4, <2>5 DEF PaneTypeOK
<1>3. lockQueue = <<>> /\ pane = <<>> /\ version = 0
  BY DEF PaneInit
<1> QED
  BY <1>1, <1>2, <1>3 DEF PaneInv, QueueInOrder, LastIsShown, OneRecordUp

LEMMA ChooseRecordInv == PaneInv /\ ChooseRecord => PaneInv'
<1> SUFFICES ASSUME PaneInv, ChooseRecord PROVE PaneInv'
  OBVIOUS
<1> USE PaneAssumption
<1>1. version + 1 \in Versions /\ version' = version + 1 /\ task[version + 1] = "none"
  BY DEF ChooseRecord, PaneInv, PaneTypeOK, QueueInOrder, Versions
<1>2. PaneTypeOK'
  BY <1>1 DEF ChooseRecord, PaneInv, PaneTypeOK, Versions
<1>3. /\ task'[version'] = "scheduled"
      /\ \A c \in Versions \ {version'} : task'[c] = task[c]
      /\ \A c \in Versions : task'[c] # task[c] => task[c] = "none"
  BY <1>1 DEF ChooseRecord, PaneInv, PaneTypeOK
<1>4. UNCHANGED <<lockQueue, revision, pane, unmounted>>
  BY DEF ChooseRecord
<1>5. \A i \in 1..Len(lockQueue) : lockQueue[i] \in Versions /\ lockQueue[i] # version'
  BY <1>1 DEF PaneInv, PaneTypeOK, QueueInOrder
<1>6. QueueInOrder'
  <2>1. version \in Nat /\ \A c \in Versions : c \in Nat
    BY DEF PaneInv, PaneTypeOK, Versions
  <2>2. \A c \in Versions : task'[c] = "none" <=> c > version'
    BY <1>1, <1>3, <2>1 DEF PaneInv, QueueInOrder
  <2>3. \A c, d \in Versions : c < d /\ task'[c] = "scheduled" => task'[d] \in {"none", "scheduled"}
    BY <1>1, <1>3, <2>1 DEF PaneInv, QueueInOrder
  <2>4. \A i \in 1..Len(lockQueue') : task'[lockQueue'[i]] = task[lockQueue[i]]
    BY <1>3, <1>4, <1>5
  <2>5. \A i \in 1..Len(lockQueue') :
          task'[lockQueue'[i]] = "queued" \/ (i = 1 /\ task'[lockQueue'[i]] = "empty")
    BY <1>4, <2>4 DEF PaneInv, QueueInOrder
  <2>6. \A c \in Versions : task'[c] \in {"queued", "empty"} =>
          \E i \in 1..Len(lockQueue') : lockQueue'[i] = c
    BY <1>3, <1>4 DEF PaneInv, QueueInOrder
  <2> QED
    BY <1>4, <2>2, <2>3, <2>5, <2>6 DEF PaneInv, QueueInOrder
<1>7. LastIsShown' /\ OneRecordUp'
  BY <1>1, <1>3, <1>4 DEF PaneInv, LastIsShown, OneRecordUp, Width
<1> QED
  BY <1>2, <1>6, <1>7 DEF PaneInv

LEMMA StartTaskInv == \A c \in Versions : PaneInv /\ StartTask(c) => PaneInv'
<1> SUFFICES ASSUME NEW c \in Versions, PaneInv, StartTask(c) PROVE PaneInv'
  OBVIOUS
<1> USE PaneAssumption
<1>1. /\ task[c] = "scheduled" /\ c <= version /\ version \in Versions
      /\ \A d \in Versions : d < c => task[d] # "scheduled"
      /\ UNCHANGED <<version, pane, unmounted>>
  BY DEF StartTask, PaneInv, PaneTypeOK, QueueInOrder, Versions
<1>2. \A i \in 1..Len(lockQueue) : lockQueue[i] \in Versions /\ lockQueue[i] < c
  <2> SUFFICES ASSUME NEW i \in 1..Len(lockQueue)
               PROVE  lockQueue[i] \in Versions /\ lockQueue[i] < c
    OBVIOUS
  <2>1. lockQueue[i] \in Versions
    BY DEF PaneInv, PaneTypeOK
  <2>2. task[lockQueue[i]] \in {"queued", "empty"}
    BY DEF PaneInv, QueueInOrder
  <2>3. ~(c < lockQueue[i]) /\ lockQueue[i] # c
    BY <1>1, <2>1, <2>2 DEF PaneInv, QueueInOrder
  <2> QED
    BY <2>1, <2>3 DEF Versions
<1>3. \A d \in Versions \ {c} : task'[d] = task[d]
  BY DEF StartTask, PaneInv, PaneTypeOK
<1>4. CASE c = version /\ ~unmounted
  <2>1. task'[c] = "queued" /\ lockQueue' = Append(lockQueue, c) /\ revision' = c
    BY <1>4 DEF StartTask, PaneInv, PaneTypeOK
  <2>2. PaneTypeOK'
    BY <1>1, <1>4, <2>1 DEF StartTask, PaneInv, PaneTypeOK, Versions
  <2>3. /\ Len(lockQueue') = Len(lockQueue) + 1 /\ lockQueue'[Len(lockQueue')] = c
        /\ \A i \in 1..Len(lockQueue) : lockQueue'[i] = lockQueue[i]
    BY <2>1 DEF PaneInv, PaneTypeOK
  <2>4. Len(lockQueue) \in Nat
    BY DEF PaneInv, PaneTypeOK
  <2>5. \A d \in Versions : task'[d] = "none" <=> d > version'
    BY <1>1, <1>3, <2>1 DEF PaneInv, QueueInOrder
  <2>6. \A d, e \in Versions : d < e /\ task'[d] = "scheduled" => task'[e] \in {"none", "scheduled"}
    BY <1>1, <1>3, <2>1 DEF PaneInv, QueueInOrder, Versions
  <2>7. \A i \in 1..Len(lockQueue') :
          task'[lockQueue'[i]] = "queued" \/ (i = 1 /\ task'[lockQueue'[i]] = "empty")
    <3> SUFFICES ASSUME NEW i \in 1..Len(lockQueue')
                 PROVE  task'[lockQueue'[i]] = "queued" \/ (i = 1 /\ task'[lockQueue'[i]] = "empty")
      OBVIOUS
    <3>1. CASE i = Len(lockQueue')
      BY <2>1, <2>3, <3>1
    <3>2. CASE i # Len(lockQueue')
      <4>1. i \in 1..Len(lockQueue) /\ lockQueue'[i] = lockQueue[i]
        BY <2>3, <2>4, <3>2
      <4>2. lockQueue[i] \in Versions \ {c}
        BY <1>2, <4>1 DEF Versions
      <4>3. task'[lockQueue'[i]] = task[lockQueue[i]]
        BY <1>3, <4>1, <4>2
      <4>4. task[lockQueue[i]] = "queued" \/ (i = 1 /\ task[lockQueue[i]] = "empty")
        BY <4>1 DEF PaneInv, QueueInOrder
      <4> QED
        BY <4>3, <4>4
    <3> QED
      BY <3>1, <3>2
  <2>8. \A d \in Versions : task'[d] \in {"queued", "empty"} =>
          \E i \in 1..Len(lockQueue') : lockQueue'[i] = d
    BY <1>3, <2>3, <2>4 DEF PaneInv, QueueInOrder
  <2>9. \A i, j \in 1..Len(lockQueue') : i < j => lockQueue'[i] < lockQueue'[j]
    BY <1>2, <2>3, <2>4 DEF PaneInv, QueueInOrder
  <2>10. QueueInOrder'
    BY <2>5, <2>6, <2>7, <2>8, <2>9 DEF QueueInOrder
  <2>11. LastIsShown' /\ OneRecordUp'
    BY <1>1, <1>3, <1>4, <2>1 DEF PaneInv, LastIsShown, OneRecordUp, Width
  <2> QED
    BY <2>2, <2>10, <2>11 DEF PaneInv
<1>5. CASE ~(c = version /\ ~unmounted)
  <2>1. task'[c] = "done" /\ UNCHANGED <<lockQueue, revision>>
    BY <1>5 DEF StartTask, PaneInv, PaneTypeOK
  <2>2. PaneTypeOK'
    BY <1>1, <1>5, <2>1 DEF StartTask, PaneInv, PaneTypeOK
  <2>3. QueueInOrder'
    BY <1>1, <1>2, <1>3, <2>1 DEF PaneInv, QueueInOrder, Versions
  <2>4. LastIsShown' /\ OneRecordUp'
    BY <1>1, <1>3, <1>5, <2>1 DEF PaneInv, LastIsShown, OneRecordUp, Width
  <2> QED
    BY <2>2, <2>3, <2>4 DEF PaneInv
<1> QED
  BY <1>4, <1>5

\* A task that ends gives the lock to the next one; it is not the last choice's, or what it
\* leaves up is all of that.
LEMMA EndTaskInv ==
  ASSUME PaneInv, NEW c \in Versions, task[c] \in {"queued", "empty"}, HoldsLock(c), EndTask(c),
         pane' \in Seq(Versions \X (1..PartCount)),
         \A i \in 1..Len(pane') : pane'[i] = <<pane'[1][1], i>>,
         UNCHANGED <<version, revision, unmounted>>,
         c # version \/ unmounted
           \/ (pane' # <<>> /\ pane'[1][1] = c /\ Len(pane') = Width(c))
  PROVE  PaneInv'
<1>1. /\ lockQueue # <<>> /\ lockQueue[1] = c /\ lockQueue' = Tail(lockQueue)
      /\ lockQueue \in Seq(Versions) /\ task'[c] = "done"
      /\ \A d \in Versions \ {c} : task'[d] = task[d]
  BY DEF HoldsLock, EndTask, PaneInv, PaneTypeOK
<1>2. /\ Len(lockQueue) \in Nat \ {0} /\ Len(lockQueue') = Len(lockQueue) - 1
      /\ \A i \in 1..Len(lockQueue') : lockQueue'[i] = lockQueue[i + 1]
      /\ lockQueue' \in Seq(Versions)
      /\ \A i \in 1..Len(lockQueue) : lockQueue[i] \in Versions
  BY <1>1
<1>3. PaneTypeOK'
  BY <1>2 DEF EndTask, PaneInv, PaneTypeOK
<1>4. \A i \in 2..Len(lockQueue) :
        lockQueue[i] > c /\ lockQueue[i] \in Versions /\ task[lockQueue[i]] = "queued"
  BY <1>1, <1>2 DEF PaneInv, QueueInOrder
<1>5. QueueInOrder'
  <2>1. \A d \in Versions : task'[d] = "none" <=> d > version'
    BY <1>1 DEF PaneInv, QueueInOrder
  <2>2. \A d, e \in Versions : d < e /\ task'[d] = "scheduled" => task'[e] \in {"none", "scheduled"}
    BY <1>1, SMTT(30) DEF PaneInv, QueueInOrder
  <2>3. \A i \in 1..Len(lockQueue') : task'[lockQueue'[i]] = "queued"
    <3> SUFFICES ASSUME NEW i \in 1..Len(lockQueue') PROVE task'[lockQueue'[i]] = "queued"
      OBVIOUS
    <3>1. i + 1 \in 2..Len(lockQueue) /\ lockQueue'[i] = lockQueue[i + 1]
      BY <1>2
    <3>2. lockQueue[i + 1] \in Versions \ {c} /\ task[lockQueue[i + 1]] = "queued"
      BY <1>4, <3>1 DEF Versions
    <3> QED
      BY <1>1, <3>1, <3>2
  <2>4. \A d \in Versions : task'[d] \in {"queued", "empty"} =>
          \E i \in 1..Len(lockQueue') : lockQueue'[i] = d
    <3> SUFFICES ASSUME NEW d \in Versions, task'[d] \in {"queued", "empty"}
                 PROVE  \E i \in 1..Len(lockQueue') : lockQueue'[i] = d
      OBVIOUS
    <3>1. d # c /\ task[d] \in {"queued", "empty"}
      BY <1>1
    <3>2. PICK i \in 1..Len(lockQueue) : lockQueue[i] = d
      BY <3>1 DEF PaneInv, QueueInOrder
    <3>3. i # 1 /\ i - 1 \in 1..Len(lockQueue') /\ lockQueue'[i - 1] = d
      BY <1>1, <1>2, <3>1, <3>2
    <3> QED
      BY <3>3
  <2>5. \A i, j \in 1..Len(lockQueue') : i < j => lockQueue'[i] < lockQueue'[j]
    <3> SUFFICES ASSUME NEW i \in 1..Len(lockQueue'), NEW j \in 1..Len(lockQueue'), i < j
                 PROVE  lockQueue'[i] < lockQueue'[j]
      OBVIOUS
    <3>1. i + 1 \in 1..Len(lockQueue) /\ j + 1 \in 1..Len(lockQueue) /\ i + 1 < j + 1
      BY <1>2
    <3>2. lockQueue[i + 1] < lockQueue[j + 1]
      BY <3>1 DEF PaneInv, QueueInOrder
    <3> QED
      BY <1>2, <3>2
  <2> QED
    BY <2>1, <2>2, <2>3, <2>4, <2>5 DEF QueueInOrder
<1>6. LastIsShown'
  <2> SUFFICES ASSUME ~unmounted, version > 0
               PROVE  \/ task'[version] = "scheduled"
                      \/ task'[version] \in {"queued", "empty"} /\ revision = version
                      \/ /\ task'[version] = "done" /\ lockQueue' = <<>>
                         /\ pane' # <<>> /\ pane'[1][1] = version /\ Len(pane') = Width(version)
    BY DEF LastIsShown, Width
  <2>1. version \in Versions
    BY DEF PaneInv, PaneTypeOK, Versions
  <2>2. CASE c = version
    <3>1. \A i \in 2..Len(lockQueue) : FALSE
      BY <1>4, <2>2 DEF PaneInv, QueueInOrder
    <3>2. lockQueue' = <<>>
      BY <1>1, <1>2, <3>1
    <3> QED
      BY <1>1, <2>2, <3>2
  <2>3. CASE c # version
    <3>1. lockQueue # <<>> /\ task'[version] = task[version]
      BY <1>1, <2>1, <2>3
    <3> QED
      BY <3>1 DEF PaneInv, LastIsShown
  <2> QED
    BY <2>2, <2>3
<1>7. OneRecordUp'
  <2>1. \A d \in Versions : task'[d] # "empty"
    <3> SUFFICES ASSUME NEW d \in Versions, task[d] = "empty", d # c PROVE FALSE
      BY <1>1
    <3>1. PICK i \in 1..Len(lockQueue) : lockQueue[i] = d
      BY DEF PaneInv, QueueInOrder
    <3> QED
      BY <1>1, <1>2, <1>4, <3>1
  <2> QED
    BY <2>1 DEF OneRecordUp
<1> QED
  BY <1>3, <1>5, <1>6, <1>7 DEF PaneInv

LEMMA TakeDownInv == \A c \in Versions : PaneInv /\ TakeDown(c) => PaneInv'
<1> SUFFICES ASSUME NEW c \in Versions, PaneInv, TakeDown(c) PROVE PaneInv'
  OBVIOUS
<1>1. task[c] = "queued" /\ HoldsLock(c) /\ UNCHANGED <<version, revision, unmounted>>
  BY DEF TakeDown
<1>2. version > 0 /\ version \in Versions /\ c <= version
  BY <1>1 DEF PaneInv, PaneTypeOK, QueueInOrder, Versions
<1>3. CASE Outdated(c)
  <2>1. EndTask(c) /\ pane' = pane
    BY <1>3 DEF TakeDown
  <2>2. c # version \/ unmounted
    BY <1>1, <1>2, <1>3 DEF Outdated, PaneInv, LastIsShown
  <2>3. \A i \in 1..Len(pane') : pane'[i] = <<pane'[1][1], i>>
    BY <2>1 DEF PaneInv, OneRecordUp
  <2>4. pane' \in Seq(Versions \X (1..PartCount))
    BY <2>1 DEF PaneInv, PaneTypeOK
  <2> QED
    BY <1>1, <2>1, <2>2, <2>3, <2>4, EndTaskInv
<1>4. CASE ~Outdated(c)
  <2>1. /\ task'[c] = "empty" /\ \A d \in Versions \ {c} : task'[d] = task[d]
        /\ pane' = <<>> /\ lockQueue' = lockQueue
        /\ task' = [task EXCEPT ![c] = "empty"]
    BY <1>4 DEF TakeDown, PaneInv, PaneTypeOK
  <2>2. PaneTypeOK'
    BY <1>1, <2>1 DEF PaneInv, PaneTypeOK
  <2>3. lockQueue # <<>> /\ lockQueue[1] = c /\ Len(lockQueue) \in Nat
        /\ \A i \in 1..Len(lockQueue) : lockQueue[i] \in Versions
    BY <1>1 DEF HoldsLock, PaneInv, PaneTypeOK
  <2>4. \A i \in 1..Len(lockQueue) : i # 1 => lockQueue[i] # c /\ task[lockQueue[i]] = "queued"
    BY <2>3 DEF PaneInv, QueueInOrder, Versions
  <2>5. QueueInOrder'
    BY <1>1, <2>1, <2>3, <2>4 DEF PaneInv, QueueInOrder
  <2>6. LastIsShown'
    <3> SUFFICES ASSUME ~unmounted
                 PROVE  \/ task'[version] = "scheduled"
                        \/ (task'[version] \in {"queued", "empty"} /\ revision = version)
      BY <1>1 DEF LastIsShown
    <3>1. lockQueue # <<>>
      BY <1>1 DEF HoldsLock
    <3>2. \/ task[version] = "scheduled"
          \/ (task[version] \in {"queued", "empty"} /\ revision = version)
      BY <1>2, <3>1 DEF PaneInv, LastIsShown
    <3>3. CASE version = c
      BY <1>1, <2>1, <3>2, <3>3
    <3>4. CASE version # c
      BY <1>2, <2>1, <3>2, <3>4
    <3> QED
      BY <3>3, <3>4
  <2>7. \A d \in Versions : task'[d] = "empty" => Len(pane') < Width(d)
    BY <2>1, WidthType
  <2> QED
    BY <2>1, <2>2, <2>5, <2>6, <2>7 DEF PaneInv, OneRecordUp, Width
<1> QED
  BY <1>3, <1>4

LEMMA PutUpInv == \A c \in Versions : PaneInv /\ PutUp(c) => PaneInv'
<1> SUFFICES ASSUME NEW c \in Versions, PaneInv, PutUp(c) PROVE PaneInv'
  OBVIOUS
<1>1. task[c] = "empty" /\ HoldsLock(c) /\ UNCHANGED <<version, revision, unmounted>>
  BY DEF PutUp
<1>2. version > 0 /\ version \in Versions /\ c <= version
  BY <1>1 DEF PaneInv, PaneTypeOK, QueueInOrder, Versions
<1>3. CASE pane = <<>> /\ Outdated(c)
  <2>1. EndTask(c) /\ pane' = pane
    BY <1>3 DEF PutUp
  <2>2. c # version \/ unmounted
    BY <1>1, <1>2, <1>3 DEF Outdated, PaneInv, LastIsShown
  <2>3. \A i \in 1..Len(pane') : pane'[i] = <<pane'[1][1], i>>
    BY <2>1 DEF PaneInv, OneRecordUp
  <2>4. pane' \in Seq(Versions \X (1..PartCount))
    BY <2>1 DEF PaneInv, PaneTypeOK
  <2> QED
    BY <1>1, <2>1, <2>2, <2>3, <2>4, EndTaskInv
<1>4. CASE ~(pane = <<>> /\ Outdated(c))
  <2>1. pane' = Append(pane, <<c, Len(pane) + 1>>) /\ pane \in Seq(Versions \X (1..PartCount))
    BY <1>4 DEF PutUp, PaneInv, PaneTypeOK
  <2>2. Len(pane) < Width(c) /\ (pane # <<>> => pane[1][1] = c)
        /\ \A i \in 1..Len(pane) : pane[i] = <<pane[1][1], i>>
    BY <1>1 DEF PaneInv, OneRecordUp
  <2>3. /\ Len(pane) \in Nat /\ Len(pane') = Len(pane) + 1 /\ pane'[Len(pane)+1] = <<c, Len(pane)+1>>
        /\ \A i \in 1..Len(pane) : pane'[i] = pane[i]
    BY <2>1
  <2>4. pane' # <<>> /\ pane'[1][1] = c
    BY <2>2, <2>3
  <2>5. \A i \in 1..Len(pane') : pane'[i] = <<pane'[1][1], i>>
    BY <2>2, <2>3, <2>4
  <2>6. pane' \in Seq(Versions \X (1..PartCount))
    <3>1. Len(pane) + 1 \in 1..PartCount
      BY <2>2, <2>3, WidthType, PaneAssumption
    <3> QED
      BY <2>1, <3>1
  <2>7. CASE Len(pane) + 1 = Width(c)
    <3>1. EndTask(c)
      BY <1>4, <2>7 DEF PutUp
    <3> QED
      BY <1>1, <2>3, <2>4, <2>5, <2>6, <2>7, <3>1, EndTaskInv
  <2>8. CASE Len(pane) + 1 # Width(c)
    <3>1. UNCHANGED <<task, lockQueue>>
      BY <1>4, <2>8 DEF PutUp
    <3>2. Len(pane') < Width(c)
      BY <2>2, <2>3, <2>8, WidthType, PaneAssumption
    <3>3. \A d \in Versions : task[d] = "empty" => d = c
      <4> SUFFICES ASSUME NEW d \in Versions, task[d] = "empty" PROVE d = c
        OBVIOUS
      <4>1. PICK i \in 1..Len(lockQueue) : lockQueue[i] = d
        BY DEF PaneInv, QueueInOrder
      <4> QED
        BY <1>1, <4>1 DEF PaneInv, QueueInOrder, HoldsLock, PaneTypeOK
    <3>4. PaneTypeOK' /\ QueueInOrder'
      BY <1>1, <2>6, <3>1 DEF PaneInv, PaneTypeOK, QueueInOrder
    <3>5. OneRecordUp'
      BY <2>4, <2>5, <3>1, <3>2, <3>3 DEF OneRecordUp, Width
    <3>6. lockQueue # <<>>
      BY <1>1 DEF HoldsLock
    <3>7. LastIsShown'
      BY <1>1, <3>1, <3>6 DEF PaneInv, LastIsShown
    <3> QED
      BY <3>4, <3>5, <3>7 DEF PaneInv
  <2> QED
    BY <2>7, <2>8
<1> QED
  BY <1>3, <1>4

LEMMA PaneStep == PaneInv /\ [PaneNext]_paneVars => PaneInv'
<1> SUFFICES ASSUME PaneInv, [PaneNext]_paneVars PROVE PaneInv'
  OBVIOUS
<1>1. CASE CloseDetail
  BY <1>1 DEF CloseDetail, PaneInv, PaneTypeOK, QueueInOrder, LastIsShown, OneRecordUp, Width
<1>2. CASE UNCHANGED paneVars
  BY <1>2 DEF paneVars, PaneInv, PaneTypeOK, QueueInOrder, LastIsShown, OneRecordUp, Width
<1> QED
  BY <1>1, <1>2, ChooseRecordInv, StartTaskInv, TakeDownInv, PutUpInv DEF PaneNext

LEMMA PaneFollows == PaneInv => PaneShowsLast
<1> SUFFICES ASSUME PaneInv PROVE PaneShowsLast
  OBVIOUS
<1>1. ASSUME ~unmounted, version > 0, AllDone
      PROVE  pane # <<>> /\ pane[1][1] = version /\ Len(pane) = Width(version)
  <2>1. version \in Versions
    BY <1>1 DEF PaneInv, PaneTypeOK, Versions
  <2>2. task[version] \in {"none", "done"}
    BY <1>1, <2>1 DEF AllDone
  <2> QED
    BY <1>1, <2>2 DEF PaneInv, LastIsShown
<1>2. DOMAIN pane = 1..Len(pane)
  BY DEF PaneInv, PaneTypeOK
<1>3. \A i \in DOMAIN pane : pane[i] = <<pane[1][1], i>>
  BY <1>2 DEF PaneInv, OneRecordUp
<1> QED
  BY <1>1, <1>3 DEF PaneShowsLast

-----------------------------------------------------------------------------
(* The viewer's pages: it asks and is answered.                            *)

IsCurrent(request) == request.generation = generation
SaysWhatIsAsked(request) ==
  /\ request.generation <= generation
  /\ request.generation = generation /\ ~viewerClosed =>
       request.query = search /\ request.offset = offset

\* An older request has an older generation, so one of the present generation asks for what
\* the screen asks for.
RequestsTrue ==
  /\ pending # Null => SaysWhatIsAsked(pending)
  /\ scan # Null => SaysWhatIsAsked(scan.request)

Wanted(query, lasting) == lasting \cap (IF query = Null THEN Records ELSE query)

\* No record of `wanted` is missing from `page` between two of it, or above all of the first.
Gapless(wanted, page, from) ==
  \A r \in wanted \ page :
    ~ /\ \E x \in page : x < r
      /\ from = 0 \/ \E x \in page : x > r

\* What a scan that reads has left out of its page: with a search, a record that came before
\* the page or after it was full; without one, what is outside the window.
ReadSoFar(s) ==
  LET wanted == Wanted(s.request.query, Due(s))
      from   == s.request.offset
  IN  IF s.request.query = Null
      THEN /\ Cardinality(s.page \cup s.paths) <= PageSize
           /\ Gapless(wanted, s.page \cup s.paths, from)
      ELSE /\ \A x \in s.page, y \in s.paths : y < x
           /\ s.matched <= from => s.page = {}
           /\ s.matched > from => Cardinality(s.page) <= s.matched - from
           /\ Cardinality(s.page) <= PageSize
           /\ \A r \in wanted \ (s.page \cup s.paths) :
                \/ from > 0 /\ \A x \in s.page \cup s.paths : x < r
                \/ s.matched >= from + PageSize /\ \A x \in s.page : x > r

ScanTrue ==
  scan # Null =>
    /\ \A r \in scan.lasting : recordFile[r] = "whole"
    /\ scan.at # "reading" => scan.page = {} /\ scan.matched = 0
    /\ scan.at = "files" => \A r \in Due(scan) : r \in scan.paths \/ Folder[r] \in scan.dirs
    /\ scan.at = "reading" => ReadSoFar(scan)

PagesInv == PagesTypeOK /\ PageIsCurrent /\ NothingForgotten /\ PageHasNoGaps
              /\ RequestsTrue /\ ScanTrue

\* The newer of two listed records has the lower rank.
LEMMA RankFalls ==
  ASSUME NEW P, IsFiniteSet(P), P \subseteq Nat, NEW x \in P, NEW y \in P, x < y
  PROVE  Rank(P, x) \in Nat /\ Rank(P, y) \in Nat /\ Rank(P, y) < Rank(P, x)
<1> DEFINE above(r) == {z \in P : z > r}
<1>1. IsFiniteSet(above(x)) /\ above(y) \in SUBSET above(x) /\ y \in above(x) /\ y \notin above(y)
  <2>1. above(x) \in SUBSET P /\ y \in above(x) /\ y \notin above(y)
    OBVIOUS
  <2>2. above(y) \in SUBSET above(x)
    <3>1. \A z \in P : z > y => z > x
      OBVIOUS
    <3> QED
      BY <3>1
  <2>3. IsFiniteSet(above(x))
    BY <2>1, FS_Subset, Zenon
  <2> QED
    BY <2>1, <2>2, <2>3
<1>2. IsFiniteSet(above(y)) /\ Cardinality(above(y)) <= Cardinality(above(x))
      /\ Cardinality(above(x)) # Cardinality(above(y))
  BY <1>1, FS_Subset
<1>3. Cardinality(above(x)) \in Nat /\ Cardinality(above(y)) \in Nat
  BY <1>1, <1>2, FS_CardinalityType
<1> QED
  BY <1>2, <1>3 DEF Rank

LEMMA RankType ==
  ASSUME NEW P, IsFiniteSet(P), NEW x
  PROVE  Rank(P, x) \in Nat
<1>1. IsFiniteSet({z \in P : z > x})
  BY FS_Subset
<1> QED
  BY <1>1, FS_CardinalityType DEF Rank

\* A list that is not empty has a newest record.
LEMMA NewestThere ==
  ASSUME NEW P, IsFiniteSet(P), P \subseteq Nat, P # {}
  PROVE  Newest(P) \in P /\ \A x \in P : x <= Newest(P)
<1> DEFINE ranks == {Rank(P, r) : r \in P}
<1>1. ranks \subseteq Nat /\ ranks # {}
  BY RankType
<1>2. PICK k \in ranks : \A m \in ranks : k <= m
  BY <1>1, SmallestOf
<1>3. PICK r \in P : Rank(P, r) = k
  BY <1>2
<1>4. \A x \in P : x <= r
  <2> SUFFICES ASSUME NEW x \in P, ~(x <= r) PROVE FALSE
    OBVIOUS
  <2>1. r < x
    BY DEF Newest
  <2>2. Rank(P, x) < Rank(P, r) /\ Rank(P, x) \in Nat /\ Rank(P, r) \in Nat
    BY <2>1, RankFalls
  <2> QED
    BY <1>2, <1>3, <2>2
<1> QED
  BY <1>4 DEF Newest

\* A window holds a page of records at most, and what it leaves out of the list is above or
\* below all of it.
LEMMA WindowFits ==
  ASSUME NEW P, IsFiniteSet(P), P \subseteq Nat, NEW from \in Nat,
         NEW W, W = {r \in P : from <= Rank(P, r) /\ Rank(P, r) < from + PageSize}
  PROVE  IsFiniteSet(W) /\ Cardinality(W) <= PageSize /\ Gapless(P, W, from)
<1>0. PageSize \in Nat /\ PageSize > 0
  BY PagesAssumption
<1>1. IsFiniteSet(W) /\ Cardinality(W) \in Nat
  <2>1. W \in SUBSET P
    OBVIOUS
  <2> QED
    BY <2>1, FS_Subset, FS_CardinalityType
<1>2. Cardinality(W) <= PageSize
  <2> DEFINE places == from..(from + PageSize - 1)
  <2>1. IsFiniteSet(places) /\ Cardinality(places) = PageSize
    <3>1. PICK last \in Int : last = from + PageSize - 1
      BY <1>0
    <3>2. /\ IsFiniteSet(from..last) /\ from \in Int
          /\ Cardinality(from..last) = IF from > last THEN 0 ELSE last - from + 1
      BY FS_Interval
    <3> QED
      BY <1>0, <3>1, <3>2
  <2> DEFINE f == [r \in W |-> Rank(P, r)]
  <2>2. f \in [W -> places]
    BY <1>0, RankType
  <2>3. ASSUME Cardinality(places) < Cardinality(W) PROVE FALSE
    <3> HIDE DEF f, places
    <3>1. PICK x \in W, y \in W : x # y /\ f[x] = f[y]
      BY <1>1, <2>1, <2>2, <2>3, FS_PigeonHole, Zenon
    <3>2. x \in P /\ y \in P /\ Rank(P, x) = Rank(P, y) /\ x \in Nat /\ y \in Nat
      BY <3>1 DEF f
    <3>3. CASE x < y
      <4>1. Rank(P, y) < Rank(P, x) /\ Rank(P, x) \in Nat
        BY <3>2, <3>3, RankFalls
      <4> QED
        BY <3>2, <4>1
    <3>4. CASE y < x
      <4>1. Rank(P, x) < Rank(P, y) /\ Rank(P, x) \in Nat
        BY <3>2, <3>4, RankFalls
      <4> QED
        BY <3>2, <4>1
    <3> QED
      BY <3>1, <3>2, <3>3, <3>4
  <2> QED
    BY <1>0, <1>1, <2>1, <2>3
<1>3. Gapless(P, W, from)
  <2> SUFFICES ASSUME NEW r \in P \ W, NEW x \in W, x < r, from = 0 \/ \E y \in W : y > r
               PROVE  FALSE
    BY DEF Gapless
  <2>1. Rank(P, r) < from + PageSize /\ Rank(P, r) \in Nat
    <3>0. x \in P /\ r \in P /\ Rank(P, x) < from + PageSize
      OBVIOUS
    <3>1. Rank(P, r) < Rank(P, x) /\ Rank(P, r) \in Nat /\ Rank(P, x) \in Nat
      BY <3>0, RankFalls
    <3> QED
      BY <1>0, <3>0, <3>1
  <2>2. from <= Rank(P, r)
    <3>1. CASE from = 0
      BY <2>1, <3>1
    <3>2. ASSUME NEW y \in W, y > r PROVE from <= Rank(P, r)
      <4>1. Rank(P, y) < Rank(P, r) /\ Rank(P, y) \in Nat
        BY <3>2, RankFalls
      <4> QED
        BY <2>1, <4>1
    <3> QED
      BY <3>1, <3>2
  <2> QED
    BY <2>1, <2>2
<1> QED
  BY <1>1, <1>2, <1>3

-----------------------------------------------------------------------------

\* What a scan of fewer lasting records has left out is no more.
LEMMA LessLasting ==
  ASSUME NEW s, NEW t, ReadSoFar(s), t.lasting \subseteq s.lasting, t.hidden = s.hidden,
         t.request = s.request,
         t.page = s.page, t.paths = s.paths, t.matched = s.matched
  PROVE  ReadSoFar(t)
<1> DEFINE was == Wanted(s.request.query, Due(s))
<1> DEFINE is == Wanted(t.request.query, Due(t))
<1>1. is \subseteq was
  BY DEF Wanted, Due
<1> HIDE DEF was, is
<1>2. CASE s.request.query = Null
  BY <1>1, <1>2 DEF ReadSoFar, Gapless, was, is
<1>3. CASE s.request.query # Null
  BY <1>1, <1>3 DEF ReadSoFar, was, is
<1> QED
  BY <1>2, <1>3

LEMMA NewScan ==
  ASSUME NEW request \in PageRequests
  PROVE  /\ Scanning(request) \in PageScans /\ Scanning(request) # Null /\ request # Null
         /\ Scanning(request).request = request /\ Scanning(request).at = "dirs"
         /\ Scanning(request).page = {} /\ Scanning(request).matched = 0
         /\ \A r \in Scanning(request).lasting : recordFile[r] = "whole"
<1>1. WholeRecords \in SUBSET Records /\ \A r \in WholeRecords : recordFile[r] = "whole"
  BY DEF WholeRecords
<1>2. Scanning(request) \in PageScans
  BY <1>1 DEF Scanning, PageScans
<1> QED
  BY <1>1, <1>2, PagesAssumption DEF Scanning

LEMMA PagesInitInv == PageInit => PagesInv
<1> SUFFICES ASSUME PageInit PROVE PagesInv
  OBVIOUS
<1> DEFINE first == [generation |-> 1, query |-> Null, offset |-> 0]
<1>1. first \in PageRequests /\ scan = Scanning(first)
  BY DEF PageInit, PageRequests
<1>2. /\ scan \in PageScans /\ scan # Null /\ scan.request = first /\ scan.at = "dirs"
      /\ scan.page = {} /\ scan.matched = 0
      /\ \A r \in scan.lasting : recordFile[r] = "whole"
  BY <1>1, NewScan
<1>3. recordFile \in [Records -> {"none", "partial", "whole", "gone"}]
  BY DEF PageInit
<1>4. /\ search = Null /\ offset = 0 /\ total = 0 /\ generation = 1 /\ pending = Null
      /\ debounce = FALSE /\ loading = TRUE /\ viewerClosed = FALSE /\ shown = Null
      /\ asked = 0 /\ broken = 0
  BY DEF PageInit
<1>5. {debounce, loading, viewerClosed} \subseteq BOOLEAN
  BY <1>4, Zenon
<1>6. asked \in 0..MaxAsked /\ broken \in 0..MaxBroken
  BY <1>4, PagesAssumption
<1>7. PagesTypeOK
  BY <1>2, <1>3, <1>4, <1>5, <1>6 DEF PagesTypeOK
<1>8. PageIsCurrent /\ NothingForgotten /\ PageHasNoGaps
  BY <1>2, <1>4 DEF PageIsCurrent, NothingForgotten, PageHasNoGaps
<1>9. RequestsTrue
  BY <1>2, <1>4 DEF RequestsTrue, SaysWhatIsAsked
<1>10. ScanTrue
  BY <1>2 DEF ScanTrue
<1> QED
  BY <1>7, <1>8, <1>9, <1>10 DEF PagesInv

\* A new request is the only one of its generation, and an answer to it is under way.
LEMMA RequestPageInv ==
  ASSUME PagesInv, NEW slowly \in BOOLEAN, NEW idle \in BOOLEAN, RequestPage(slowly, idle),
         ~idle => scan # Null, search' \in Searches \cup {Null}, offset' \in Nat, total' \in Nat,
         asked' \in 0..MaxAsked, UNCHANGED <<recordFile, viewerClosed, broken>>
  PROVE  PagesInv'
<1> DEFINE new == PageRequest
<1>1. /\ new \in PageRequests /\ new.generation = generation' /\ new.query = search'
      /\ new.offset = offset' /\ generation' = generation + 1 /\ generation \in Nat
  BY DEF PagesInv, PagesTypeOK, RequestPage, PageRequest, PageRequests
<1>2. /\ Scanning(new) \in PageScans /\ Scanning(new) # Null /\ new # Null
      /\ Scanning(new).request = new /\ Scanning(new).at = "dirs"
      /\ Scanning(new).page = {} /\ Scanning(new).matched = 0
      /\ \A r \in Scanning(new).lasting : recordFile[r] = "whole"
  BY <1>1, NewScan
<1> HIDE DEF new
<1>3. /\ loading' = TRUE /\ shown' = Null /\ debounce' = slowly
      /\ \/ pending' = Null /\ scan' = Null /\ slowly
         \/ pending' = Null /\ scan' = scan /\ slowly
         \/ pending' = Null /\ scan' = Scanning(new)
         \/ pending' = new /\ scan' = scan /\ scan # Null
  BY DEF RequestPage, new
<1>4. /\ pending \in PageRequests \cup {Null} /\ scan \in PageScans \cup {Null}
      /\ pending # Null => scan # Null
  BY DEF PagesInv, PagesTypeOK
<1>5. {debounce', loading', viewerClosed'} \subseteq BOOLEAN
  <2>1. viewerClosed' \in BOOLEAN
    BY DEF PagesInv, PagesTypeOK
  <2>2. debounce' \in BOOLEAN /\ loading' \in BOOLEAN
    BY <1>3, Zenon
  <2> QED
    BY <2>1, <2>2
<1>6. PagesTypeOK'
  <2>1. pending' \in PageRequests \cup {Null} /\ scan' \in PageScans \cup {Null}
        /\ (pending' # Null => scan' # Null)
    BY <1>1, <1>2, <1>3, <1>4
  <2>2. recordFile' \in [Records -> {"none", "partial", "whole", "gone"}] /\ broken' \in 0..MaxBroken
    BY DEF PagesInv, PagesTypeOK
  <2> QED
    BY <1>1, <1>3, <1>5, <2>1, <2>2 DEF PagesTypeOK, PageRequests
<1>7. PageIsCurrent' /\ PageHasNoGaps'
  BY <1>3 DEF PageIsCurrent, PageHasNoGaps
<1>8. scan # Null => scan.request.generation <= generation /\ scan.request.generation \in Nat
  BY <1>4 DEF PagesInv, RequestsTrue, SaysWhatIsAsked, PageScans, PageRequests
<1>9. RequestsTrue'
  BY <1>1, <1>2, <1>3, <1>8 DEF RequestsTrue, SaysWhatIsAsked
<1>10. NothingForgotten'
  BY <1>1, <1>2, <1>3 DEF NothingForgotten
<1>11. ScanTrue'
  BY <1>2, <1>3 DEF PagesInv, ScanTrue, ReadSoFar, Wanted, Due, Gapless
<1> QED
  BY <1>6, <1>7, <1>9, <1>10, <1>11 DEF PagesInv

\* Back on the loop, the thread goes on with the request that waits, if there is one.
LEMMA NextScanInv ==
  ASSUME PagesInv, NextScan,
         UNCHANGED <<recordFile, search, offset, generation, viewerClosed>>
  PROVE  /\ pending' = Null /\ scan' \in PageScans \cup {Null}
         /\ pending = Null => scan' = Null
         /\ pending # Null => scan' # Null /\ scan'.request = pending
         /\ RequestsTrue' /\ ScanTrue'
<1>1. pending' = Null /\ pending \in PageRequests \cup {Null}
  BY DEF NextScan, PagesInv, PagesTypeOK
<1>2. CASE pending = Null
  BY <1>1, <1>2 DEF NextScan, RequestsTrue, ScanTrue
<1>3. CASE pending # Null
  <2>1. pending \in PageRequests /\ scan' = Scanning(pending)
    BY <1>1, <1>3 DEF NextScan
  <2>2. /\ scan' \in PageScans /\ scan' # Null /\ scan'.request = pending /\ scan'.at = "dirs"
        /\ scan'.page = {} /\ scan'.matched = 0
        /\ \A r \in scan'.lasting : recordFile[r] = "whole"
    BY <2>1, NewScan
  <2>3. SaysWhatIsAsked(pending)
    BY <1>3 DEF PagesInv, RequestsTrue
  <2>4. RequestsTrue'
    BY <1>1, <2>2, <2>3 DEF RequestsTrue, SaysWhatIsAsked
  <2>5. ScanTrue'
    BY <2>2 DEF ScanTrue
  <2> QED
    BY <1>1, <1>3, <2>2, <2>4, <2>5
<1> QED
  BY <1>2, <1>3

\* A step of the thread leaves everything but its own work as it was.
LEMMA ScanKept ==
  ASSUME PagesInv, ScreenKept, scan # Null, scan' \in PageScans, scan'.request = scan.request,
         ScanTrue'
  PROVE  PagesInv'
<1>1. scan' # Null
  BY PagesAssumption
<1>2. PagesTypeOK'
  BY <1>1 DEF ScreenKept, PagesInv, PagesTypeOK
<1>3. PageIsCurrent' /\ PageHasNoGaps'
  BY DEF ScreenKept, PagesInv, PageIsCurrent, PageHasNoGaps
<1>4. NothingForgotten' /\ RequestsTrue'
  BY <1>1 DEF ScreenKept, PagesInv, NothingForgotten, RequestsTrue, SaysWhatIsAsked
<1> QED
  BY <1>2, <1>3, <1>4 DEF PagesInv

-----------------------------------------------------------------------------
(* The files.                                                               *)

\* Records that are written stay out of a scan's way.
LEMMA SaveInv == \A r \in Records : PagesInv /\ (SaveRecord(r) \/ RecordSaved(r)) => PagesInv'
<1> SUFFICES ASSUME NEW r \in Records, PagesInv, SaveRecord(r) \/ RecordSaved(r)
             PROVE  PagesInv'
  OBVIOUS
<1>1. UNCHANGED <<search, offset, total, generation, pending, debounce, loading, viewerClosed,
                  scan, shown, asked, broken>>
  BY DEF SaveRecord, RecordSaved
<1>2. /\ recordFile' \in [Records -> {"none", "partial", "whole", "gone"}]
      /\ \A x \in Records : recordFile[x] = "whole" => recordFile'[x] = "whole"
  BY DEF SaveRecord, RecordSaved, PagesInv, PagesTypeOK
<1>3. PagesTypeOK'
  BY <1>1, <1>2 DEF PagesInv, PagesTypeOK
<1>4. scan # Null => scan.lasting \subseteq Records
  BY DEF PagesInv, PagesTypeOK, PageScans
<1>5. ScanTrue'
  BY <1>1, <1>2, <1>4 DEF PagesInv, ScanTrue, ReadSoFar, Wanted, Due, Gapless
<1> QED
  BY <1>1, <1>3, <1>5
  DEF PagesInv, PageIsCurrent, NothingForgotten, PageHasNoGaps, RequestsTrue, SaysWhatIsAsked

\* A record that is dropped is no longer one that lasts.
LEMMA PruneFileInv == \A r \in Records : PagesInv /\ Prune(r) => PagesInv'
<1> SUFFICES ASSUME NEW r \in Records, PagesInv, Prune(r)
             PROVE  PagesInv'
  OBVIOUS
<1>1. UNCHANGED <<search, offset, total, generation, pending, debounce, loading, viewerClosed,
                  shown, asked, broken>>
  BY DEF Prune
<1>2. /\ recordFile' \in [Records -> {"none", "partial", "whole", "gone"}]
      /\ \A x \in Records \ {r} : recordFile'[x] = recordFile[x]
  BY DEF Prune, PagesInv, PagesTypeOK
<1>3. scan = Null => scan' = Null
  BY DEF Prune, Without
<1>4. ASSUME scan # Null
      PROVE  /\ scan \in PageScans /\ scan' \in PageScans /\ scan' # Null
             /\ scan'.lasting = scan.lasting \ {r} /\ scan'.hidden = scan.hidden
             /\ scan'.request = scan.request
             /\ scan'.page = scan.page /\ scan'.paths = scan.paths /\ scan'.dirs = scan.dirs
             /\ scan'.matched = scan.matched /\ scan'.at = scan.at
  <2>1. scan \in PageScans /\ scan' = [scan EXCEPT !.lasting = @ \ {r}]
    BY <1>4 DEF Prune, Without, PagesInv, PagesTypeOK
  <2>2. scan' \in PageScans
    BY <2>1 DEF PageScans
  <2> QED
    BY <2>1, <2>2, PagesAssumption DEF PageScans
<1>5. PagesTypeOK'
  <2>1. scan' \in PageScans \cup {Null} /\ (scan = Null <=> scan' = Null)
    BY <1>3, <1>4
  <2> QED
    BY <1>1, <1>2, <2>1 DEF PagesInv, PagesTypeOK
<1>6. ScanTrue'
  <2> SUFFICES ASSUME scan # Null PROVE ScanTrue'
    BY <1>3 DEF ScanTrue
  <2>1. scan.lasting \subseteq Records
    BY <1>4 DEF PageScans
  <2>2. ASSUME scan.at = "reading" PROVE ReadSoFar(scan)'
    <3>1. ReadSoFar(scan)
      BY <2>2 DEF PagesInv, ScanTrue
    <3>2. PICK t : t = scan'
      OBVIOUS
    <3>3. ReadSoFar(t)
      <4>1. t.lasting \subseteq scan.lasting
        BY <1>4, <3>2
      <4> QED
        BY <1>4, <3>1, <3>2, <4>1, LessLasting
    <3> QED
      BY <3>2, <3>3 DEF ReadSoFar, Wanted, Due, Gapless
  <2> QED
    BY <1>2, <1>4, <2>1, <2>2 DEF PagesInv, ScanTrue, Due
<1>7. RequestsTrue' /\ NothingForgotten'
  <2>1. scan # Null => scan' # Null /\ scan'.request = scan.request
    BY <1>4
  <2> QED
    BY <1>1, <1>3, <2>1 DEF PagesInv, NothingForgotten, RequestsTrue, SaysWhatIsAsked
<1> QED
  BY <1>1, <1>5, <1>6, <1>7 DEF PagesInv, PageIsCurrent, PageHasNoGaps

-----------------------------------------------------------------------------
(* The user and the loop.                                                   *)

LEMMA UserInv ==
  PagesInv /\ ((\E q \in Searches \cup {Null} : ChangeSearch(q)) \/ RefreshPages \/ TurnPage)
    => PagesInv'
<1> SUFFICES ASSUME PagesInv,
                    (\E q \in Searches \cup {Null} : ChangeSearch(q)) \/ RefreshPages \/ TurnPage
             PROVE  PagesInv'
  OBVIOUS
<1>1. PICK idle \in BOOLEAN : idle <=> scan = Null
  OBVIOUS
<1>2. UserAsks /\ UNCHANGED <<recordFile, total, viewerClosed, broken>>
  BY DEF ChangeSearch, RefreshPages, TurnPage
<1>3. asked' \in 0..MaxAsked
  <2>1. asked < MaxAsked /\ asked' = asked + 1
    BY <1>2 DEF UserAsks
  <2>2. MaxAsked \in Nat /\ asked \in 0..MaxAsked
    BY PagesAssumption DEF PagesInv, PagesTypeOK
  <2> QED
    BY <2>1, <2>2
<1>4. /\ search \in Searches \cup {Null} /\ offset \in Nat /\ total \in Nat
      /\ PageSize \in Nat
  BY PagesAssumption DEF PagesInv, PagesTypeOK
<1>5. PICK slowly \in BOOLEAN : RequestPage(slowly, scan = Null)
  BY Zenon DEF ChangeSearch, RefreshPages, TurnPage
<1>6. RequestPage(slowly, idle)
  BY <1>1, <1>5 DEF RequestPage
<1>7. search' \in Searches \cup {Null}
  BY <1>4 DEF ChangeSearch, RefreshPages, TurnPage
<1>8. offset' \in Nat
  <2>1. \/ offset' = 0
        \/ offset' = IF offset < PageSize THEN 0 ELSE offset - PageSize
        \/ offset' = offset + PageSize
    BY DEF ChangeSearch, RefreshPages, TurnPage
  <2> QED
    BY <1>4, <2>1
<1> QED
  BY <1>1, <1>2, <1>3, <1>4, <1>6, <1>7, <1>8, RequestPageInv

LEMMA DebouncedInv == PagesInv /\ Debounced => PagesInv'
<1> SUFFICES ASSUME PagesInv, Debounced PROVE PagesInv'
  OBVIOUS
<1> DEFINE new == PageRequest
<1>1. /\ debounce' = FALSE /\ ~viewerClosed
      /\ UNCHANGED <<search, offset, generation, recordFile, total, loading, viewerClosed, shown,
                     asked, broken>>
  BY DEF Debounced
<1>2. /\ new \in PageRequests /\ new.generation = generation /\ new.query = search
      /\ new.offset = offset /\ generation \in Nat
  BY <1>1 DEF PagesInv, PagesTypeOK, PageRequest, PageRequests
<1>3. /\ Scanning(new) \in PageScans /\ Scanning(new) # Null /\ new # Null
      /\ Scanning(new).request = new /\ Scanning(new).at = "dirs"
      /\ Scanning(new).page = {} /\ Scanning(new).matched = 0
      /\ \A r \in Scanning(new).lasting : recordFile[r] = "whole"
  BY <1>2, NewScan
<1> HIDE DEF new
<1>4. \/ pending' = Null /\ scan' = Scanning(new)
      \/ pending' = new /\ scan' = scan /\ scan # Null
  BY DEF Debounced, new
<1>5. scan \in PageScans \cup {Null}
  BY DEF PagesInv, PagesTypeOK
<1>6. debounce' \in BOOLEAN
  BY <1>1, Zenon
<1>7. PagesTypeOK'
  <2>1. pending' \in PageRequests \cup {Null} /\ scan' \in PageScans \cup {Null}
        /\ (pending' # Null => scan' # Null)
    BY <1>2, <1>3, <1>4, <1>5
  <2> QED
    BY <1>1, <1>6, <2>1 DEF PagesInv, PagesTypeOK
<1>8. RequestsTrue'
  BY <1>1, <1>2, <1>3, <1>4 DEF PagesInv, RequestsTrue, SaysWhatIsAsked
<1>9. NothingForgotten'
  BY <1>1, <1>2, <1>3, <1>4 DEF NothingForgotten
<1>10. ScanTrue'
  BY <1>1, <1>3, <1>4 DEF PagesInv, ScanTrue, ReadSoFar, Wanted, Due, Gapless
<1> QED
  BY <1>1, <1>7, <1>8, <1>9, <1>10 DEF PagesInv, PageIsCurrent, PageHasNoGaps

LEMMA CloseViewerInv == PagesInv /\ CloseViewer => PagesInv'
<1> SUFFICES ASSUME PagesInv, CloseViewer PROVE PagesInv'
  OBVIOUS
<1>1. /\ viewerClosed' = TRUE /\ generation' = generation + 1
      /\ pending' = Null /\ debounce' = FALSE
      /\ UNCHANGED <<recordFile, search, offset, total, loading, scan, shown, asked, broken>>
  BY DEF CloseViewer
<1>2. debounce' \in BOOLEAN /\ viewerClosed' \in BOOLEAN
  BY <1>1, Zenon
<1>3. PagesTypeOK'
  BY <1>1, <1>2 DEF PagesInv, PagesTypeOK
<1>4. ScanTrue'
  BY <1>1 DEF PagesInv, ScanTrue, ReadSoFar, Wanted, Due, Gapless
<1>5. RequestsTrue'
  <2>1. generation \in Nat /\ (scan # Null => scan.request.generation \in Nat)
    BY DEF PagesInv, PagesTypeOK, PageScans, PageRequests
  <2> QED
    BY <1>1, <2>1 DEF PagesInv, RequestsTrue, SaysWhatIsAsked
<1> QED
  BY <1>1, <1>3, <1>4, <1>5 DEF PagesInv, PageIsCurrent, NothingForgotten, PageHasNoGaps

-----------------------------------------------------------------------------
(* The thread.                                                              *)

LEMMA RecordDirsType == RecordDirs \in SUBSET {Folder[r] : r \in Records}
BY DEF RecordDirs, Used

LEMMA ListDirsInv == PagesInv /\ ListDirs => PagesInv'
<1> SUFFICES ASSUME PagesInv, ListDirs PROVE PagesInv'
  OBVIOUS
<1>1. scan \in PageScans /\ scan # Null /\ scan.at = "dirs" /\ ScreenKept
  BY DEF ListDirs, Reading, PagesInv, PagesTypeOK
<1>2. PICK dirs : dirs = RecordDirs /\ dirs \in SUBSET {Folder[r] : r \in Records}
  BY RecordDirsType
<1>3. /\ scan' \in PageScans /\ scan'.at = "files" /\ scan'.request = scan.request
      /\ scan'.dirs = dirs /\ scan'.page = scan.page /\ scan'.matched = scan.matched
      /\ scan'.lasting = scan.lasting /\ scan'.hidden = {r \in Records : Nested(Folder[r])}
  BY <1>1, <1>2 DEF ListDirs, PageScans
<1>4. \A r \in Due(scan)' : Folder[r] \in dirs
  <2>1. \A r \in scan.lasting : r \in Records /\ OnDisk(r)
    BY <1>1 DEF PagesInv, ScanTrue, PageScans, OnDisk
  <2> QED
    BY <1>2, <1>3, <2>1 DEF RecordDirs, Used, Due
<1>5. ScanTrue'
  BY <1>1, <1>3, <1>4 DEF PagesInv, ScanTrue, ScreenKept
<1> QED
  BY <1>1, <1>3, <1>5, ScanKept

\* A record that lasts and is not hidden is listed with its directory.
LEMMA ListFilesInv == \A d : PagesInv /\ ListFiles(d) => PagesInv'
<1> SUFFICES ASSUME NEW d, PagesInv, ListFiles(d) PROVE PagesInv'
  OBVIOUS
<1>1. scan \in PageScans /\ scan # Null /\ scan.at = "files" /\ ScreenKept
  BY DEF ListFiles, Reading, PagesInv, PagesTypeOK
<1>2. PICK found : found = {r \in Records : Folder[r] = d /\ OnDisk(r)}
  OBVIOUS
<1>3. /\ scan' \in PageScans /\ scan'.at = "files" /\ scan'.request = scan.request
      /\ scan'.dirs = scan.dirs \ {d} /\ scan'.page = scan.page /\ scan'.matched = scan.matched
      /\ scan'.lasting = scan.lasting /\ scan'.hidden = scan.hidden
      /\ scan'.paths = scan.paths \cup found
  BY <1>1, <1>2 DEF ListFiles, PageScans
<1>4. \A r \in Due(scan) : Folder[r] = d => r \in found
  BY <1>1, <1>2 DEF PagesInv, ScanTrue, OnDisk, PageScans, Due
<1>5. Due(scan)' = Due(scan)
  BY <1>3 DEF Due
<1>6. ScanTrue'
  BY <1>1, <1>3, <1>4, <1>5 DEF PagesInv, ScanTrue, ScreenKept
<1> QED
  BY <1>1, <1>3, <1>6, ScanKept

LEMMA ListSortedInv == PagesInv /\ ListSorted => PagesInv'
<1> SUFFICES ASSUME PagesInv, ListSorted PROVE PagesInv'
  OBVIOUS
<1>1. scan \in PageScans /\ scan # Null /\ scan.at = "files" /\ scan.dirs = {} /\ ScreenKept
  BY DEF ListSorted, Reading, PagesInv, PagesTypeOK
<1>2. /\ scan.paths \in SUBSET Records /\ scan.lasting \in SUBSET Records
      /\ scan.request.offset \in Nat /\ scan.page = {} /\ scan.matched = 0
      /\ Due(scan) \subseteq scan.paths /\ scan.request.query \in Searches \cup {Null}
  BY <1>1 DEF PageScans, PageRequests, PagesInv, ScanTrue, Due
<1>3. /\ IsFiniteSet(scan.paths) /\ Cardinality(scan.paths) \in Nat /\ scan.paths \subseteq Nat
      /\ PageSize \in Nat /\ PageSize > 0
  <2>1. Records \subseteq Nat /\ IsFiniteSet(Records) /\ PageSize \in Nat /\ PageSize > 0
    BY PagesAssumption
  <2>2. IsFiniteSet(scan.paths)
    BY <1>2, <2>1, FS_Subset, Zenon
  <2>3. Cardinality(scan.paths) \in Nat
    BY <2>2, FS_CardinalityType
  <2> QED
    BY <1>2, <2>1, <2>2, <2>3
<1>4. CASE scan.request.query = Null
  <2>1. PICK window : window = {r \in scan.paths : scan.request.offset <= Rank(scan.paths, r)
                                    /\ Rank(scan.paths, r) < scan.request.offset + PageSize}
    OBVIOUS
  <2>2. window = {r \in scan.paths : InWindow(Rank(scan.paths, r))}
    BY <2>1 DEF InWindow
  <2>3. /\ scan' \in PageScans /\ scan'.at = "reading" /\ scan'.request = scan.request
        /\ scan'.page = {} /\ scan'.lasting = scan.lasting /\ scan'.hidden = scan.hidden
      /\ scan'.paths = window
    BY <1>1, <1>2, <1>3, <1>4, <2>2 DEF ListSorted, PageScans
  <2>4. Cardinality(window) <= PageSize /\ Gapless(scan.paths, window, scan.request.offset)
    BY <1>2, <1>3, <2>1, WindowFits
  <2>5. Gapless(Wanted(Null, Due(scan)), window, scan.request.offset)
    BY <1>2, <2>4 DEF Gapless, Wanted
  <2>6. {} \cup window = window
    OBVIOUS
  <2>7. ReadSoFar(scan)'
    <3>1. PICK t : t = scan'
      OBVIOUS
    <3>2. ReadSoFar(t)
      BY <1>4, <2>3, <2>4, <2>5, <2>6, <3>1 DEF ReadSoFar, Due
    <3> QED
      BY <3>1, <3>2 DEF ReadSoFar, Wanted, Due, Gapless
  <2>8. ScanTrue'
    BY <1>1, <2>3, <2>7 DEF PagesInv, ScanTrue, ScreenKept
  <2> QED
    BY <1>1, <2>3, <2>8, ScanKept
<1>5. CASE scan.request.query # Null
  <2>1. /\ scan' \in PageScans /\ scan'.at = "reading" /\ scan'.request = scan.request
        /\ scan'.page = {} /\ scan'.lasting = scan.lasting /\ scan'.hidden = scan.hidden
      /\ scan'.paths = scan.paths
        /\ scan'.matched = 0
    BY <1>1, <1>2, <1>3, <1>5 DEF ListSorted, PageScans
  <2>2. Cardinality({}) = 0
    BY FS_EmptySet
  <2>3. Wanted(scan.request.query, Due(scan)) \subseteq scan.paths
    BY <1>2 DEF Wanted
  <2>4. ReadSoFar(scan)'
    <3>1. PICK t : t = scan'
      OBVIOUS
    <3>2. ReadSoFar(t)
      <4>1. /\ t.request = scan.request /\ t.page = {} /\ t.matched = 0 /\ t.paths = scan.paths
            /\ t.lasting = scan.lasting /\ t.hidden = scan.hidden
        BY <2>1, <3>1
      <4>2. ~(t.matched > t.request.offset) /\ Cardinality(t.page) <= PageSize
        BY <1>2, <1>3, <2>2, <4>1
      <4>3. Wanted(t.request.query, Due(t)) \ (t.page \cup t.paths) = {}
        BY <2>3, <4>1 DEF Due
      <4> QED
        BY <1>5, <4>1, <4>2, <4>3 DEF ReadSoFar
    <3> QED
      BY <3>1, <3>2 DEF ReadSoFar, Wanted, Due, Gapless
  <2>5. ScanTrue'
    BY <1>1, <2>1, <2>4 DEF PagesInv, ScanTrue, ScreenKept
  <2> QED
    BY <1>1, <2>1, <2>5, ScanKept
<1> QED
  BY <1>4, <1>5

\* Reading the newest of what is left keeps the account of what the page leaves out.
LEMMA ReadRecordInv == PagesInv /\ ReadRecord => PagesInv'
<1> SUFFICES ASSUME PagesInv, ReadRecord PROVE PagesInv'
  OBVIOUS
<1>1. scan \in PageScans /\ scan # Null /\ scan.at = "reading" /\ scan.paths # {} /\ ScreenKept
  BY DEF ReadRecord, Reading, PagesInv, PagesTypeOK
<1>2. /\ scan.paths \in SUBSET Records /\ scan.page \in SUBSET Records
      /\ scan.lasting \in SUBSET Records /\ scan.matched \in Nat
      /\ scan.request.offset \in Nat /\ scan.request.query \in Searches \cup {Null}
  BY <1>1 DEF PageScans, PageRequests
<1>3. /\ IsFiniteSet(scan.paths) /\ scan.paths \subseteq Nat /\ scan.page \subseteq Nat
      /\ IsFiniteSet(scan.page) /\ Cardinality(scan.page) \in Nat /\ scan.lasting \subseteq Nat
      /\ PageSize \in Nat /\ PageSize > 0
  <2>1. Records \subseteq Nat /\ IsFiniteSet(Records) /\ PageSize \in Nat /\ PageSize > 0
    BY PagesAssumption
  <2>2. IsFiniteSet(scan.paths) /\ IsFiniteSet(scan.page)
    BY <1>2, <2>1, FS_Subset, Zenon
  <2>3. Cardinality(scan.page) \in Nat
    BY <2>2, FS_CardinalityType
  <2> QED
    BY <1>2, <2>1, <2>2, <2>3
<1>4. PICK n : n = Newest(scan.paths)
  OBVIOUS
<1>5. n \in scan.paths /\ \A x \in scan.paths : x <= n
  BY <1>1, <1>3, <1>4, NewestThere
<1>6. PICK match \in BOOLEAN :
        match <=> (scan.request.query # Null /\ recordFile[n] = "whole" /\ n \in scan.request.query)
  OBVIOUS
<1>7. PICK belongs \in BOOLEAN :
        belongs <=> \/ (match /\ InWindow(scan.matched))
                  \/ (scan.request.query = Null /\ recordFile[n] = "whole")
  OBVIOUS
<1>8. /\ scan' \in PageScans /\ scan'.at = "reading" /\ scan'.request = scan.request
      /\ scan'.lasting = scan.lasting /\ scan'.hidden = scan.hidden
      /\ scan'.paths = scan.paths \ {n}
      /\ scan'.matched = IF match THEN scan.matched + 1 ELSE scan.matched
      /\ scan'.page = IF belongs THEN scan.page \cup {n} ELSE scan.page
  <2>1. PICK page : page = IF belongs THEN scan.page \cup {n} ELSE scan.page
    OBVIOUS
  <2>2. PICK count : count = IF match THEN scan.matched + 1 ELSE scan.matched
    OBVIOUS
  <2>3. page \in SUBSET Records /\ count \in Nat /\ scan.paths \ {n} \in SUBSET Records
    BY <1>2, <1>5, <2>1, <2>2
  <2>4. scan' = [scan EXCEPT !.paths = scan.paths \ {n}, !.matched = count, !.page = page]
    BY <1>4, <1>6, <1>7, <2>1, <2>2 DEF ReadRecord
  <2>5. /\ scan' \in PageScans /\ scan'.at = scan.at /\ scan'.request = scan.request
        /\ scan'.lasting = scan.lasting /\ scan'.hidden = scan.hidden
        /\ scan'.paths = scan.paths \ {n}
        /\ scan'.matched = count /\ scan'.page = page
    BY <1>1, <2>3, <2>4 DEF PageScans
  <2> QED
    BY <1>1, <2>1, <2>2, <2>5
<1>9. PICK t : t = scan'
  OBVIOUS
<1>10. ReadSoFar(scan) /\ \A r \in scan.lasting : recordFile[r] = "whole"
  BY <1>1 DEF PagesInv, ScanTrue
<1>11. PICK wanted : wanted = Wanted(scan.request.query, Due(scan))
  OBVIOUS
<1>12. ReadSoFar(t)
  <2>1. CASE scan.request.query = Null
    <3> DEFINE was == scan.page \cup scan.paths
    <3> DEFINE is == t.page \cup t.paths
    <3>1. is \subseteq was /\ is \in SUBSET Records /\ was \in SUBSET Records
      BY <1>2, <1>5, <1>8, <1>9
    <3>2. was \ is \subseteq {n} /\ (n \in was \ is => n \notin wanted)
      BY <1>6, <1>7, <1>8, <1>9, <1>10, <1>11, <2>1 DEF Wanted, Due
    <3>3. Cardinality(was) <= PageSize /\ Gapless(wanted, was, scan.request.offset)
      BY <1>10, <1>11, <2>1 DEF ReadSoFar
    <3> HIDE DEF was, is
    <3>4. Cardinality(is) <= PageSize
      <4>1. IsFiniteSet(was) /\ Cardinality(was) \in Nat /\ Cardinality(is) <= Cardinality(was)
            /\ Cardinality(is) \in Nat
        BY <3>1, FS_Subset, FS_CardinalityType, PagesAssumption
      <4> QED
        BY <1>3, <3>3, <4>1
    <3>5. Gapless(wanted, is, scan.request.offset)
      BY <3>1, <3>2, <3>3 DEF Gapless
    <3> QED
      BY <1>8, <1>9, <1>11, <2>1, <3>4, <3>5 DEF ReadSoFar, is, Due
  <2>2. CASE scan.request.query # Null
    <3> DEFINE from == scan.request.offset
    <3>1. /\ \A x \in scan.page, y \in scan.paths : y < x
          /\ scan.matched <= from => scan.page = {}
          /\ scan.matched > from => Cardinality(scan.page) <= scan.matched - from
          /\ Cardinality(scan.page) <= PageSize
      BY <1>10, <2>2 DEF ReadSoFar
    <3>2. \A r \in wanted \ (scan.page \cup scan.paths) :
                \/ (from > 0 /\ \A x \in scan.page \cup scan.paths : x < r)
                \/ (scan.matched >= from + PageSize /\ \A x \in scan.page : x > r)
      BY <1>10, <1>11, <2>2 DEF ReadSoFar
    <3>3. n \notin scan.page /\ n \in Nat
      BY <1>3, <1>5, <3>1
    <3>4. belongs <=> match /\ from <= scan.matched /\ scan.matched < from + PageSize
      BY <1>7, <2>2 DEF InWindow
    <3>5. Cardinality(scan.page \cup {n}) = Cardinality(scan.page) + 1
      BY <1>3, <3>3, FS_AddElement
    <3>6. \A x \in t.page, y \in t.paths : y < x
      <4>1. \A y \in t.paths : y < n
        BY <1>3, <1>5, <1>8, <1>9, <3>3
      <4> QED
        BY <1>8, <1>9, <3>1, <4>1
    <3>7. /\ t.matched <= from => t.page = {}
          /\ t.matched > from => Cardinality(t.page) <= t.matched - from
          /\ Cardinality(t.page) <= PageSize
      <4>1. CASE belongs
        <5>1. t.matched = scan.matched + 1 /\ Cardinality(t.page) = Cardinality(scan.page) + 1
          BY <1>8, <1>9, <3>4, <3>5, <4>1
        <5>2. CASE scan.matched = from
          <6>1. Cardinality(scan.page) = 0
            BY <1>2, <3>1, <5>2, FS_EmptySet
          <6> QED
            BY <1>2, <1>3, <5>1, <5>2, <6>1
        <5>3. CASE scan.matched > from
          BY <1>2, <1>3, <3>1, <3>4, <4>1, <5>1, <5>3
        <5> QED
          BY <1>2, <3>4, <4>1, <5>2, <5>3
      <4>2. CASE ~belongs
        <5>1. t.page = scan.page /\ t.matched \in {scan.matched, scan.matched + 1}
          BY <1>8, <1>9, <4>2
        <5>2. CASE scan.matched <= from
          <6>1. Cardinality(scan.page) = 0 /\ scan.page = {}
            BY <3>1, <5>2, FS_EmptySet
          <6> QED
            BY <1>2, <1>3, <5>1, <6>1
        <5>3. CASE scan.matched > from
          BY <1>2, <1>3, <3>1, <5>1, <5>3
        <5> QED
          BY <1>2, <5>2, <5>3
      <4> QED
        BY <4>1, <4>2
    <3>8. ASSUME NEW r \in wanted \ (t.page \cup t.paths)
          PROVE  \/ (from > 0 /\ \A x \in t.page \cup t.paths : x < r)
                 \/ (t.matched >= from + PageSize /\ \A x \in t.page : x > r)
      <4>1. t.page \cup t.paths \subseteq scan.page \cup scan.paths
        BY <1>5, <1>8, <1>9
      <4>2. CASE r \notin scan.page \cup scan.paths
        <5>1. CASE from > 0 /\ \A x \in scan.page \cup scan.paths : x < r
          BY <4>1, <5>1
        <5>2. CASE scan.matched >= from + PageSize /\ \A x \in scan.page : x > r
          <6>1. ~belongs
            BY <1>2, <1>3, <3>4, <5>2
          <6>2. t.page = scan.page /\ t.matched >= from + PageSize
            BY <1>2, <1>3, <1>8, <1>9, <5>2, <6>1
          <6> QED
            BY <5>2, <6>2
        <5> QED
          BY <3>2, <4>2, <5>1, <5>2
      <4>3. CASE r \in scan.page \cup scan.paths
        <5>1. r = n /\ ~belongs
          BY <1>8, <1>9, <4>3
        <5>2. n \in scan.lasting /\ n \in scan.request.query
          BY <1>11, <2>2, <5>1 DEF Wanted, Due
        <5>3. match
          BY <1>6, <1>10, <2>2, <5>2
        <5>4. t.matched = scan.matched + 1 /\ t.page = scan.page
          BY <1>8, <1>9, <5>1, <5>3
        <5>5. CASE scan.matched < from
          <6>1. scan.page = {} /\ from > 0
            BY <1>2, <3>1, <5>5
          <6>2. \A x \in t.paths : x < n
            BY <1>3, <1>5, <1>8, <1>9, <3>3
          <6> QED
            BY <5>1, <5>4, <6>1, <6>2
        <5>6. CASE scan.matched >= from + PageSize
          <6>1. \A x \in scan.page : x > n
            BY <1>3, <1>5, <3>1
          <6> QED
            BY <1>2, <1>3, <5>1, <5>4, <5>6, <6>1
        <5> QED
          BY <1>2, <1>3, <3>4, <5>1, <5>3, <5>5, <5>6
      <4> QED
        BY <4>2, <4>3
    <3> QED
      BY <1>8, <1>9, <1>11, <2>2, <3>6, <3>7, <3>8 DEF ReadSoFar, Due
  <2> QED
    BY <2>1, <2>2
<1>13. ReadSoFar(scan)'
  BY <1>9, <1>12 DEF ReadSoFar, Wanted, Due, Gapless
<1>14. ScanTrue'
  BY <1>1, <1>8, <1>10, <1>13 DEF ScanTrue, ScreenKept
<1> QED
  BY <1>1, <1>8, <1>14, ScanKept

-----------------------------------------------------------------------------
(* The answer.                                                              *)

LEMMA OutdatedInv == PagesInv /\ PageOutdated => PagesInv'
<1> SUFFICES ASSUME PagesInv, PageOutdated PROVE PagesInv'
  OBVIOUS
<1>1. /\ scan # Null /\ NextScan /\ (viewerClosed \/ scan.request.generation # generation)
      /\ UNCHANGED <<recordFile, search, offset, total, generation, debounce, loading,
                     viewerClosed, shown, asked, broken>>
  BY DEF PageOutdated
<1>2. /\ pending' = Null /\ scan' \in PageScans \cup {Null}
      /\ pending # Null => scan' # Null /\ scan'.request = pending
      /\ RequestsTrue' /\ ScanTrue'
  BY <1>1, NextScanInv
<1>3. PagesTypeOK'
  BY <1>1, <1>2 DEF PagesInv, PagesTypeOK
<1>4. NothingForgotten'
  BY <1>1, <1>2 DEF PagesInv, NothingForgotten
<1> QED
  BY <1>1, <1>2, <1>3, <1>4 DEF PagesInv, PageIsCurrent, PageHasNoGaps

LEMMA ScanFailsInv == PagesInv /\ ScanFails => PagesInv'
<1> SUFFICES ASSUME PagesInv, ScanFails PROVE PagesInv'
  OBVIOUS
<1>1. /\ scan # Null /\ NextScan /\ broken < MaxBroken /\ broken' = broken + 1
      /\ loading' = (loading /\ scan.request.generation # generation)
      /\ UNCHANGED <<recordFile, search, offset, total, generation, debounce, viewerClosed, shown,
                     asked>>
  BY DEF ScanFails
<1>2. /\ pending' = Null /\ scan' \in PageScans \cup {Null}
      /\ pending # Null => scan' # Null /\ scan'.request = pending
      /\ RequestsTrue' /\ ScanTrue'
  BY <1>1, NextScanInv
<1>3. loading' \in BOOLEAN /\ (loading' => loading /\ scan.request.generation # generation)
  BY <1>1, Zenon
<1>4. broken' \in 0..MaxBroken
  <2>1. MaxBroken \in Nat /\ broken \in 0..MaxBroken
    BY PagesAssumption DEF PagesInv, PagesTypeOK
  <2> QED
    BY <1>1, <2>1
<1>5. PagesTypeOK'
  BY <1>1, <1>2, <1>3, <1>4 DEF PagesInv, PagesTypeOK
<1>6. NothingForgotten'
  BY <1>1, <1>2, <1>3 DEF PagesInv, NothingForgotten
<1>7. PageIsCurrent'
  BY <1>1, <1>3 DEF PagesInv, PageIsCurrent
<1> QED
  BY <1>1, <1>2, <1>5, <1>6, <1>7 DEF PagesInv, PageHasNoGaps

LEMMA BeyondEndInv == PagesInv /\ PageBeyondEnd => PagesInv'
<1> SUFFICES ASSUME PagesInv, PageBeyondEnd PROVE PagesInv'
  OBVIOUS
<1>1. scan # Null /\ scan \in PageScans
  BY DEF PageBeyondEnd, PageRead, Reading, PagesInv, PagesTypeOK
<1>2. scan.matched \in Nat /\ PageSize \in Nat /\ PageSize > 0
  BY <1>1, PagesAssumption DEF PageScans
<1>3. offset' = IF scan.matched = 0 THEN 0 ELSE ((scan.matched - 1) \div PageSize) * PageSize
  BY DEF PageBeyondEnd
<1>4. offset' \in Nat
  BY <1>2, <1>3
<1>5. /\ search' \in Searches \cup {Null} /\ total' \in Nat /\ asked' \in 0..MaxAsked
      /\ RequestPage(FALSE, TRUE) /\ UNCHANGED <<recordFile, viewerClosed, broken>>
  BY DEF PageBeyondEnd, PagesInv, PagesTypeOK
<1> QED
  BY <1>4, <1>5, RequestPageInv

\* What is shown is what the scan found, and the request it was made for is the current one.
LEMMA RenderInv == PagesInv /\ RenderPage => PagesInv'
<1> SUFFICES ASSUME PagesInv, RenderPage PROVE PagesInv'
  OBVIOUS
<1>1. /\ scan # Null /\ scan \in PageScans /\ scan.at = "reading" /\ scan.paths = {} /\ ~viewerClosed
      /\ scan.request.generation = generation
  BY DEF RenderPage, PageRead, Reading, PagesInv, PagesTypeOK
<1>2. /\ total' = scan.matched /\ loading' = FALSE /\ NextScan
      /\ shown' = [request |-> scan.request, page |-> scan.page, lasting |-> scan.lasting,
                    hidden |-> scan.hidden]
      /\ UNCHANGED <<recordFile, search, offset, generation, debounce, viewerClosed, asked, broken>>
  BY DEF RenderPage
<1>3. /\ pending' = Null /\ scan' \in PageScans \cup {Null} /\ RequestsTrue' /\ ScanTrue'
  BY <1>2, NextScanInv
<1>4. /\ shown' \in Pages /\ shown'.request = scan.request /\ shown'.page = scan.page
      /\ shown'.lasting = scan.lasting /\ shown'.hidden = scan.hidden /\ total' \in Nat
  BY <1>1, <1>2 DEF Pages, PageScans
<1>5. loading' \in BOOLEAN
  BY <1>2, Zenon
<1>6. PagesTypeOK'
  BY <1>2, <1>3, <1>4, <1>5 DEF PagesInv, PagesTypeOK
<1>7. PageIsCurrent' /\ NothingForgotten'
  <2>1. scan.request.query = search /\ scan.request.offset = offset
    BY <1>1 DEF PagesInv, RequestsTrue, SaysWhatIsAsked
  <2> QED
    BY <1>2, <1>4, <2>1 DEF PageIsCurrent, NothingForgotten
<1>8. PageHasNoGaps'
  <2>1. ReadSoFar(scan) /\ scan.page \cup scan.paths = scan.page
    BY <1>1 DEF PagesInv, ScanTrue
  <2>2. PICK wanted : wanted = Wanted(scan.request.query, Due(scan))
    OBVIOUS
  <2>3. /\ wanted \subseteq Nat /\ scan.page \subseteq Nat /\ scan.request.offset \in Nat
    BY <1>1, <2>2, PagesAssumption DEF Wanted, PageScans, PageRequests
  <2>4. Cardinality(scan.page) <= PageSize /\ Gapless(wanted, scan.page, scan.request.offset)
    <3>1. CASE scan.request.query = Null
      BY <2>1, <2>2, <3>1 DEF ReadSoFar
    <3>2. CASE scan.request.query # Null
      <4>1. /\ Cardinality(scan.page) <= PageSize
            /\ \A r \in wanted \ scan.page :
                  \/ (scan.request.offset > 0 /\ \A x \in scan.page : x < r)
                  \/ \A x \in scan.page : x > r
        BY <2>1, <2>2, <3>2 DEF ReadSoFar
      <4>2. ASSUME NEW r \in wanted \ scan.page, NEW x \in scan.page, x < r
            PROVE  scan.request.offset # 0 /\ \A z \in scan.page : ~(z > r)
        BY <2>3, <4>1, <4>2
      <4> QED
        BY <4>1, <4>2 DEF Gapless
    <3> QED
      BY <3>1, <3>2
  <2>5. wanted = Due(shown)' \cap
                   (IF shown'.request.query = Null THEN Records ELSE shown'.request.query)
    BY <1>4, <2>2 DEF Wanted, Due
  <2> QED
    BY <1>4, <2>4, <2>5 DEF PageHasNoGaps, Gapless
<1> QED
  BY <1>3, <1>6, <1>7, <1>8 DEF PagesInv

LEMMA PagesStep == PagesInv /\ [PageNext]_pageVars => PagesInv'
<1> SUFFICES ASSUME PagesInv, [PageNext]_pageVars PROVE PagesInv'
  OBVIOUS
<1>1. CASE UNCHANGED pageVars
  BY <1>1
  DEF pageVars, PagesInv, PagesTypeOK, PageIsCurrent, NothingForgotten, PageHasNoGaps,
      RequestsTrue, SaysWhatIsAsked, ScanTrue, ReadSoFar, Wanted, Due, Gapless
<1>2. CASE PageNext
  BY <1>2, SaveInv, PruneFileInv, UserInv, DebouncedInv, CloseViewerInv, ListDirsInv, ListFilesInv,
     ListSortedInv, ReadRecordInv, OutdatedInv, BeyondEndInv, RenderInv, ScanFailsInv
  DEF PageNext, ScanStep, LoopStep
<1> QED
  BY <1>1, <1>2

-----------------------------------------------------------------------------
(* The reload of config.toml.                                              *)

\* A writer is where it says, with a whole config at hand.
LEMMA IdleWriterType ==
  /\ Default \in Settings
  /\ IdleWriter \in [at : {"idle", "edited", "open"}, data : Settings, mixed : BOOLEAN]
BY ReloadAssumption DEF Default, IdleWriter, Settings

LEMMA WriterSteps ==
  ASSUME ReloadTypeOK, NEW w \in Writers,
         \/ \E f \in Fields, v \in Values : ReadConfig(w, f, v)
         \/ ResetConfig(w) \/ TruncateConfig(w) \/ WriteConfig(w) \/ WriterDies(w)
  PROVE  ReloadTypeOK' /\ UNCHANGED <<proxy, config, started>>
<1> DEFINE WriterType == [at : {"idle", "edited", "open"}, data : Settings, mixed : BOOLEAN]
<1>0. /\ IdleWriter \in WriterType /\ IdleWriter.data = Default
      /\ Default \in Settings /\ IdleWriter.mixed \in BOOLEAN
  BY IdleWriterType DEF IdleWriter
<1>1. CASE \E f \in Fields, v \in Values : ReadConfig(w, f, v)
  <2>1. PICK f \in Fields, v \in Values : ReadConfig(w, f, v)
    BY <1>1
  <2>2. conf \in Settings /\ [conf EXCEPT ![f] = v] \in Settings
    <3>1. conf \in Settings
      BY <2>1 DEF ReadConfig, ReloadTypeOK
    <3> QED
      BY <3>1 DEF Settings
  <2>3. [IdleWriter EXCEPT !.at = "edited", !.data = [conf EXCEPT ![f] = v]] \in WriterType
    BY <1>0, <2>2
  <2>4. writer' \in [Writers -> WriterType]
    BY <2>1, <2>3 DEF ReadConfig, ReloadTypeOK
  <2>5. writes' \in 0..MaxWrites /\ UNCHANGED <<conf, mtime, proxyVars>>
    <3>1. writes < MaxWrites /\ writes' = writes + 1 /\ UNCHANGED <<conf, mtime, proxyVars>>
      BY <2>1 DEF ReadConfig, SetsValue
    <3>2. MaxWrites \in Nat /\ writes \in 0..MaxWrites
      BY ReloadAssumption DEF ReloadTypeOK
    <3> QED
      BY <3>1, <3>2
  <2> QED
    BY <2>4, <2>5 DEF proxyVars, ReloadTypeOK
<1>2. CASE ResetConfig(w)
  <2>1. [IdleWriter EXCEPT !.at = "edited"] \in WriterType
    BY <1>0
  <2> QED
    BY <1>2, <2>1, ReloadAssumption DEF ResetConfig, SetsValue, proxyVars, ReloadTypeOK
<1>3. CASE TruncateConfig(w)
  <2>1. writer' \in [Writers -> WriterType]
    BY <1>3 DEF TruncateConfig, ReloadTypeOK
  <2> QED
    BY <1>0, <1>3, <2>1 DEF TruncateConfig, proxyVars, ReloadTypeOK
<1>4. CASE WriteConfig(w)
  <2>1. ASSUME NEW x \in Writers
        PROVE  [writer[x] EXCEPT !.mixed = TRUE] \in WriterType /\ writer[x] \in WriterType
    BY DEF ReloadTypeOK
  <2>2. writer' \in [Writers -> WriterType]
    BY <1>0, <1>4, <2>1 DEF WriteConfig
  <2>3. conf' \in Settings \cup {Invalid}
    <3>1. writer[w].data \in Settings
      BY DEF ReloadTypeOK
    <3> QED
      BY <1>4, <3>1 DEF WriteConfig
  <2> QED
    BY <1>4, <2>2, <2>3 DEF WriteConfig, proxyVars, ReloadTypeOK
<1>5. CASE WriterDies(w)
  BY <1>0, <1>5 DEF WriterDies, proxyVars, ReloadTypeOK
<1> QED
  BY <1>1, <1>2, <1>3, <1>4, <1>5

LEMMA ReloadInitInv == ReloadInit => ReloadTypeOK /\ FixedUntilRestart
<1> HAVE ReloadInit
<1>1. writer \in [Writers -> [at : {"idle", "edited", "open"}, data : Settings, mixed : BOOLEAN]]
  BY IdleWriterType DEF ReloadInit
<1>2. MaxWrites \in Nat /\ MaxHups \in Nat /\ Default \in Settings
  BY IdleWriterType, ReloadAssumption
<1>3. {config, started} \subseteq Settings /\ conf \in Settings \cup {Invalid}
  BY <1>2 DEF ReloadInit
<1>4. seen \in 0..mtime /\ mtime \in Nat /\ writes \in 0..MaxWrites /\ hups \in 0..MaxHups
  BY <1>2 DEF ReloadInit
<1> QED
  BY <1>1, <1>3, <1>4 DEF ReloadInit, ReloadTypeOK, FixedUntilRestart

\* The fields that need a restart: a step of the proxy keeps them, or starts it.
LEMMA ReloadStep ==
  ReloadTypeOK /\ FixedUntilRestart /\ [ReloadNext]_reloadVars => ReloadTypeOK' /\ FixedUntilRestart'
<1> SUFFICES ASSUME ReloadTypeOK, FixedUntilRestart, [ReloadNext]_reloadVars
             PROVE  ReloadTypeOK' /\ FixedUntilRestart'
  OBVIOUS
<1>1. CASE \E c \in Settings \cup {Invalid} : EditByHand(c)
  BY <1>1, ReloadAssumption
  DEF EditByHand, SetsValue, proxyVars, ReloadTypeOK, FixedUntilRestart
<1>2. ASSUME NEW w \in Writers,
             \/ \E f \in Fields, v \in Values : ReadConfig(w, f, v)
             \/ ResetConfig(w) \/ TruncateConfig(w) \/ WriteConfig(w) \/ WriterDies(w)
      PROVE  ReloadTypeOK' /\ FixedUntilRestart'
  BY <1>2, WriterSteps DEF FixedUntilRestart
<1>3. CASE StartProxy
  <2>1. config' \in Settings /\ started' = config' /\ hups' \in 0..MaxHups
    BY <1>3, ReloadAssumption DEF StartProxy, ReloadTypeOK
  <2>2. seen' \in 0..mtime'
    BY <1>3 DEF StartProxy, WritersKept, ReloadTypeOK
  <2> QED
    BY <1>3, <2>1, <2>2 DEF StartProxy, WritersKept, ReloadTypeOK, FixedUntilRestart
<1>4. CASE WatchConfig
  BY <1>4 DEF WatchConfig, WritersKept, ReloadTypeOK, FixedUntilRestart
<1>5. CASE PollConfig
  BY <1>5 DEF PollConfig, WritersKept, ReloadTypeOK, FixedUntilRestart
<1>6. CASE Hup
  BY <1>6, ReloadAssumption DEF Hup, WritersKept, ReloadTypeOK, FixedUntilRestart
<1>7. CASE CheckSyntax
  BY <1>7 DEF CheckSyntax, WritersKept, ReloadTypeOK, FixedUntilRestart
<1>8. CASE LoadConfig
  <2>1. config' \in Settings /\ config'["fixed"] = config["fixed"]
    <3>1. CASE conf = Invalid
      BY <1>8, <3>1 DEF LoadConfig, ReloadTypeOK
    <3>2. CASE conf # Invalid
      <4>1. conf \in Settings /\ config["fixed"] \in Values
        BY <3>2 DEF ReloadTypeOK, Settings, Fields
      <4> QED
        BY <1>8, <3>2, <4>1 DEF LoadConfig, Settings, Fields
    <3> QED
      BY <3>1, <3>2
  <2> QED
    BY <1>8, <2>1 DEF LoadConfig, WritersKept, ReloadTypeOK, FixedUntilRestart
<1>9. CASE StopProxy
  BY <1>9 DEF StopProxy, WritersKept, ReloadTypeOK, FixedUntilRestart
<1>10. CASE UNCHANGED reloadVars
  BY <1>10 DEF reloadVars, ReloadTypeOK, FixedUntilRestart
<1> QED
  BY <1>1, <1>2, <1>3, <1>4, <1>5, <1>6, <1>7, <1>8, <1>9, <1>10 DEF ReloadNext

-----------------------------------------------------------------------------
(* The settings of a model.                                                *)

CommandPlaces == {"idle", "edited", "merged", "open"}

\* A command at work has a whole layer to write, and the key it sets is one of that layer's.
IsCommand(e) ==
  /\ e = [at |-> e.at, scope |-> e.scope, key |-> e.key, data |-> e.data, info |-> e.info,
          mixed |-> e.mixed]
  /\ e.at \in CommandPlaces /\ e.scope \in Scopes /\ e.mixed \in BOOLEAN /\ IsLayer(e.data)
  /\ e.at # "idle" => e.key \in SettingKeys \/ (e.key = "download" /\ e.scope = "model")

SettingsTyped ==
  /\ layers = [s \in Scopes |-> layers[s]]
  /\ \A s \in Scopes : layers[s] = Unreadable \/ IsLayer(layers[s])
  /\ editing = [t \in Terminals |-> editing[t]]
  /\ \A t \in Terminals : IsCommand(editing[t])
  /\ expected = [layers |-> expected.layers, download |-> expected.download]
  /\ expected.layers = [s \in Scopes |-> expected.layers[s]]
  /\ overlapped \subseteq Scopes /\ issued \in 0..MaxSettings

AtWork(t, s) == editing[t].at # "idle" /\ editing[t].scope = s

\* Of a file that no two commands edited at once: what its command is to write differs from
\* what is expected of the file in the command's own key alone.
KeepsTheRest(e) ==
  /\ IsLayer(expected.layers[e.scope])
  /\ e.key = "download" => e.data = expected.layers[e.scope]
  /\ e.key # "download" =>
       /\ e.data = [expected.layers[e.scope] EXCEPT ![e.key] = e.data[e.key]]
       /\ (e.at \in {"merged", "open"} /\ e.scope = "model") => e.info = expected.download

EditedInTurn ==
  \A s \in Scopes \ overlapped :
    /\ \A t, u \in Terminals : AtWork(t, s) /\ AtWork(u, s) => t = u
    /\ \A t \in Terminals : AtWork(t, s) =>
         /\ KeepsTheRest(editing[t])
         /\ editing[t].at = "open" => ~editing[t].mixed

SettingsInv == SettingsTyped /\ EditedInTurn /\ SettingsSurvive

LEMMA NoCommandType == IsCommand(NoCommand) /\ NoCommand.at = "idle" /\ IsLayer(NothingSet)
BY DEF IsCommand, NoCommand, NothingSet, IsLayer, CommandPlaces, Scopes

LEMMA SettingsInitInv == SettingsInit => SettingsInv
<1> SUFFICES ASSUME SettingsInit PROVE SettingsInv
  OBVIOUS
<1>1. \A t \in Terminals : editing[t] = NoCommand
  BY DEF SettingsInit
<1>2. 0 \in 0..MaxSettings
  BY SettingsAssumption
<1>3. SettingsTyped
  BY <1>1, <1>2, NoCommandType, SettingsAssumption DEF SettingsInit, SettingsTyped
<1>4. EditedInTurn
  BY <1>1, NoCommandType DEF EditedInTurn, AtWork
<1>5. SettingsSurvive
  BY DEF SettingsInit, SettingsSurvive
<1> QED
  BY <1>3, <1>4, <1>5 DEF SettingsInv

\* A command that starts has the file to itself, or the file counts as overlapped from here.
LEMMA StartsInv ==
  ASSUME SettingsInv, NEW t \in Terminals, NEW s \in Scopes, Starts(t, s), NEW e,
         editing' = [editing EXCEPT ![t] = e], IsCommand(e), e.scope = s,
         e.at \in {"edited", "merged"},
         (layers[s] = expected.layers[s] /\ (s = "model" => download = expected.download))
            => KeepsTheRest(e),
         UNCHANGED <<layers, download, expected>>
  PROVE  SettingsInv'
<1>1. /\ editing[t].at = "idle" /\ issued' = issued + 1 /\ issued < MaxSettings
      /\ layers[s] # Unreadable
      /\ overlapped' = overlapped \cup
           {x \in {s} : \E u \in Terminals : editing[u].at # "idle" /\ editing[u].scope = x}
  BY DEF Starts
<1>2. editing'[t] = e /\ \A u \in Terminals \ {t} : editing'[u] = editing[u]
  BY DEF SettingsInv, SettingsTyped
<1>3. issued' \in 0..MaxSettings
  BY <1>1, SettingsAssumption DEF SettingsInv, SettingsTyped
<1>4. SettingsTyped'
  <2>1. editing' = [u \in Terminals |-> editing'[u]]
    BY DEF SettingsInv, SettingsTyped
  <2>2. \A u \in Terminals : IsCommand(editing'[u])
    BY <1>2 DEF SettingsInv, SettingsTyped
  <2>3. overlapped' \subseteq Scopes
    BY <1>1 DEF SettingsInv, SettingsTyped
  <2> QED
    BY <1>3, <2>1, <2>2, <2>3 DEF SettingsInv, SettingsTyped
<1>5. \A u \in Terminals, x \in Scopes : AtWork(u, x)' <=> (AtWork(u, x) \/ (u = t /\ x = s))
  BY <1>1, <1>2 DEF AtWork
<1>6. s \notin overlapped' => s \notin overlapped /\ \A u \in Terminals : ~AtWork(u, s)
  BY <1>1 DEF AtWork
<1>7. \A x \in Scopes \ {s} : x \in overlapped' <=> x \in overlapped
  BY <1>1
<1>8. s \notin overlapped' => KeepsTheRest(e)
  BY <1>6 DEF SettingsInv, SettingsSurvive, AtWork
<1>9. EditedInTurn'
  <2> SUFFICES ASSUME NEW x \in Scopes \ overlapped'
               PROVE  /\ \A u, v \in Terminals : AtWork(u, x)' /\ AtWork(v, x)' => u = v
                      /\ \A u \in Terminals : AtWork(u, x)' =>
                           /\ KeepsTheRest(editing[u])'
                           /\ editing'[u].at = "open" => ~editing'[u].mixed
    BY DEF EditedInTurn
  <2>1. CASE x = s
    <3>1. \A u \in Terminals : AtWork(u, x)' <=> u = t
      BY <1>5, <1>6, <2>1
    <3> QED
      BY <1>2, <1>6, <1>8, <2>1, <3>1 DEF KeepsTheRest, IsLayer
  <2>2. CASE x # s
    <3>1. x \in Scopes \ overlapped /\ \A u \in Terminals : AtWork(u, x)' <=> AtWork(u, x)
      BY <1>5, <1>7, <2>2
    <3>2. \A u \in Terminals : AtWork(u, x) => editing'[u] = editing[u]
      BY <1>1, <1>2 DEF AtWork
    <3> QED
      BY <3>1, <3>2 DEF SettingsInv, EditedInTurn, KeepsTheRest, IsLayer
  <2> QED
    BY <2>1, <2>2
<1>10. SettingsSurvive'
  BY <1>1, <1>2 DEF SettingsInv, SettingsSurvive
<1> QED
  BY <1>4, <1>9, <1>10 DEF SettingsInv

\* A step of a command that leaves the files as they are.
LEMMA SameFiles ==
  ASSUME SettingsInv, NEW t \in Terminals, NEW e, editing' = [editing EXCEPT ![t] = e],
         IsCommand(e), overlapped \subseteq overlapped', overlapped' \subseteq Scopes,
         \A s \in Scopes : (editing[t].at = "open" /\ editing[t].scope = s) => s \in overlapped',
         e.at # "open",
         e.at # "idle" => /\ AtWork(t, e.scope)
                          /\ e.scope \notin overlapped => KeepsTheRest(e),
         UNCHANGED <<layers, download, expected, issued>>
  PROVE  SettingsInv'
<1>1. editing'[t] = e /\ \A u \in Terminals \ {t} : editing'[u] = editing[u]
  BY DEF SettingsInv, SettingsTyped
<1>2. SettingsTyped'
  <2>1. editing' = [u \in Terminals |-> editing'[u]]
    BY DEF SettingsInv, SettingsTyped
  <2>2. \A u \in Terminals : IsCommand(editing'[u])
    BY <1>1 DEF SettingsInv, SettingsTyped
  <2> QED
    BY <2>1, <2>2 DEF SettingsInv, SettingsTyped
<1>3. EditedInTurn'
  <2> SUFFICES ASSUME NEW x \in Scopes \ overlapped'
               PROVE  /\ \A u, v \in Terminals : AtWork(u, x)' /\ AtWork(v, x)' => u = v
                      /\ \A u \in Terminals : AtWork(u, x)' =>
                           /\ KeepsTheRest(editing[u])'
                           /\ editing'[u].at = "open" => ~editing'[u].mixed
    BY DEF EditedInTurn
  <2>1. x \in Scopes \ overlapped /\ \A u \in Terminals : AtWork(u, x)' => AtWork(u, x)
    BY <1>1 DEF AtWork
  <2>2. \A u \in Terminals \ {t} : AtWork(u, x) =>
          /\ KeepsTheRest(editing[u])'
          /\ editing'[u].at = "open" => ~editing'[u].mixed
    BY <1>1, <2>1 DEF SettingsInv, EditedInTurn, KeepsTheRest, IsLayer
  <2>3. AtWork(t, x)' => KeepsTheRest(editing[t])' /\ editing'[t].at # "open"
    BY <1>1, <2>1 DEF AtWork, KeepsTheRest, IsLayer
  <2> QED
    BY <2>1, <2>2, <2>3 DEF SettingsInv, EditedInTurn
<1>4. SettingsSurvive'
  <2> SUFFICES ASSUME NEW s \in Scopes \ overlapped',
                      \A u \in Terminals : editing'[u].scope = s => editing'[u].at # "open"
               PROVE  layers[s] = expected.layers[s] /\ (s = "model" => download = expected.download)
    BY DEF SettingsSurvive
  <2>1. \A u \in Terminals : editing[u].scope = s => editing[u].at # "open"
    BY <1>1
  <2> QED
    BY <2>1 DEF SettingsInv, SettingsSurvive
<1> QED
  BY <1>2, <1>3, <1>4 DEF SettingsInv

LEMMA EditInv ==
  \A t \in Terminals, s \in Scopes, k \in SettingKeys :
    \A v \in NewValues[k] \cup {NotSet} :
      SettingsInv /\ EditSettings(t, s, k, v) => SettingsInv'
<1> SUFFICES ASSUME NEW t \in Terminals, NEW s \in Scopes, NEW k \in SettingKeys,
                    NEW v \in NewValues[k] \cup {NotSet}, SettingsInv, EditSettings(t, s, k, v)
             PROVE  SettingsInv'
  OBVIOUS
<1>1. PICK data : data = [layers[s] EXCEPT ![k] = v]
  OBVIOUS
<1>2. PICK e : e = [at |-> IF s = "model" THEN "edited" ELSE "merged", scope |-> s, key |-> k,
                    data |-> data, info |-> NotSet, mixed |-> FALSE]
  OBVIOUS
<1>3. IsLayer(layers[s])
  BY DEF EditSettings, Starts, SettingsInv, SettingsTyped
<1>4. IsLayer(data) /\ data[k] = v
  <2>1. data = [x \in SettingKeys |-> data[x]] /\ data[k] = v
    BY <1>1, <1>3 DEF IsLayer
  <2>2. \A x \in SettingKeys : data[x] # NotSet => data[x] \in ValuesOf(x)
    <3>1. \A x \in SettingKeys : data[x] = IF x = k THEN v ELSE layers[s][x]
      BY <1>1, <1>3 DEF IsLayer
    <3>2. v # NotSet => v \in ValuesOf(k)
      BY SettingsAssumption
    <3> QED
      BY <1>3, <3>1, <3>2 DEF IsLayer
  <2> QED
    BY <2>1, <2>2 DEF IsLayer
<1>5. /\ e.at = (IF s = "model" THEN "edited" ELSE "merged") /\ e.scope = s /\ e.key = k
      /\ e.data = data /\ e.mixed = FALSE /\ k # "download"
  BY <1>2 DEF SettingKeys
<1>6. e.at \in {"edited", "merged"} /\ (s = "model" => e.at = "edited")
  BY <1>5
<1>7. IsCommand(e)
  BY <1>2, <1>4, <1>5, <1>6 DEF IsCommand, CommandPlaces
<1>8. layers[s] = expected.layers[s] => KeepsTheRest(e)
  BY <1>1, <1>3, <1>4, <1>5, <1>6 DEF KeepsTheRest
<1>9. /\ Starts(t, s) /\ editing' = [editing EXCEPT ![t] = e]
      /\ UNCHANGED <<layers, download, expected>>
  BY <1>1, <1>2 DEF EditSettings
<1> QED
  BY <1>5, <1>6, <1>7, <1>8, <1>9, StartsInv

LEMMA RecordInv == \A t \in Terminals : SettingsInv /\ RecordDownload(t) => SettingsInv'
<1> SUFFICES ASSUME NEW t \in Terminals, SettingsInv, RecordDownload(t) PROVE SettingsInv'
  OBVIOUS
<1>1. PICK e : e = [at |-> "merged", scope |-> "model", key |-> "download",
                    data |-> layers["model"], info |-> issued', mixed |-> FALSE]
  OBVIOUS
<1>2. IsLayer(layers["model"]) /\ "model" \in Scopes
  BY DEF RecordDownload, Starts, SettingsInv, SettingsTyped, Scopes
<1>3. /\ e.at = "merged" /\ e.scope = "model" /\ e.key = "download" /\ e.data = layers["model"]
      /\ e.mixed = FALSE
  BY <1>1
<1>4. IsCommand(e)
  BY <1>1, <1>2, <1>3 DEF IsCommand, CommandPlaces
<1>5. layers["model"] = expected.layers["model"] => KeepsTheRest(e)
  BY <1>2, <1>3 DEF KeepsTheRest
<1>6. /\ Starts(t, "model") /\ editing' = [editing EXCEPT ![t] = e]
      /\ UNCHANGED <<layers, download, expected>>
  BY <1>1 DEF RecordDownload
<1> QED
  BY <1>2, <1>3, <1>4, <1>5, <1>6, StartsInv

LEMMA KeepInv == \A t \in Terminals : SettingsInv /\ KeepDownload(t) => SettingsInv'
<1> SUFFICES ASSUME NEW t \in Terminals, SettingsInv, KeepDownload(t) PROVE SettingsInv'
  OBVIOUS
<1>1. /\ editing[t].at = "edited" /\ UNCHANGED <<layers, download, expected, overlapped, issued>>
      /\ IsCommand(editing[t]) /\ overlapped \subseteq Scopes
  BY DEF KeepDownload, SettingsInv, SettingsTyped
<1>2. CASE layers["model"] = Unreadable
  <2>1. editing' = [editing EXCEPT ![t] = NoCommand]
    BY <1>2 DEF KeepDownload
  <2> QED
    BY <1>1, <2>1, NoCommandType, SameFiles
<1>3. CASE layers["model"] # Unreadable
  <2>1. PICK e : e = [editing[t] EXCEPT !.at = "merged", !.info = download]
    OBVIOUS
  <2>2. editing' = [editing EXCEPT ![t] = e]
    BY <1>3, <2>1 DEF KeepDownload
  <2>3. /\ e.at = "merged" /\ e.scope = editing[t].scope /\ e.key = editing[t].key
        /\ e.data = editing[t].data /\ e.info = download /\ e.mixed = editing[t].mixed
        /\ e = [at |-> e.at, scope |-> e.scope, key |-> e.key, data |-> e.data, info |-> e.info,
                mixed |-> e.mixed]
    BY <1>1, <2>1 DEF IsCommand
  <2>4. IsCommand(e)
    BY <1>1, <2>3 DEF IsCommand, CommandPlaces
  <2>5. AtWork(t, e.scope) /\ e.scope \in Scopes
    BY <1>1, <2>3 DEF AtWork, IsCommand
  <2>6. ASSUME e.scope \notin overlapped PROVE KeepsTheRest(e)
    <3>1. /\ KeepsTheRest(editing[t])
          /\ \A u \in Terminals : AtWork(u, e.scope) => u = t
      BY <2>5, <2>6 DEF SettingsInv, EditedInTurn
    <3>2. e.scope = "model" => download = expected.download
      <4>1. \A u \in Terminals : editing[u].scope = e.scope => editing[u].at # "open"
        BY <1>1, <3>1 DEF AtWork
      <4> QED
        BY <2>5, <2>6, <4>1 DEF SettingsInv, SettingsSurvive
    <3> QED
      BY <2>3, <3>1, <3>2 DEF KeepsTheRest
  <2> QED
    BY <1>1, <2>2, <2>3, <2>4, <2>5, <2>6, SameFiles
<1> QED
  BY <1>2, <1>3

LEMMA EditorDiesInv == \A t \in Terminals : SettingsInv /\ EditorDies(t) => SettingsInv'
<1> SUFFICES ASSUME NEW t \in Terminals, SettingsInv, EditorDies(t) PROVE SettingsInv'
  OBVIOUS
<1>1. IsCommand(editing[t]) /\ overlapped \subseteq Scopes
  BY DEF SettingsInv, SettingsTyped
<1>2. /\ overlapped \subseteq overlapped' /\ overlapped' \subseteq Scopes
      /\ \A s \in Scopes : (editing[t].at = "open" /\ editing[t].scope = s) => s \in overlapped'
  BY <1>1 DEF EditorDies, IsCommand
<1>3. editing' = [editing EXCEPT ![t] = NoCommand] /\ UNCHANGED <<layers, download, expected, issued>>
  BY DEF EditorDies
<1> QED
  BY <1>2, <1>3, NoCommandType, SameFiles

\* While a file is empty, nothing is said of it; the others are as they were.
LEMMA OpenInv == \A t \in Terminals : SettingsInv /\ OpenSettings(t) => SettingsInv'
<1> SUFFICES ASSUME NEW t \in Terminals, SettingsInv, OpenSettings(t) PROVE SettingsInv'
  OBVIOUS
<1>1. PICK s \in Scopes : s = editing[t].scope
  BY DEF SettingsInv, SettingsTyped, IsCommand
<1>2. /\ editing[t].at = "merged" /\ IsCommand(editing[t])
      /\ layers' = [layers EXCEPT ![s] = NothingSet]
      /\ download' = IF s = "model" THEN NotSet ELSE download
      /\ editing' = [editing EXCEPT ![t].at = "open", ![t].mixed = FALSE]
      /\ UNCHANGED <<expected, overlapped, issued>>
  BY <1>1 DEF OpenSettings, SettingsInv, SettingsTyped
<1>3. PICK e : e = [editing[t] EXCEPT !.at = "open", !.mixed = FALSE]
  OBVIOUS
<1>4. /\ e.at = "open" /\ e.scope = s /\ e.key = editing[t].key
      /\ e.data = editing[t].data /\ e.info = editing[t].info /\ e.mixed = FALSE
      /\ e = [at |-> e.at, scope |-> e.scope, key |-> e.key, data |-> e.data, info |-> e.info,
              mixed |-> e.mixed]
  BY <1>1, <1>2, <1>3 DEF IsCommand
<1>5. IsCommand(e)
  BY <1>2, <1>4, <1>1 DEF IsCommand, CommandPlaces
<1>6. editing'[t] = e /\ \A u \in Terminals \ {t} : editing'[u] = editing[u]
  BY <1>2, <1>3 DEF SettingsInv, SettingsTyped
<1>7. SettingsTyped'
  <2>1. editing' = [u \in Terminals |-> editing'[u]]
    BY <1>2 DEF SettingsInv, SettingsTyped
  <2>2. \A u \in Terminals : IsCommand(editing'[u])
    BY <1>5, <1>6 DEF SettingsInv, SettingsTyped
  <2>3. layers' = [x \in Scopes |-> layers'[x]] /\ layers'[s] = NothingSet
        /\ \A x \in Scopes \ {s} : layers'[x] = layers[x]
    BY <1>2 DEF SettingsInv, SettingsTyped
  <2>4. \A x \in Scopes : layers'[x] = Unreadable \/ IsLayer(layers'[x])
    BY <2>3, NoCommandType DEF SettingsInv, SettingsTyped
  <2> QED
    BY <1>2, <2>1, <2>2, <2>3, <2>4 DEF SettingsInv, SettingsTyped
<1>8. \A u \in Terminals, x \in Scopes : AtWork(u, x)' <=> AtWork(u, x)
  BY <1>1, <1>2, <1>4, <1>6 DEF AtWork
<1>9. EditedInTurn'
  <2> SUFFICES ASSUME NEW x \in Scopes \ overlapped, NEW u \in Terminals, AtWork(u, x)
               PROVE  KeepsTheRest(editing[u])' /\ (editing'[u].at = "open" => ~editing'[u].mixed)
    BY <1>2, <1>8 DEF SettingsInv, EditedInTurn
  <2>1. KeepsTheRest(editing[u]) /\ (editing[u].at = "open" => ~editing[u].mixed)
    BY DEF SettingsInv, EditedInTurn
  <2>2. CASE u = t
    <3>1. KeepsTheRest(e)
      BY <1>1, <1>2, <1>4, <2>1, <2>2 DEF KeepsTheRest
    <3> QED
      BY <1>2, <1>4, <1>6, <2>2, <3>1 DEF KeepsTheRest
  <2>3. CASE u # t
    BY <1>2, <1>6, <2>1, <2>3 DEF KeepsTheRest
  <2> QED
    BY <2>2, <2>3
<1>10. SettingsSurvive'
  <2> SUFFICES ASSUME NEW x \in Scopes \ overlapped,
                      \A u \in Terminals : editing'[u].scope = x => editing'[u].at # "open"
               PROVE  layers'[x] = expected.layers[x] /\ (x = "model" => download' = expected.download)
    BY <1>2 DEF SettingsSurvive
  <2>1. x # s
    BY <1>4, <1>6
  <2>2. \A u \in Terminals : editing[u].scope = x => editing[u].at # "open"
    BY <1>2, <1>6
  <2>3. layers'[x] = layers[x] /\ (x = "model" => download' = download)
    BY <1>2, <2>1 DEF SettingsInv, SettingsTyped
  <2> QED
    BY <2>2, <2>3 DEF SettingsInv, SettingsSurvive
<1> QED
  BY <1>7, <1>9, <1>10 DEF SettingsInv

LEMMA WriteInv == \A t \in Terminals : SettingsInv /\ WriteSettings(t) => SettingsInv'
<1> SUFFICES ASSUME NEW t \in Terminals, SettingsInv, WriteSettings(t) PROVE SettingsInv'
  OBVIOUS
<1>1. PICK e : e = editing[t]
  OBVIOUS
<1>2. /\ e.at = "open" /\ IsCommand(e) /\ e.scope \in Scopes
      /\ layers' \in {[layers EXCEPT ![e.scope] = new] :
                        new \in {e.data} \cup IF e.mixed THEN {Unreadable} ELSE {}}
      /\ download' = IF e.scope = "model" THEN e.info ELSE download
      /\ editing' = [u \in Terminals |->
           IF u = t THEN NoCommand
           ELSE [editing[u] EXCEPT !.mixed = @ \/ (editing[u].at = "open"
                                                   /\ editing[u].scope = e.scope)]]
      /\ expected' = IF e.key = "download" THEN [expected EXCEPT !.download = e.info]
                     ELSE [expected EXCEPT !.layers[e.scope][e.key] = e.data[e.key]]
      /\ UNCHANGED <<overlapped, issued>>
  BY <1>1, ZenonT(60) DEF WriteSettings, SettingsInv, SettingsTyped, IsCommand
<1>0. e.key = "download" => e.scope = "model"
  BY <1>2 DEF IsCommand, SettingKeys
<1>3. PICK new : layers' = [layers EXCEPT ![e.scope] = new] /\ new \in {e.data, Unreadable}
                 /\ (~e.mixed => new = e.data)
  BY <1>2
<1>4. /\ layers' = [x \in Scopes |-> layers'[x]] /\ layers'[e.scope] = new
      /\ \A x \in Scopes \ {e.scope} : layers'[x] = layers[x]
  BY <1>2, <1>3 DEF SettingsInv, SettingsTyped
<1>5. editing' = [u \in Terminals |-> editing'[u]] /\ editing'[t] = NoCommand
  BY <1>2
<1>6. ASSUME NEW u \in Terminals \ {t}
      PROVE  /\ IsCommand(editing'[u]) /\ editing'[u].at = editing[u].at
             /\ editing'[u].scope = editing[u].scope /\ editing'[u].key = editing[u].key
             /\ editing'[u].data = editing[u].data /\ editing'[u].info = editing[u].info
             /\ (editing[u].scope # e.scope => editing'[u].mixed = editing[u].mixed)
  <2>1. PICK m \in BOOLEAN : m <=> (editing[u].mixed \/ (editing[u].at = "open"
                                                         /\ editing[u].scope = e.scope))
    OBVIOUS
  <2>2. IsCommand(editing[u]) /\ editing[u].mixed \in BOOLEAN
    BY DEF SettingsInv, SettingsTyped, IsCommand
  <2>3. (editing[u].mixed \/ (editing[u].at = "open" /\ editing[u].scope = e.scope)) = m
    BY <2>1
  <2>4. editing'[u] = [editing[u] EXCEPT !.mixed = m]
    BY <1>2, <2>3
  <2>5. /\ editing'[u] = [at |-> editing[u].at, scope |-> editing[u].scope,
                          key |-> editing[u].key, data |-> editing[u].data,
                          info |-> editing[u].info, mixed |-> m]
    BY <2>2, <2>4 DEF IsCommand
  <2>6. editing[u].scope # e.scope => m = editing[u].mixed
    BY <2>1, <2>2, Zenon
  <2> QED
    BY <2>2, <2>5, <2>6 DEF IsCommand
<1>7. \A x \in Scopes : layers'[x] = Unreadable \/ IsLayer(layers'[x])
  <2>1. IsLayer(e.data)
    BY <1>2 DEF IsCommand
  <2> QED
    BY <1>3, <1>4, <2>1 DEF SettingsInv, SettingsTyped
<1>8. /\ expected' = [layers |-> expected'.layers, download |-> expected'.download]
      /\ expected'.layers = [x \in Scopes |-> expected'.layers[x]]
      /\ \A x \in Scopes \ {e.scope} : expected'.layers[x] = expected.layers[x]
      /\ e.key = "download" => /\ expected'.layers = expected.layers
                               /\ expected'.download = e.info
      /\ e.key # "download" => /\ expected'.layers[e.scope] =
                                    [expected.layers[e.scope] EXCEPT ![e.key] = e.data[e.key]]
                               /\ expected'.download = expected.download
  BY <1>2 DEF SettingsInv, SettingsTyped
<1>9. SettingsTyped'
  <2>1. \A u \in Terminals : IsCommand(editing'[u])
    BY <1>5, <1>6, NoCommandType
  <2>2. overlapped' \subseteq Scopes /\ issued' \in 0..MaxSettings
    BY <1>2 DEF SettingsInv, SettingsTyped
  <2> QED
    BY <1>4, <1>5, <1>7, <1>8, <2>1, <2>2 DEF SettingsTyped
<1>10. AtWork(t, e.scope)
  BY <1>1, <1>2 DEF AtWork
<1>11. \A u \in Terminals, x \in Scopes : AtWork(u, x)' <=> AtWork(u, x) /\ u # t
  BY <1>5, <1>6, NoCommandType DEF AtWork
<1>12. e.scope \notin overlapped => \A u \in Terminals : ~AtWork(u, e.scope)'
  BY <1>2, <1>10, <1>11 DEF SettingsInv, EditedInTurn
<1>13. EditedInTurn'
  <2> SUFFICES ASSUME NEW x \in Scopes \ overlapped, NEW u \in Terminals, AtWork(u, x), u # t
               PROVE  KeepsTheRest(editing[u])' /\ (editing'[u].at = "open" => ~editing'[u].mixed)
    BY <1>2, <1>11 DEF SettingsInv, EditedInTurn
  <2>1. x # e.scope
    BY <1>11, <1>12
  <2>2. KeepsTheRest(editing[u]) /\ (editing[u].at = "open" => ~editing[u].mixed)
        /\ editing[u].scope = x
    BY DEF SettingsInv, EditedInTurn, AtWork
  <2>3. expected'.layers[x] = expected.layers[x]
    BY <1>8, <2>1
  <2>4. x = "model" => expected'.download = expected.download
    <3>1. x = "model" => e.key # "download"
      BY <1>0, <2>1
    <3> QED
      BY <1>8, <3>1
  <2> QED
    BY <1>6, <2>1, <2>2, <2>3, <2>4 DEF KeepsTheRest
<1>14. SettingsSurvive'
  <2> SUFFICES ASSUME NEW x \in Scopes \ overlapped,
                      \A u \in Terminals : editing'[u].scope = x => editing'[u].at # "open"
               PROVE  layers'[x] = expected'.layers[x]
                      /\ (x = "model" => download' = expected'.download)
    BY <1>2 DEF SettingsSurvive
  <2>1. CASE x = e.scope
    <3>1. KeepsTheRest(e) /\ ~e.mixed
      BY <1>1, <1>2, <1>10, <2>1 DEF SettingsInv, EditedInTurn
    <3>2. layers'[x] = e.data
      BY <1>3, <1>4, <2>1, <3>1
    <3>3. CASE e.key = "download"
      BY <1>2, <1>8, <2>1, <3>1, <3>2, <3>3 DEF KeepsTheRest
    <3>4. CASE e.key # "download"
      BY <1>2, <1>8, <2>1, <3>1, <3>2, <3>4 DEF KeepsTheRest
    <3> QED
      BY <3>3, <3>4
  <2>2. CASE x # e.scope
    <3>1. \A u \in Terminals : editing[u].scope = x => editing[u].at # "open"
      BY <1>1, <1>6, <2>2
    <3>2. layers[x] = expected.layers[x] /\ (x = "model" => download = expected.download)
      BY <3>1 DEF SettingsInv, SettingsSurvive
    <3>3. x = "model" => e.key # "download" /\ e.scope # "model"
      BY <1>0, <2>2
    <3> QED
      BY <1>2, <1>4, <1>8, <2>2, <3>2, <3>3
  <2> QED
    BY <2>1, <2>2
<1> QED
  BY <1>9, <1>13, <1>14 DEF SettingsInv

LEMMA SettingsStep == SettingsInv /\ [SettingsNext]_settingsVars => SettingsInv'
<1> SUFFICES ASSUME SettingsInv, [SettingsNext]_settingsVars PROVE SettingsInv'
  OBVIOUS
<1>1. CASE UNCHANGED settingsVars
  <2>1. SettingsTyped'
    BY <1>1 DEF settingsVars, SettingsInv, SettingsTyped
  <2>2. \A t \in Terminals, s \in Scopes : AtWork(t, s)' <=> AtWork(t, s)
    BY <1>1 DEF settingsVars, AtWork
  <2>3. \A t \in Terminals : KeepsTheRest(editing[t])' <=> KeepsTheRest(editing[t])
    BY <1>1 DEF settingsVars, KeepsTheRest
  <2>4. EditedInTurn'
    BY <1>1, <2>2, <2>3 DEF settingsVars, SettingsInv, EditedInTurn
  <2>5. SettingsSurvive'
    BY <1>1 DEF settingsVars, SettingsInv, SettingsSurvive
  <2> QED
    BY <2>1, <2>4, <2>5 DEF SettingsInv
<1>2. CASE SettingsNext
  BY <1>2, EditInv, KeepInv, RecordInv, OpenInv, WriteInv, EditorDiesInv DEF SettingsNext
<1> QED
  BY <1>1, <1>2

LEMMA SettingsFollow == SettingsInv => SettingsTypeOK /\ SettingsSurvive
BY DEF SettingsInv, SettingsTyped, SettingsTypeOK, IsCommand, CommandPlaces

-----------------------------------------------------------------------------
(* The settings as they are read: by llama-server, argument by argument,   *)
(* and by describe_model and the report, each on its own.                  *)

\* `val` is a value read in n steps.  `Setters` are those that set it, to `out`, `Open` of them
\* only with the next step; the others leave it as it is.
SetInSteps(n, Setters, Open, out, val) ==
  /\ n \in Nat /\ Setters \in SUBSET (1..n) /\ Open \in SUBSET Setters /\ n \notin Open
  /\ \A k \in Open : k + 1 \notin Setters
  /\ \A k \in Setters \ Open : val[k] = out[k]
  /\ \A k \in Open : val[k + 1] = out[k]
  /\ \A k \in 1..n : (k \notin Setters \/ k \in Open) /\ k - 1 \notin Open => val[k] = val[k - 1]

LastCounts(n, Setters, out, val) ==
  /\ Setters = {} => val[n] = val[0]
  /\ \A i \in Setters : (\A j \in Setters : j <= i) => val[n] = out[i]

\* Where a setting was given several times, the last one counts.
LEMMA LastWins ==
  ASSUME NEW n, NEW Setters, NEW Open, NEW out, NEW val, SetInSteps(n, Setters, Open, out, val)
  PROVE  LastCounts(n, Setters, out, val)
<1> USE DEF SetInSteps
<1>1. ASSUME Setters = {} PROVE val[n] = val[0]
  <2> DEFINE Same == {k \in 0..n : val[k] = val[0]}
  <2>1. 0 \in Same /\ \A k \in 0..(n - 1) : k \in Same => k + 1 \in Same
    BY <1>1
  <2> HIDE DEF Same
  <2>2. 0..n \subseteq Same
    <3>1. 0 \in Int /\ n \in Int
      OBVIOUS
    <3> QED
      BY <2>1, <3>1, Climb
  <2> QED
    BY <2>2 DEF Same
<1>2. ASSUME NEW i \in Setters, \A j \in Setters : j <= i PROVE val[n] = out[i]
  <2> DEFINE from == IF i \in Open THEN i + 1 ELSE i
             Same == {k \in from..n : val[k] = out[i]}
  <2>1. i \in 1..n /\ from \in i..n
    BY <1>2
  <2>2. val[from] = out[i]
    BY <1>2
  <2>3. ASSUME NEW k \in from..(n - 1), k \in Same PROVE k + 1 \in Same
    <3>1. k \in Int /\ i <= k /\ k + 1 \in 1..n /\ (k + 1) - 1 = k /\ k + 1 \notin Setters
      BY <1>2, <2>1, <2>3
    <3>2. k \notin Open
      BY <1>2, <2>1, <3>1
    <3>3. val[k + 1] = val[k]
      BY <3>1, <3>2
    <3> QED
      BY <2>1, <2>3, <3>1, <3>3
  <2>4. from \in Same
    BY <2>1, <2>2
  <2> HIDE DEF Same, from
  <2>5. from..n \subseteq Same
    <3>1. from \in Int /\ n \in Int
      BY <2>1
    <3> QED
      BY <2>3, <2>4, <3>1, Climb
  <2> QED
    BY <2>1, <2>5 DEF Same
<1> QED
  BY <1>1, <1>2 DEF LastCounts

-----------------------------------------------------------------------------
(* llama-server's reading.                                                 *)

ServerFields == {"ctx", "slots", "mmproj", "threads", "cap", "budget", "unified", "jinja", "waits"}

FieldValues == Int \cup BOOLEAN \cup ServerFields \cup {NotSet, "", "auto", "on", "off"}

Fresh == [ctx |-> NotSet, slots |-> NotSet, mmproj |-> NotSet, threads |-> NotSet,
          cap |-> NotSet, budget |-> NotSet, unified |-> "auto", jinja |-> TRUE, waits |-> ""]

Valued == {"-c", "--ctx-size", "-np", "--parallel", "--threads", "-mm", "--mmproj",
           "--kv-unified-per-slot", "--reasoning-budget"}

LEMMA FreshFacts == Fresh \in [ServerFields -> FieldValues]
<1>1. DOMAIN Fresh = ServerFields
  BY DEF Fresh, ServerFields
<1>2. \A f \in ServerFields : Fresh[f] \in FieldValues
  <2>1. {NotSet, "", "auto"} \subseteq FieldValues /\ TRUE \in FieldValues
    BY DEF FieldValues
  <2>2. Fresh["jinja"] \in FieldValues
    BY <2>1 DEF Fresh
  <2>3. \A f \in ServerFields \ {"jinja"} : Fresh[f] \in {NotSet, "", "auto"}
    <3>1. /\ Fresh["ctx"] = NotSet /\ Fresh["slots"] = NotSet /\ Fresh["mmproj"] = NotSet
          /\ Fresh["threads"] = NotSet /\ Fresh["cap"] = NotSet /\ Fresh["budget"] = NotSet
          /\ Fresh["unified"] = "auto" /\ Fresh["waits"] = ""
      BY DEF Fresh
    <3> HIDE DEF Fresh
    <3> QED
      BY <3>1 DEF ServerFields
  <2> QED
    BY <2>1, <2>2, <2>3
<1>3. Fresh = [f \in ServerFields |-> Fresh[f]]
  BY <1>1 DEF Fresh
<1> QED
  BY <1>2, <1>3

LEMMA SettingFacts ==
  /\ DOMAIN Setting = Valued /\ \A n \in Valued : Setting[n] \in ServerFields \ {"waits", "unified", "jinja"}
  /\ Setting["-c"] = "ctx" /\ Setting["--ctx-size"] = "ctx" /\ Setting["-np"] = "slots"
  /\ Setting["--parallel"] = "slots" /\ Setting["-mm"] = "mmproj" /\ Setting["--mmproj"] = "mmproj"
  /\ Setting["--threads"] = "threads" /\ Setting["--kv-unified-per-slot"] = "cap"
  /\ Setting["--reasoning-budget"] = "budget"
BY DEF Setting, Valued, ServerFields

\* A server that waits for no flag's value.
Free(s) == s["waits"] = ""

LEMMA ReadFacts ==
  ASSUME NEW st \in [ServerFields -> FieldValues], NEW arg \in Argument
  PROVE  /\ ReadArgument(st, arg) \in [ServerFields -> FieldValues]
         /\ ~Free(st) /\ st["waits"] \in ServerFields =>
              /\ Free(ReadArgument(st, arg))
              /\ \A f \in ServerFields \ {"waits"} :
                   ReadArgument(st, arg)[f] = IF f = st["waits"] THEN arg.value ELSE st[f]
         /\ Free(st) /\ arg.name \in Valued /\ arg.value = NotSet =>
              /\ ReadArgument(st, arg)["waits"] = Setting[arg.name]
              /\ \A f \in ServerFields \ {"waits"} : ReadArgument(st, arg)[f] = st[f]
         /\ Free(st) /\ arg.name \in Valued /\ arg.value # NotSet =>
              \A f \in ServerFields :
                ReadArgument(st, arg)[f] = IF f = Setting[arg.name] THEN arg.value ELSE st[f]
<1>1. st.waits = st["waits"] /\ arg.value \in FieldValues /\ "" \in FieldValues
  BY DEF Argument, FieldValues
<1>2. CASE ~Free(st)
  <2>1. ReadArgument(st, arg) = [st EXCEPT ![st["waits"]] = arg.value, !["waits"] = ""]
    BY <1>1, <1>2 DEF ReadArgument, Free
  <2> DEFINE mid == [st EXCEPT ![st["waits"]] = arg.value]
             res == [mid EXCEPT !["waits"] = ""]
  <2>2. mid \in [ServerFields -> FieldValues]
    BY <1>1
  <2>3. \A f \in ServerFields : mid[f] = IF f = st["waits"] THEN arg.value ELSE st[f]
    OBVIOUS
  <2> HIDE DEF mid
  <2>4. "waits" \in ServerFields /\ res \in [ServerFields -> FieldValues] /\ res["waits"] = ""
        /\ \A f \in ServerFields \ {"waits"} : res[f] = mid[f]
    BY <1>1, <2>2 DEF ServerFields
  <2>5. ReadArgument(st, arg) = res
    BY <2>1 DEF mid
  <2> HIDE DEF res
  <2> QED
    BY <1>2, <2>3, <2>4, <2>5 DEF Free
<1>3. CASE Free(st) /\ arg.name \notin Valued
  <2>1. ReadArgument(st, arg) = ReadSwitch(st, arg.name)
    BY <1>1, <1>3, SettingFacts DEF ReadArgument, Free
  <2>2. ReadSwitch(st, arg.name) \in [ServerFields -> FieldValues]
    BY DEF ReadSwitch, ServerFields, FieldValues
  <2> QED
    BY <1>3, <2>1, <2>2 DEF Free
<1>4. CASE Free(st) /\ arg.name \in Valued /\ arg.value # NotSet
  <2>1. ReadArgument(st, arg) = [st EXCEPT ![Setting[arg.name]] = arg.value]
    BY <1>1, <1>4, SettingFacts DEF ReadArgument, Free
  <2> QED
    BY <1>1, <1>4, <2>1, SettingFacts DEF Free
<1>5. CASE Free(st) /\ arg.name \in Valued /\ arg.value = NotSet
  <2>1. ReadArgument(st, arg) = [st EXCEPT !["waits"] = Setting[arg.name]]
    BY <1>1, <1>5, SettingFacts DEF ReadArgument, Free
  <2>2. Setting[arg.name] \in FieldValues /\ "waits" \in ServerFields
    BY <1>5, SettingFacts DEF FieldValues, ServerFields
  <2> QED
    BY <1>5, <2>1, <2>2 DEF Free
<1> QED
  BY <1>2, <1>3, <1>4, <1>5

LEMMA SwitchFacts ==
  ASSUME NEW st \in [ServerFields -> FieldValues], NEW arg \in Argument,
         Free(st), arg.name \notin Valued
  PROVE  /\ \A f \in ServerFields \ {"unified", "jinja", "mmproj"} : ReadArgument(st, arg)[f] = st[f]
         /\ ReadArgument(st, arg)["unified"] =
              IF arg.name \in {"-kvu", "--kv-unified"} THEN "on"
              ELSE IF arg.name \in {"-no-kvu", "--no-kv-unified"} THEN "off" ELSE st["unified"]
         /\ ReadArgument(st, arg)["jinja"] =
              IF arg.name = "--jinja" THEN TRUE
              ELSE IF arg.name = "--no-jinja" THEN FALSE ELSE st["jinja"]
         /\ ReadArgument(st, arg)["mmproj"] =
              IF arg.name = "--no-mmproj" THEN NotSet ELSE st["mmproj"]
<1>1. ReadArgument(st, arg) = ReadSwitch(st, arg.name)
  BY SettingFacts DEF ReadArgument, Free
<1>2. CASE arg.name \in {"-kvu", "--kv-unified"}
  BY <1>1, <1>2 DEF ReadSwitch, ServerFields
<1>3. CASE arg.name \in {"-no-kvu", "--no-kv-unified"}
  BY <1>1, <1>3 DEF ReadSwitch, ServerFields
<1>4. CASE arg.name = "--jinja"
  BY <1>1, <1>4 DEF ReadSwitch, ServerFields
<1>5. CASE arg.name = "--no-jinja"
  BY <1>1, <1>5 DEF ReadSwitch, ServerFields
<1>6. CASE arg.name = "--no-mmproj"
  BY <1>1, <1>6 DEF ReadSwitch, ServerFields
<1>7. CASE arg.name \notin Switches
  BY <1>1, <1>7 DEF ReadSwitch, Switches
<1> QED
  BY <1>2, <1>3, <1>4, <1>5, <1>6, <1>7 DEF Switches

LEMMA Readings ==
  ASSUME NEW args \in Seq(Argument)
  PROVE  \E st : /\ st[0] = Fresh
                 /\ \A k \in 1..Len(args) : st[k] = ReadArgument(st[k - 1], args[k])
                 /\ \A k \in 0..Len(args) : st[k] \in [ServerFields -> FieldValues]
                 /\ Server(args) = st[Len(args)]
<1> DEFINE n == Len(args)
           A == [ServerFields -> FieldValues]
           Is(it) == it = [s \in SUBSET (1..n) |->
                             IF s = {} THEN Fresh
                             ELSE ReadArgument(it[s \ {Max(s)}], args[Max(s)])]
           change == [i \in 1..n |-> [a \in A |-> ReadArgument(a, args[i])]]
<1>1. Fresh \in A
  BY FreshFacts
<1>2. \A i \in 1..n : \A a \in A : change[i][a] \in A
  <2>1. ASSUME NEW i \in 1..n, NEW a \in A PROVE change[i][a] \in A
    <3>1. args[i] \in Argument
      OBVIOUS
    <3>2. ReadArgument(a, args[i]) \in A
      BY <3>1, ReadFacts, Zenon
    <3> QED
      BY <3>2
  <2> QED
    BY <2>1
<1>3. n \in Nat /\ DOMAIN args = 1..n
  OBVIOUS
<1>4. PICK iter \in [SUBSET (1..n) -> A] : Folds(iter, n, Fresh, change)
  <2> HIDE DEF n, change, A
  <2>1. \E iter \in [SUBSET (1..n) -> A] : Folds(iter, n, Fresh, change)
    BY <1>1, <1>2, <1>3, FoldExists
  <2> QED
    BY <2>1
<1>5. Server(args) = (CHOOSE it : Is(it))[1..n]
  BY <1>3 DEF Server, FoldLeft, MapThenFoldSet, Fresh
<1>6. Is(iter)
  <2>1. iter = [s \in SUBSET (1..n) |-> IF s = {} THEN Fresh ELSE change[Max(s)][iter[s \ {Max(s)}]]]
    BY <1>4 DEF Folds
  <2>2. ASSUME NEW s \in SUBSET (1..n), s # {}
        PROVE  change[Max(s)][iter[s \ {Max(s)}]] = ReadArgument(iter[s \ {Max(s)}], args[Max(s)])
    <3>1. Max(s) \in 1..n
      BY <1>3, <2>2, MaxOf
    <3>2. iter[s \ {Max(s)}] \in A
      BY <1>4
    <3> QED
      BY <3>1, <3>2
  <2>3. ASSUME NEW s \in SUBSET (1..n)
        PROVE  iter[s] = IF s = {} THEN Fresh ELSE ReadArgument(iter[s \ {Max(s)}], args[Max(s)])
    BY <2>1, <2>2
  <2> QED
    BY <1>4, <2>3
<1> DEFINE the == CHOOSE it : Is(it)
<1>7. Is(the)
  <2> HIDE DEF Is
  <2> QED
    BY <1>6, Zenon
<1> DEFINE st == [k \in 0..n |-> the[1..k]]
<1>8. st[0] = Fresh
  <2>1. the[{}] = Fresh
    BY <1>7
  <2> QED
    BY <1>3, <2>1, 1..0 = {}
<1>9. ASSUME NEW k \in 1..n
      PROVE  st[k] = ReadArgument(st[k - 1], args[k])
  <2>0. /\ Max(1..k) = k /\ (1..k) \ {k} = 1..(k - 1) /\ 1..k # {}
        /\ 1..k \in SUBSET (1..n)
    BY <1>3, FoldRises
  <2>1. the[1..k] = ReadArgument(the[1..(k - 1)], args[k])
    <3>1. \A s \in SUBSET (1..n) :
            the[s] = IF s = {} THEN Fresh ELSE ReadArgument(the[s \ {Max(s)}], args[Max(s)])
      BY <1>7
    <3> HIDE DEF the, st, change, Is, n
    <3>2. the[1..k] = ReadArgument(the[(1..k) \ {Max(1..k)}], args[Max(1..k)])
      BY <2>0, <3>1
    <3> QED
      BY <2>0, <3>2, Zenon
  <2>2. st[k] = the[1..k] /\ st[k - 1] = the[1..(k - 1)]
    BY <1>3
  <2> HIDE DEF the, st
  <2> QED
    BY <2>1, <2>2, Zenon
<1>10. \A k \in 0..n : st[k] \in A
  <2> DEFINE S == {k \in 0..n : st[k] \in A}
  <2> HIDE DEF st
  <2>1. 0 \in S
    BY <1>1, <1>3, <1>8
  <2>2. ASSUME NEW k \in 0..(n - 1), k \in S PROVE k + 1 \in S
    <3>1. k + 1 \in 1..n /\ (k + 1) - 1 = k
      BY <1>3
    <3>2. st[k + 1] = ReadArgument(st[k], args[k + 1])
      BY <1>9, <3>1
    <3>3. st[k] \in A /\ args[k + 1] \in Argument
      BY <2>2, <3>1
    <3>4. ReadArgument(st[k], args[k + 1]) \in A
      BY <3>3, ReadFacts, Zenon
    <3>5. st[k + 1] \in A
      BY <3>2, <3>4, Zenon
    <3> QED
      BY <1>3, <3>1, <3>5
  <2> HIDE DEF S, n
  <2>3. 0 \in Int /\ n \in Int
    BY <1>3
  <2>4. 0..n \subseteq S
    BY <2>1, <2>2, <2>3, Climb
  <2> QED
    BY <2>4 DEF S
<1>11. Server(args) = st[n]
  BY <1>3, <1>5
<1> HIDE DEF st, A
<1> QED
  BY <1>8, <1>9, <1>10, <1>11 DEF A

\* `st` are the states llama-server is in as it reads `args`.
Reads(st, args) ==
  /\ st[0] = Fresh
  /\ \A k \in 1..Len(args) : st[k] = ReadArgument(st[k - 1], args[k])
  /\ \A k \in 0..Len(args) : st[k] \in [ServerFields -> FieldValues]

\* `piece` is what args has from its m-th place on.
Has(args, m, piece) ==
  /\ m \in 0..Len(args) /\ m + Len(piece) <= Len(args)
  /\ \A i \in 1..Len(piece) : args[m + i] = piece[i]

LEMMA GivenRead ==
  ASSUME NEW args \in Seq(Argument), NEW st, Reads(st, args), NEW name \in Valued,
         NEW v, v # NotSet => v \in Int, NEW m, Has(args, m, Passed(name, v)), Free(st[m])
  PROVE  LET k == m + Len(Passed(name, v))
         IN  /\ k \in 0..Len(args) /\ Free(st[k])
             /\ \A f \in ServerFields \ {"waits"} :
                  st[k][f] = IF v # NotSet /\ f = Setting[name] THEN v ELSE st[m][f]
<1>0. Len(args) \in Nat /\ m \in 0..Len(args) /\ m \in Nat
  BY DEF Has
<1>1. CASE v = NotSet
  <2>1. Len(Passed(name, v)) = 0
    BY <1>1 DEF Passed
  <2>2. m + Len(Passed(name, v)) = m
    BY <1>0, <2>1
  <2> QED
    BY <1>0, <1>1, <2>2
<1>2. CASE v # NotSet
  <2>1. Passed(name, v) = <<Flag(name), Value(v)>> /\ Len(Passed(name, v)) = 2
    BY <1>2 DEF Passed
  <2>2. /\ m + 2 <= Len(args) /\ args[m + 1] = Flag(name) /\ args[m + 2] = Value(v)
    <3>1. m + 2 <= Len(args) /\ \A i \in 1..2 : args[m + i] = Passed(name, v)[i]
      BY <2>1 DEF Has
    <3>2. Passed(name, v)[1] = Flag(name) /\ Passed(name, v)[2] = Value(v)
      BY <2>1
    <3>3. args[m + 1] = Passed(name, v)[1]
      BY <3>1
    <3>4. args[m + 2] = Passed(name, v)[2]
      BY <3>1
    <3> QED
      BY <3>1, <3>2, <3>3, <3>4
  <2>3. /\ args[m + 1] \in Argument /\ args[m + 1].name = name /\ args[m + 1].value = NotSet
        /\ args[m + 2] \in Argument /\ args[m + 2].value = v
    <3>1. m + 1 \in 1..Len(args) /\ m + 2 \in 1..Len(args)
      BY <1>0, <2>2
    <3>2. args[m + 1] \in Argument /\ args[m + 2] \in Argument
      BY <3>1
    <3>3. Flag(name).name = name /\ Flag(name).value = NotSet /\ Value(v).value = v
      BY DEF Flag, Value
    <3> QED
      BY <2>2, <3>2, <3>3
  <2>4. /\ st[m + 1] = ReadArgument(st[m], args[m + 1]) /\ st[m] \in [ServerFields -> FieldValues]
        /\ st[m + 2] = ReadArgument(st[m + 1], args[m + 2]) /\ st[m + 1] \in [ServerFields -> FieldValues]
    <3>1. /\ m + 1 \in 1..Len(args) /\ (m + 1) - 1 = m /\ m \in 0..Len(args)
          /\ m + 2 \in 1..Len(args) /\ (m + 2) - 1 = m + 1 /\ m + 1 \in 0..Len(args)
      BY <1>0, <2>2
    <3>2. /\ st[m + 1] = ReadArgument(st[(m + 1) - 1], args[m + 1])
          /\ st[m + 2] = ReadArgument(st[(m + 2) - 1], args[m + 2])
      BY <3>1, Zenon DEF Reads
    <3>3. st[m] \in [ServerFields -> FieldValues] /\ st[m + 1] \in [ServerFields -> FieldValues]
      BY <3>1, Zenon DEF Reads
    <3> QED
      BY <3>1, <3>2, <3>3
  <2>5. /\ st[m + 1]["waits"] = Setting[name]
        /\ \A f \in ServerFields \ {"waits"} : st[m + 1][f] = st[m][f]
    BY <2>3, <2>4, ReadFacts
  <2>6. Setting[name] \in ServerFields \ {"waits"} /\ ~Free(st[m + 1])
    BY <2>5, SettingFacts DEF ServerFields, Free
  <2>7. /\ Free(st[m + 2])
        /\ \A f \in ServerFields \ {"waits"} : st[m + 2][f] = IF f = Setting[name] THEN v ELSE st[m + 1][f]
    BY <2>3, <2>4, <2>5, <2>6, ReadFacts
  <2>8. m + Len(Passed(name, v)) = m + 2 /\ m + 2 \in 0..Len(args)
    BY <1>0, <2>1, <2>2
  <2>9. \A f \in ServerFields \ {"waits"} : st[m + 2][f] = IF f = Setting[name] THEN v ELSE st[m][f]
    BY <2>5, <2>7
  <2> QED
    BY <1>2, <2>7, <2>8, <2>9
<1> QED
  BY <1>1, <1>2

LEMMA Joined ==
  ASSUME NEW S, NEW s \in Seq(S), NEW t \in Seq(S)
  PROVE  /\ s \o t \in Seq(S) /\ Has(s \o t, Len(s), t) /\ Len(s \o t) = Len(s) + Len(t)
         /\ \A m, p : Has(s, m, p) /\ Len(p) \in Nat => Has(s \o t, m, p)
<1>1. /\ s \o t \in Seq(S) /\ Len(s \o t) = Len(s) + Len(t) /\ Len(s) \in Nat /\ Len(t) \in Nat
      /\ \A i \in 1..Len(s) : (s \o t)[i] = s[i]
      /\ \A i \in 1..Len(t) : (s \o t)[Len(s) + i] = t[i]
  OBVIOUS
<1>2. ASSUME NEW m, NEW p, Has(s, m, p), Len(p) \in Nat PROVE Has(s \o t, m, p)
  <2>1. m \in Nat /\ m + Len(p) <= Len(s) /\ \A i \in 1..Len(p) : s[m + i] = p[i]
    BY <1>1, <1>2 DEF Has
  <2>2. \A i \in 1..Len(p) : m + i \in 1..Len(s)
    BY <1>1, <1>2, <2>1
  <2> QED
    BY <1>1, <1>2, <2>1, <2>2 DEF Has
<1> QED
  BY <1>1, <1>2 DEF Has

\* What llama-server knows once it has read the arguments made of a layer's keys.
LEMMA KeysRead ==
  ASSUME NEW layer, IsLayer(layer)
  PROVE  LET args  == LlamaArgs(layer)
             extra == ExtraArgs(layer)
         IN  /\ args \in Seq(Argument) /\ extra \in Arguments
             /\ \A st : Reads(st, args) =>
                  \E b \in Nat :
                    /\ Has(args, b, extra) /\ b + Len(extra) = Len(args) /\ Free(st[b])
                    /\ st[b]["ctx"] = layer["ctx_size"] /\ st[b]["slots"] = layer["n_parallel"]
                    /\ st[b]["mmproj"] = layer["mmproj"] /\ st[b]["cap"] = NotSet
                    /\ st[b]["budget"] = NotSet /\ st[b]["unified"] = "auto"
                    /\ st[b]["jinja"] = TRUE
<1> DEFINE c1 == Passed("--ctx-size", layer["ctx_size"])
           c2 == Passed("--parallel", layer["n_parallel"])
           c3 == Passed("--threads", layer["threads"])
           c4 == Passed("--mmproj", layer["mmproj"])
           extra == ExtraArgs(layer)
           d2 == c1 \o c2
           d3 == d2 \o c3
           d4 == d3 \o c4
           args == d4 \o extra
<1>1. \A k \in {"ctx_size", "n_parallel", "threads", "mmproj"} : layer[k] # NotSet => layer[k] \in Int
  BY DEF IsLayer, SettingKeys, ValuesOf
<1>2. ASSUME NEW name \in Valued, NEW v, v # NotSet => v \in Int
      PROVE  Passed(name, v) \in Seq(Argument) /\ Len(Passed(name, v)) \in Nat
  <2>2. v # NotSet => Flag(name) \in Argument /\ Value(v) \in Argument
    BY <1>2, SettingFacts DEF Flag, Value, Argument
  <2> QED
    BY <2>2 DEF Passed
<1>3. /\ c1 \in Seq(Argument) /\ c2 \in Seq(Argument) /\ c3 \in Seq(Argument) /\ c4 \in Seq(Argument)
      /\ Len(c1) \in Nat /\ Len(c2) \in Nat /\ Len(c3) \in Nat /\ Len(c4) \in Nat
  BY <1>1, <1>2 DEF Valued
<1>4. extra \in Arguments /\ extra \in Seq(Argument) /\ Len(extra) \in Nat
  <2>1. <<>> \in Arguments
    BY DEF Arguments
  <2>2. layer["extra_args"] # NotSet => layer["extra_args"] \in Arguments
    BY DEF IsLayer, SettingKeys, ValuesOf
  <2>3. extra \in Arguments
    BY <2>1, <2>2 DEF ExtraArgs
  <2>4. extra \in Seq(Argument)
    BY <2>3, Zenon DEF Arguments
  <2> HIDE DEF extra
  <2> QED
    BY <2>3, <2>4
<1>5. args = LlamaArgs(layer)
  BY DEF LlamaArgs
<1> HIDE DEF c1, c2, c3, c4, extra, d2, d3, d4, args
<1>6. d2 \in Seq(Argument) /\ Has(d2, 0, c1) /\ Has(d2, Len(c1), c2) /\ Len(d2) = Len(c1) + Len(c2)
  <2>1. Has(c1, 0, c1)
    BY <1>3 DEF Has
  <2> QED
    BY <1>3, <2>1, Joined DEF d2
<1>7. /\ d3 \in Seq(Argument) /\ Has(d3, 0, c1) /\ Has(d3, Len(c1), c2) /\ Has(d3, Len(d2), c3)
      /\ Len(d3) = Len(d2) + Len(c3)
  BY <1>3, <1>6, Joined DEF d3
<1>8. /\ d4 \in Seq(Argument) /\ Has(d4, 0, c1) /\ Has(d4, Len(c1), c2) /\ Has(d4, Len(d2), c3)
      /\ Has(d4, Len(d3), c4) /\ Len(d4) = Len(d3) + Len(c4)
  BY <1>3, <1>7, Joined DEF d4
<1>9. /\ args \in Seq(Argument) /\ Has(args, 0, c1) /\ Has(args, Len(c1), c2)
      /\ Has(args, Len(d2), c3) /\ Has(args, Len(d3), c4) /\ Has(args, Len(d4), extra)
      /\ Len(args) = Len(d4) + Len(extra)
  BY <1>3, <1>4, <1>8, Joined DEF args
<1>10. ASSUME NEW st, Reads(st, args)
       PROVE  \E b \in Nat :
                /\ Has(args, b, extra) /\ b + Len(extra) = Len(args) /\ Free(st[b])
                /\ st[b]["ctx"] = layer["ctx_size"] /\ st[b]["slots"] = layer["n_parallel"]
                /\ st[b]["mmproj"] = layer["mmproj"] /\ st[b]["cap"] = NotSet
                /\ st[b]["budget"] = NotSet /\ st[b]["unified"] = "auto" /\ st[b]["jinja"] = TRUE
  <2>1. Free(st[0]) /\ st[0] = Fresh
    <3>1. Free(Fresh)
      BY DEF Fresh, Free
    <3> QED
      BY <1>10, <3>1 DEF Reads
  <2>2. /\ Free(st[Len(c1)])
        /\ \A f \in ServerFields \ {"waits"} :
             st[Len(c1)][f] = IF layer["ctx_size"] # NotSet /\ f = "ctx" THEN layer["ctx_size"]
                              ELSE st[0][f]
    <3>1. Has(args, 0, Passed("--ctx-size", layer["ctx_size"])) /\ "--ctx-size" \in Valued
      BY <1>9 DEF c1, Valued
    <3>2. 0 + Len(c1) = Len(c1)
      BY <1>3
    <3> QED
      BY <1>1, <1>9, <1>10, <2>1, <3>1, <3>2, GivenRead, SettingFacts DEF c1
  <2>3. /\ Free(st[Len(d2)])
        /\ \A f \in ServerFields \ {"waits"} :
             st[Len(d2)][f] = IF layer["n_parallel"] # NotSet /\ f = "slots" THEN layer["n_parallel"]
                              ELSE st[Len(c1)][f]
    <3>1. Has(args, Len(c1), Passed("--parallel", layer["n_parallel"])) /\ "--parallel" \in Valued
      BY <1>9 DEF c2, Valued
    <3> QED
      BY <1>1, <1>6, <1>9, <1>10, <2>2, <3>1, GivenRead, SettingFacts DEF c2
  <2>4. /\ Free(st[Len(d3)])
        /\ \A f \in ServerFields \ {"waits"} :
             st[Len(d3)][f] = IF layer["threads"] # NotSet /\ f = "threads" THEN layer["threads"]
                              ELSE st[Len(d2)][f]
    <3>1. Has(args, Len(d2), Passed("--threads", layer["threads"])) /\ "--threads" \in Valued
      BY <1>9 DEF c3, Valued
    <3> QED
      BY <1>1, <1>7, <1>9, <1>10, <2>3, <3>1, GivenRead, SettingFacts DEF c3
  <2>5. /\ Free(st[Len(d4)])
        /\ \A f \in ServerFields \ {"waits"} :
             st[Len(d4)][f] = IF layer["mmproj"] # NotSet /\ f = "mmproj" THEN layer["mmproj"]
                              ELSE st[Len(d3)][f]
    <3>1. Has(args, Len(d3), Passed("--mmproj", layer["mmproj"])) /\ "--mmproj" \in Valued
      BY <1>9 DEF c4, Valued
    <3> QED
      BY <1>1, <1>8, <1>9, <1>10, <2>4, <3>1, GivenRead, SettingFacts DEF c4
  <2>6. /\ Fresh["ctx"] = NotSet /\ Fresh["slots"] = NotSet /\ Fresh["mmproj"] = NotSet
        /\ Fresh["cap"] = NotSet /\ Fresh["budget"] = NotSet
        /\ Fresh["unified"] = "auto" /\ Fresh["jinja"] = TRUE
    BY DEF Fresh
  <2> DEFINE end == st[Len(d4)]
  <2>7. /\ end["ctx"] = layer["ctx_size"] /\ end["slots"] = layer["n_parallel"]
        /\ end["mmproj"] = layer["mmproj"] /\ end["cap"] = NotSet
        /\ end["budget"] = NotSet /\ end["unified"] = "auto"
    BY <2>1, <2>2, <2>3, <2>4, <2>5, <2>6 DEF ServerFields
  <2>8. end["jinja"] = TRUE
    BY <2>1, <2>2, <2>3, <2>4, <2>5, <2>6 DEF ServerFields
  <2> QED
    BY <1>9, <2>5, <2>7, <2>8, Len(d4) \in Nat, Len(args) \in Nat
<1> QED
  BY <1>4, <1>5, <1>9, <1>10 DEF extra

-----------------------------------------------------------------------------
(* The raw arguments, which are read last.                                 *)

\* A flag whose value is the next argument.
Opens(arg) == arg.name \in Valued /\ arg.value = NotSet

LEMMA ArgumentFacts ==
  ASSUME NEW e \in Arguments
  PROVE  /\ e \in Seq(Argument) /\ Len(e) \in Nat /\ DOMAIN e = 1..Len(e)
         /\ \A i \in 1..Len(e) :
              /\ e[i] \in Argument
              /\ Opens(e[i]) => /\ i < Len(e) /\ i + 1 \in 1..Len(e)
                                /\ e[i + 1].name = "" /\ e[i + 1].value # NotSet
              /\ e[i].name \in Switches => e[i].value = NotSet
              /\ e[i].name \in {"-c", "--ctx-size"} =>
                   (IF e[i].value # NotSet THEN e[i].value ELSE e[i + 1].value) \in Nat
<1>1. e \in Seq(Argument)
  BY Zenon DEF Arguments
<1>2. Len(e) \in Nat /\ DOMAIN e = 1..Len(e) /\ \A i \in 1..Len(e) : e[i] \in Argument
  BY <1>1
<1>3. ASSUME NEW i \in DOMAIN e
      PROVE  /\ e[i].name \in DOMAIN Setting /\ e[i].value = NotSet =>
                  i < Len(e) /\ e[i + 1].name = "" /\ e[i + 1].value # NotSet
             /\ e[i].name \in {"-c", "--ctx-size"} =>
                  (IF e[i].value # NotSet THEN e[i].value ELSE e[i + 1].value) \in Nat
             /\ e[i].name \in Switches => e[i].value = NotSet
  BY Zenon DEF Arguments
<1>4. ASSUME NEW i \in 1..Len(e), Opens(e[i])
      PROVE  i < Len(e) /\ i + 1 \in 1..Len(e) /\ e[i + 1].name = "" /\ e[i + 1].value # NotSet
  <2>1. e[i].name \in DOMAIN Setting /\ e[i].value = NotSet
    BY <1>4, SettingFacts DEF Opens
  <2>2. i < Len(e) /\ e[i + 1].name = "" /\ e[i + 1].value # NotSet
    BY <1>2, <1>3, <2>1
  <2>3. i < Len(e)
    BY <2>2
  <2>4. i + 1 \in 1..Len(e)
    BY ONLY <1>2, <2>3, i \in 1..Len(e)
  <2> QED
    BY <2>2, <2>4
<1>5. ASSUME NEW i \in 1..Len(e)
      PROVE  /\ e[i].name \in Switches => e[i].value = NotSet
             /\ e[i].name \in {"-c", "--ctx-size"} =>
                  (IF e[i].value # NotSet THEN e[i].value ELSE e[i + 1].value) \in Nat
  BY <1>2, <1>3
<1> QED
  BY <1>1, <1>2, <1>4, <1>5

\* `st` from b on: llama-server reads e, the last of its arguments.
ReadsLast(st, b, e) ==
  /\ b \in Nat /\ Free(st[b])
  /\ \A k \in 1..Len(e) : st[b + k] = ReadArgument(st[b + (k - 1)], e[k])
  /\ \A k \in 0..Len(e) : st[b + k] \in [ServerFields -> FieldValues]

LEMMA TailRead ==
  ASSUME NEW args \in Seq(Argument), NEW e \in Seq(Argument), NEW st, Reads(st, args),
         NEW b \in Nat, Has(args, b, e), b + Len(e) = Len(args), Free(st[b])
  PROVE  ReadsLast(st, b, e)
<1>1. Len(args) \in Nat /\ Len(e) \in Nat
  OBVIOUS
<1>2. ASSUME NEW k \in 1..Len(e) PROVE st[b + k] = ReadArgument(st[b + (k - 1)], e[k])
  <2>1. b + k \in 1..Len(args) /\ (b + k) - 1 = b + (k - 1)
    BY <1>1
  <2>2. st[b + k] = ReadArgument(st[(b + k) - 1], args[b + k])
    BY <2>1, Zenon DEF Reads
  <2>3. args[b + k] = e[k]
    BY DEF Has
  <2> QED
    BY <2>1, <2>2, <2>3
<1>3. ASSUME NEW k \in 0..Len(e) PROVE st[b + k] \in [ServerFields -> FieldValues]
  <2>1. b + k \in 0..Len(args)
    BY <1>1
  <2> QED
    BY <2>1, Zenon DEF Reads
<1> QED
  BY <1>2, <1>3 DEF ReadsLast

\* The server waits exactly for the value of the flag it has just read.
LEMMA WaitsForValue ==
  ASSUME NEW e \in Arguments, NEW st, NEW b, ReadsLast(st, b, e)
  PROVE  \A k \in 0..Len(e) : IF k > 0 /\ Opens(e[k]) THEN st[b + k]["waits"] = Setting[e[k].name]
                              ELSE Free(st[b + k])
<1> DEFINE Right(k) == IF k > 0 /\ Opens(e[k]) THEN st[b + k]["waits"] = Setting[e[k].name]
                       ELSE Free(st[b + k])
           S == {k \in 0..Len(e) : Right(k)}
<1>1. Len(e) \in Nat /\ b \in Nat
  BY ArgumentFacts DEF ReadsLast
<1>2. 0 \in S
  <2>1. b + 0 = b
    BY <1>1
  <2> QED
    BY <1>1, <2>1 DEF ReadsLast
<1>3. ASSUME NEW k \in 0..(Len(e) - 1), k \in S PROVE k + 1 \in S
  <2> DEFINE prior == st[b + k]
             new == st[b + (k + 1)]
             arg == e[k + 1]
  <2>1. k + 1 \in 1..Len(e) /\ (k + 1) - 1 = k /\ k \in 0..Len(e) /\ k + 1 \in 0..Len(e) /\ k + 1 > 0
    BY <1>1
  <2>2. new = ReadArgument(prior, arg) /\ prior \in [ServerFields -> FieldValues] /\ arg \in Argument
    BY <2>1, ArgumentFacts, Zenon DEF ReadsLast
  <2>3. Right(k)
    BY <1>3
  <2>4. CASE k > 0 /\ Opens(e[k])
    <3>0. k \in 1..Len(e)
      BY <1>1, <2>1, <2>4
    <3>1. arg.name = ""
      BY <2>4, <3>0, ArgumentFacts
    <3>2. ~Opens(arg)
      BY <3>1 DEF Opens, Valued
    <3>3. prior["waits"] = Setting[e[k].name]
      BY <2>3, <2>4
    <3>4. prior["waits"] \in ServerFields /\ ~Free(prior)
      BY <2>4, <3>3, SettingFacts DEF Opens, Free, ServerFields
    <3> HIDE DEF prior, new, arg
    <3>5. Free(new)
      BY <2>2, <3>4, ReadFacts
    <3> QED
      BY <2>1, <3>2, <3>5 DEF new, arg
  <2>5. CASE ~(k > 0 /\ Opens(e[k]))
    <3>1. Free(prior)
      BY <2>3, <2>5
    <3> HIDE DEF prior, new, arg
    <3>2. Opens(arg) => new["waits"] = Setting[arg.name]
      BY <2>2, <3>1, ReadFacts DEF Opens
    <3>3. ~Opens(arg) => new["waits"] = prior["waits"]
      <4>1. CASE arg.name \in Valued
        <5>1. "waits" \in ServerFields /\ \A n \in Valued : Setting[n] # "waits"
          BY SettingFacts DEF ServerFields
        <5> QED
          BY <2>2, <3>1, <4>1, <5>1, ReadFacts DEF Opens
      <4>2. CASE arg.name \notin Valued
        <5>1. "waits" \in ServerFields \ {"unified", "jinja", "mmproj"}
          BY DEF ServerFields
        <5> QED
          BY <2>2, <3>1, <4>2, <5>1, SwitchFacts
      <4> QED
        BY <4>1, <4>2
    <3>4. ~Opens(arg) => Free(new)
      BY <3>1, <3>3 DEF Free
    <3> QED
      BY <2>1, <3>2, <3>4 DEF new, arg
  <2> QED
    BY <2>4, <2>5
<1> HIDE DEF S
<1>4. 0..Len(e) \subseteq S
  <2>1. 0 \in Int /\ Len(e) \in Int
    BY <1>1
  <2> QED
    BY <1>2, <1>3, <2>1, Climb
<1> QED
  BY <1>4 DEF S

OnNames == {"-kvu", "--kv-unified"}
OffNames == {"-no-kvu", "--no-kv-unified"}

\* What the k-th argument does to a setting.
ReadAs(e, k, f, prior, new) ==
  /\ k > 1 /\ Opens(e[k - 1]) =>
       /\ e[k].name = ""
       /\ new[f] = IF f = Setting[e[k - 1].name] THEN e[k].value
                        ELSE prior[f]
  /\ ~(k > 1 /\ Opens(e[k - 1])) =>
       /\ e[k].name \in Valued =>
            new[f] = IF ~Opens(e[k]) /\ f = Setting[e[k].name] THEN e[k].value
                           ELSE prior[f]
       /\ e[k].name \notin Valued =>
            /\ f \notin {"unified", "jinja", "mmproj"} => new[f] = prior[f]
            /\ f = "unified" => new[f] = IF e[k].name \in OnNames THEN "on"
                                              ELSE IF e[k].name \in OffNames THEN "off"
                                              ELSE prior[f]
            /\ f = "jinja" => new[f] = IF e[k].name = "--jinja" THEN TRUE
                                            ELSE IF e[k].name = "--no-jinja" THEN FALSE
                                            ELSE prior[f]
            /\ f = "mmproj" => new[f] = IF e[k].name = "--no-mmproj" THEN NotSet
                                             ELSE prior[f]

LEMMA ArgumentRead ==
  ASSUME NEW e \in Arguments, NEW st, NEW b, ReadsLast(st, b, e), NEW k \in 1..Len(e),
         NEW f \in ServerFields \ {"waits"}
  PROVE  ReadAs(e, k, f, st[b + (k - 1)], st[b + k])
<1> DEFINE prior == st[b + (k - 1)]
           new == st[b + k]
<1>1. /\ Len(e) \in Nat /\ k - 1 \in 0..Len(e) /\ (k - 1) + 1 = k
      /\ k > 1 => k - 1 \in 1..Len(e)
      /\ k > 1 <=> k - 1 > 0
  <2>1. Len(e) \in Nat
    BY ArgumentFacts
  <2> QED
    BY ONLY <2>1, k \in 1..Len(e)
<1>2. new = ReadArgument(prior, e[k]) /\ prior \in [ServerFields -> FieldValues] /\ e[k] \in Argument
  BY <1>1, ArgumentFacts, Zenon DEF ReadsLast
<1>3. IF k > 1 /\ Opens(e[k - 1]) THEN prior["waits"] = Setting[e[k - 1].name] ELSE Free(prior)
  BY <1>1, WaitsForValue
<1> HIDE DEF prior, new
<1>4. ASSUME k > 1, Opens(e[k - 1])
      PROVE  e[k].name = "" /\ new[f] = IF f = Setting[e[k - 1].name] THEN e[k].value ELSE prior[f]
  <2>1. e[k].name = ""
    BY <1>1, <1>4, ArgumentFacts
  <2>2. prior["waits"] = Setting[e[k - 1].name] /\ prior["waits"] \in ServerFields /\ ~Free(prior)
    BY <1>3, <1>4, SettingFacts DEF Opens, Free, ServerFields
  <2>3. ReadArgument(prior, e[k])[f] = IF f = prior["waits"] THEN e[k].value ELSE prior[f]
    BY <1>2, <2>2, ReadFacts
  <2> QED
    BY <1>2, <2>1, <2>2, <2>3
<1>5. ASSUME ~(k > 1 /\ Opens(e[k - 1])), e[k].name \in Valued
      PROVE  new[f] = IF ~Opens(e[k]) /\ f = Setting[e[k].name] THEN e[k].value ELSE prior[f]
  BY <1>2, <1>3, <1>5, ReadFacts DEF Opens
<1>6. ASSUME ~(k > 1 /\ Opens(e[k - 1])), e[k].name \notin Valued
      PROVE  /\ f \notin {"unified", "jinja", "mmproj"} => new[f] = prior[f]
             /\ f = "unified" => new[f] = IF e[k].name \in OnNames THEN "on"
                                         ELSE IF e[k].name \in OffNames THEN "off" ELSE prior[f]
             /\ f = "jinja" => new[f] = IF e[k].name = "--jinja" THEN TRUE
                                       ELSE IF e[k].name = "--no-jinja" THEN FALSE ELSE prior[f]
             /\ f = "mmproj" => new[f] = IF e[k].name = "--no-mmproj" THEN NotSet ELSE prior[f]
  <2>1. Free(prior)
    BY <1>3, <1>6
  <2> DEFINE res == ReadArgument(prior, e[k])
  <2>2. /\ \A g \in ServerFields \ {"unified", "jinja", "mmproj"} : res[g] = prior[g]
        /\ res["unified"] = IF e[k].name \in OnNames THEN "on"
                            ELSE IF e[k].name \in OffNames THEN "off" ELSE prior["unified"]
        /\ res["jinja"] = IF e[k].name = "--jinja" THEN TRUE
                          ELSE IF e[k].name = "--no-jinja" THEN FALSE ELSE prior["jinja"]
        /\ res["mmproj"] = IF e[k].name = "--no-mmproj" THEN NotSet ELSE prior["mmproj"]
    BY <1>2, <1>6, <2>1, SwitchFacts, Zenon DEF OnNames, OffNames
  <2>3. new = res
    BY <1>2
  <2> HIDE DEF res
  <2> QED
    BY <2>2, <2>3, Zenon
<1> QED
  BY <1>4, <1>5, <1>6, Zenon DEF prior, new, ReadAs

\* The places in e of certain flags.
PlacesOf(e, names) == {i \in 1..Len(e) : e[i].name \in names}

\* The value that goes with a flag.
ValueAt(e, i) == IF e[i].value # NotSet THEN e[i].value ELSE e[i + 1].value

\* `end` is what the last flag of these makes of `start`.
FlagCounts(e, names, offs, start, end) ==
  /\ PlacesOf(e, names \cup offs) = {} => end = start
  /\ \A i \in PlacesOf(e, names \cup offs) : (\A j \in PlacesOf(e, names \cup offs) : j <= i) =>
       end = IF e[i].name \in offs THEN NotSet ELSE ValueAt(e, i)

\* What is said of a switch: `put` is what each name makes of `start`.
SwitchCounts(e, names, put, start, end) ==
  /\ PlacesOf(e, names) = {} => end = start
  /\ \A i \in PlacesOf(e, names) : (\A j \in PlacesOf(e, names) : j <= i) => end = put[e[i].name]

SwitchPuts(field, name) ==
  IF field = "unified" THEN IF name \in OnNames THEN "on" ELSE "off" ELSE name = "--jinja"

\* Of the flags that set a field, and of those that take the setting back, the last counts.
LEMMA LastFlagWins ==
  ASSUME NEW e \in Arguments, NEW st, NEW b, ReadsLast(st, b, e),
         NEW field \in ServerFields \ {"waits", "unified", "jinja"},
         NEW names, names = {n \in Valued : Setting[n] = field},
         NEW offs, offs = IF field = "mmproj" THEN {"--no-mmproj"} ELSE {}
  PROVE  FlagCounts(e, names, offs, st[b][field], st[b + Len(e)][field])
<1> DEFINE n == Len(e)
           Setters == PlacesOf(e, names \cup offs)
           Open == {i \in Setters : Opens(e[i])}
           out == [i \in 1..n |-> IF e[i].name \in offs THEN NotSet ELSE ValueAt(e, i)]
           val == [k \in 0..n |-> st[b + k][field]]
<1>1. n \in Nat /\ b \in Nat /\ Setters \in SUBSET (1..n) /\ Open \in SUBSET Setters
  BY ArgumentFacts DEF ReadsLast, PlacesOf
<1>2. /\ offs \cap Valued = {} /\ "" \notin names \cup offs /\ names \subseteq Valued
      /\ \A m \in Valued : m \in names <=> Setting[m] = field
  BY DEF Valued
<1>3. \A k \in 1..n : k - 1 \in 0..n /\ (k - 1) + 1 = k /\ (k - 1 \in 1..n <=> k > 1)
  BY <1>1
<1>4. \A k \in 1..n : val[k] = st[b + k][field] /\ val[k - 1] = st[b + (k - 1)][field]
  BY <1>3
<1>5. \A k \in 1..n : /\ k \in Setters <=> e[k].name \in names \cup offs
                      /\ k \in Open <=> e[k].name \in names /\ Opens(e[k])
  BY <1>2 DEF PlacesOf, Opens
<1>6. \A k \in 1..n : out[k] = IF e[k].name \in offs THEN NotSet ELSE ValueAt(e, k)
  OBVIOUS
<1>7. val[n] = st[b + n][field] /\ val[0] = st[b][field]
  <2>1. b + 0 = b
    BY <1>1
  <2> QED
    BY <1>1, <2>1
<1> HIDE DEF n, Setters, Open, out, val
<1>8. \A i \in Open : i < n /\ i + 1 \in 1..n /\ e[i + 1].name = ""
  <2>1. ASSUME NEW i \in Open PROVE i < n /\ i + 1 \in 1..n /\ e[i + 1].name = ""
    <3>1. i \in 1..n /\ Opens(e[i])
      BY <1>1, <1>5
    <3> QED
      BY <3>1, ArgumentFacts DEF n
  <2> QED
    BY <2>1
<1>9. n \notin Open /\ \A i \in Open : i + 1 \notin Setters
  <2>1. n \notin Open
    <3>1. n \in Open => n < n
      BY <1>8
    <3>2. n \in Nat
      BY <1>1
    <3> QED
      BY ONLY <3>1, <3>2
  <2>2. \A i \in Open : i + 1 \notin Setters
    <3>1. ASSUME NEW i \in Open PROVE i + 1 \notin Setters
      <4>1. i + 1 \in 1..n /\ e[i + 1].name = ""
        BY <1>8
      <4>2. "" \notin names \cup offs
        BY <1>2
      <4>3. i + 1 \in Setters => e[i + 1].name \in names \cup offs
        BY <1>5, <4>1
      <4> QED
        BY <4>1, <4>2, <4>3, Zenon
    <3> QED
      BY <3>1
  <2> QED
    BY <2>1, <2>2
<1>10. ASSUME NEW k \in 1..n
       PROVE  /\ k \in Setters \ Open => val[k] = out[k]
              /\ k - 1 \in Open => val[k] = out[k - 1]
              /\ (k \notin Setters \/ k \in Open) /\ k - 1 \notin Open => val[k] = val[k - 1]
  <2> DEFINE new == st[b + k][field]
             prior == st[b + (k - 1)][field]
  <2>0. ReadAs(e, k, field, st[b + (k - 1)], st[b + k])
    <3>1. k \in 1..Len(e) /\ field \in ServerFields \ {"waits"}
      BY <1>2 DEF n
    <3> QED
      BY <3>1, ArgumentRead, Zenon
  <2>1. val[k] = new /\ val[k - 1] = prior
    BY <1>4
  <2>2. k \in 1..Len(e) /\ field \in ServerFields \ {"waits"}
    BY DEF n
  <2>3. k - 1 \in Open <=> k > 1 /\ Opens(e[k - 1]) /\ Setting[e[k - 1].name] = field
    <3>1. k - 1 \in Open => k > 1 /\ Opens(e[k - 1]) /\ e[k - 1].name \in names
      BY <1>1, <1>3, <1>5
    <3>2. k > 1 /\ Opens(e[k - 1]) /\ e[k - 1].name \in names => k - 1 \in Open
      BY <1>3, <1>5
    <3>3. Opens(e[k - 1]) => (e[k - 1].name \in names <=> Setting[e[k - 1].name] = field)
      BY <1>2 DEF Opens
    <3> QED
      BY <3>1, <3>2, <3>3
  <2>4. CASE k > 1 /\ Opens(e[k - 1])
    <3>1. e[k].name = "" /\ new = IF field = Setting[e[k - 1].name] THEN e[k].value ELSE prior
      BY <2>0, <2>4, Zenon DEF ReadAs
    <3>2. k \notin Setters
      <4>1. "" \notin names \cup offs
        BY <1>2
      <4>2. k \in Setters => e[k].name \in names \cup offs
        BY <1>5
      <4> QED
        BY <3>1, <4>1, <4>2, Zenon
    <3>3. ASSUME k - 1 \in Open PROVE out[k - 1] = e[k].value
      <4>1. k - 1 \in 1..n /\ (k - 1) + 1 = k
        BY <1>3, <2>4
      <4>2. e[k - 1].name \notin offs /\ e[k - 1].value = NotSet
        BY <1>2, <2>4 DEF Opens
      <4>3. out[k - 1] = ValueAt(e, k - 1)
        BY <1>6, <4>1, <4>2
      <4>4. ValueAt(e, k - 1) = e[k].value
        BY <4>1, <4>2 DEF ValueAt
      <4> QED
        BY <4>3, <4>4
    <3> HIDE DEF new, prior
    <3> QED
      BY <2>1, <2>3, <2>4, <3>1, <3>2, <3>3
  <2>5. CASE ~(k > 1 /\ Opens(e[k - 1])) /\ e[k].name \in Valued
    <3>1. new = IF ~Opens(e[k]) /\ field = Setting[e[k].name] THEN e[k].value ELSE prior
      BY <2>0, <2>5, Zenon DEF ReadAs
    <3>2. /\ k \in Setters <=> Setting[e[k].name] = field
          /\ k \in Open <=> Setting[e[k].name] = field /\ Opens(e[k])
      BY <1>2, <1>5, <2>5
    <3>3. ~Opens(e[k]) => out[k] = e[k].value
      BY <1>2, <1>6, <2>5 DEF ValueAt, Opens
    <3> HIDE DEF new, prior
    <3> QED
      BY <2>1, <2>3, <2>5, <3>1, <3>2, <3>3
  <2>6. CASE ~(k > 1 /\ Opens(e[k - 1])) /\ e[k].name \notin Valued
    <3>1. k \notin Open /\ (k \in Setters <=> e[k].name \in offs) /\ (e[k].name \in offs => out[k] = NotSet)
      BY <1>2, <1>5, <1>6, <2>6
    <3>2. CASE field = "mmproj"
      <4>1. new = IF e[k].name = "--no-mmproj" THEN NotSet ELSE prior
        BY <2>0, <2>6, <3>2, Zenon DEF ReadAs
      <4>2. e[k].name \in offs <=> e[k].name = "--no-mmproj"
        BY <3>2
      <4> HIDE DEF new, prior
      <4> QED
        BY <2>1, <2>3, <2>6, <3>1, <4>1, <4>2
    <3>3. CASE field # "mmproj"
      <4>1. new = prior
        <5>1. field \notin {"unified", "jinja", "mmproj"}
          BY <3>3
        <5> QED
          BY <2>0, <2>6, <5>1, Zenon DEF ReadAs
      <4>2. e[k].name \notin offs
        BY <3>3
      <4> HIDE DEF new, prior
      <4> QED
        BY <2>1, <2>3, <2>6, <3>1, <4>1, <4>2
    <3> QED
      BY <3>2, <3>3
  <2> QED
    BY <2>4, <2>5, <2>6
<1>11. /\ \A k \in Setters \ Open : val[k] = out[k]
       /\ \A k \in 1..n : (k \notin Setters \/ k \in Open) /\ k - 1 \notin Open => val[k] = val[k - 1]
  BY <1>1, <1>10
<1>12. \A k \in Open : val[k + 1] = out[k]
  <2>1. ASSUME NEW k \in Open PROVE val[k + 1] = out[k]
    <3>1. k + 1 \in 1..n
      BY <1>8
    <3>2. (k + 1) - 1 = k
      <4>1. k \in Int
        BY <1>1
      <4> QED
        BY ONLY <4>1
    <3> QED
      BY <1>10, <3>1, <3>2
  <2> QED
    BY <2>1
<1>13. /\ Setters = {} => val[n] = val[0]
       /\ \A i \in Setters : (\A j \in Setters : j <= i) => val[n] = out[i]
  <2>1. SetInSteps(n, Setters, Open, out, val)
    BY <1>1, <1>9, <1>11, <1>12 DEF SetInSteps
  <2> QED
    BY <2>1, LastWins DEF LastCounts
<1>14. \A i \in Setters : out[i] = IF e[i].name \in offs THEN NotSet ELSE ValueAt(e, i)
  BY <1>1, <1>6
<1> QED
  BY <1>7, <1>13, <1>14 DEF n, Setters, FlagCounts

LEMMA LastSwitchWins ==
  ASSUME NEW e \in Arguments, NEW st, NEW b, ReadsLast(st, b, e), NEW field \in {"unified", "jinja"},
         NEW names, names = (IF field = "unified" THEN OnNames \cup OffNames
                             ELSE {"--jinja", "--no-jinja"}),
         NEW put, \A name \in names : put[name] = SwitchPuts(field, name)
  PROVE  SwitchCounts(e, names, put, st[b][field], st[b + Len(e)][field])
<1> DEFINE n == Len(e)
           Setters == PlacesOf(e, names)
           out == [i \in 1..n |-> put[e[i].name]]
           val == [k \in 0..n |-> st[b + k][field]]
<1>1. n \in Nat /\ b \in Nat /\ Setters \in SUBSET (1..n)
  BY ArgumentFacts DEF ReadsLast, PlacesOf
<1>2. /\ names \cap Valued = {} /\ "" \notin names
      /\ field \in ServerFields \ {"waits"} /\ \A m \in Valued : Setting[m] # field
  <2>1. field \in ServerFields \ {"waits"} /\ \A m \in Valued : Setting[m] # field
    BY SettingFacts DEF ServerFields
  <2> QED
    BY <2>1 DEF Valued, OnNames, OffNames
<1>3. \A k \in 1..n : k - 1 \in 0..n
  BY <1>1
<1>4. \A k \in 1..n : val[k] = st[b + k][field] /\ val[k - 1] = st[b + (k - 1)][field]
  BY <1>3
<1>5. \A k \in 1..n : (k \in Setters <=> e[k].name \in names) /\ out[k] = put[e[k].name]
  BY DEF PlacesOf
<1>6. val[n] = st[b + n][field] /\ val[0] = st[b][field]
  <2>1. b + 0 = b
    BY <1>1
  <2> QED
    BY <1>1, <2>1
<1> HIDE DEF n, Setters, out, val
<1>7. ASSUME NEW k \in 1..n PROVE val[k] = IF k \in Setters THEN out[k] ELSE val[k - 1]
  <2> DEFINE new == st[b + k][field]
             prior == st[b + (k - 1)][field]
  <2>0. ReadAs(e, k, field, st[b + (k - 1)], st[b + k])
    <3>1. k \in 1..Len(e) /\ field \in ServerFields \ {"waits"}
      BY <1>2 DEF n
    <3> QED
      BY <3>1, ArgumentRead, Zenon
  <2>1. val[k] = new /\ val[k - 1] = prior
    BY <1>4
  <2>2. k \in 1..Len(e) /\ (k > 1 => k - 1 \in 1..Len(e))
    BY <1>1 DEF n
  <2>3. CASE k > 1 /\ Opens(e[k - 1])
    <3>1. e[k].name = "" /\ new = IF field = Setting[e[k - 1].name] THEN e[k].value ELSE prior
      BY <2>0, <2>3, Zenon DEF ReadAs
    <3>2. Setting[e[k - 1].name] # field
      BY <1>2, <2>3 DEF Opens
    <3>3. k \notin Setters
      BY <1>2, <1>5, <3>1
    <3> HIDE DEF new, prior
    <3> QED
      BY <2>1, <3>1, <3>2, <3>3
  <2>4. CASE ~(k > 1 /\ Opens(e[k - 1])) /\ e[k].name \in Valued
    <3>1. new = IF ~Opens(e[k]) /\ field = Setting[e[k].name] THEN e[k].value ELSE prior
      BY <2>0, <2>4, Zenon DEF ReadAs
    <3>2. Setting[e[k].name] # field /\ k \notin Setters
      BY <1>2, <1>5, <2>4
    <3> HIDE DEF new, prior
    <3> QED
      BY <2>1, <3>1, <3>2
  <2>5. CASE ~(k > 1 /\ Opens(e[k - 1])) /\ e[k].name \notin Valued
    <3>1. k \in Setters => out[k] = put[e[k].name] /\ e[k].name \in names
      BY <1>5
    <3>2. CASE field = "unified"
      <4>1. new = IF e[k].name \in OnNames THEN "on" ELSE IF e[k].name \in OffNames THEN "off" ELSE prior
        BY <2>0, <2>5, <3>2, Zenon DEF ReadAs
      <4>2. k \in Setters <=> e[k].name \in OnNames \cup OffNames
        BY <1>5, <3>2
      <4>3. k \in Setters => out[k] = IF e[k].name \in OnNames THEN "on" ELSE "off"
        BY <3>1, <3>2 DEF SwitchPuts
      <4> HIDE DEF new, prior
      <4> QED
        BY <2>1, <4>1, <4>2, <4>3
    <3>3. CASE field = "jinja"
      <4>1. new = IF e[k].name = "--jinja" THEN TRUE ELSE IF e[k].name = "--no-jinja" THEN FALSE ELSE prior
        BY <2>0, <2>5, <3>3, Zenon DEF ReadAs
      <4>2. k \in Setters <=> e[k].name \in {"--jinja", "--no-jinja"}
        BY <1>5, <3>3
      <4>3. k \in Setters => out[k] = (e[k].name = "--jinja")
        <5>1. field # "unified"
          BY <3>3
        <5> QED
          BY <3>1, <5>1, Zenon DEF SwitchPuts
      <4>4. "--jinja" # "--no-jinja"
        OBVIOUS
      <4> HIDE DEF new, prior
      <4>5. CASE e[k].name = "--jinja"
        BY <2>1, <4>1, <4>2, <4>3, <4>5, Zenon
      <4>6. CASE e[k].name = "--no-jinja"
        BY <2>1, <4>1, <4>2, <4>3, <4>4, <4>6, Zenon
      <4>7. CASE e[k].name \notin {"--jinja", "--no-jinja"}
        BY <2>1, <4>1, <4>2, <4>7, Zenon
      <4> QED
        BY <4>5, <4>6, <4>7
    <3> QED
      BY <3>2, <3>3
  <2> QED
    BY <2>3, <2>4, <2>5
<1>8. /\ Setters = {} => val[n] = val[0]
      /\ \A i \in Setters : (\A j \in Setters : j <= i) => val[n] = out[i]
  <2>1. SetInSteps(n, Setters, {}, out, val)
    <3>1. n \in Nat /\ Setters \in SUBSET (1..n) /\ \A k \in 1..n : k \in Setters => val[k] = out[k]
      BY <1>1, <1>7
    <3>2. \A k \in 1..n : k \notin Setters => val[k] = val[k - 1]
      BY <1>7
    <3> QED
      BY <3>1, <3>2 DEF SetInSteps
  <2> QED
    BY <2>1, LastWins DEF LastCounts
<1>9. \A i \in Setters : out[i] = put[e[i].name]
  BY <1>1, <1>5
<1> QED
  BY <1>6, <1>8, <1>9 DEF n, Setters, SwitchCounts

\* m is the greatest of S, 0 when there is none.
LastOf(m, S) == IF S = {} THEN m = 0 ELSE m \in S /\ \A j \in S : j <= m

LEMMA MaxWithNone ==
  ASSUME NEW n \in Nat, NEW S \in SUBSET (1..n)
  PROVE  LastOf(Max({0} \cup S), S)
<1>1. CASE S = {}
  <2>1. {0} \cup S = {0}
    BY <1>1
  <2>2. \E x \in {0} : \A y \in {0} : x >= y
    OBVIOUS
  <2>3. Max({0}) \in {0}
    BY <2>2, Zenon DEF Max
  <2> QED
    BY <1>1, <2>1, <2>3 DEF LastOf
<1>2. CASE S # {}
  <2>1. Max(S) \in S /\ \A y \in S : Max(S) >= y
    BY <1>2, MaxOf
  <2>0. \A y \in S : y \in Int /\ y >= 1
    OBVIOUS
  <2> DEFINE T == {0} \cup S
  <2> HIDE DEF T
  <2>2. \E x \in T : \A y \in T : x >= y
    <3>1. Max(S) >= 0
      <4>1. Max(S) \in Int /\ Max(S) >= 1
        BY <2>0, <2>1, Zenon
      <4> QED
        BY ONLY <4>1
    <3>2. Max(S) \in T /\ \A y \in T : y = 0 \/ y \in S
      BY <2>1 DEF T
    <3>3. Max(S) \in T /\ \A y \in T : Max(S) >= y
      BY <2>1, <3>1, <3>2
    <3> QED
      BY <3>3, Zenon
  <2>3. Max(T) \in T /\ \A y \in T : Max(T) >= y
    BY <2>2, Zenon DEF Max
  <2>4. Max(T) # 0
    <3>1. Max(S) \in S /\ Max(S) \in Int /\ Max(S) >= 1 /\ Max(S) \in T
      BY <2>0, <2>1 DEF T
    <3>2. Max(T) >= Max(S)
      BY <2>3, <3>1
    <3> QED
      BY ONLY <3>1, <3>2
  <2> QED
    BY <1>2, <2>3, <2>4 DEF T, LastOf
<1> QED
  BY <1>1, <1>2

\* describe_model and llama-server look at the same places.
LEMMA FlagsFound ==
  ASSUME NEW e \in Arguments, NEW names \in SUBSET Valued
  PROVE  /\ LastOf(LastFlag(e, names), PlacesOf(e, names))
         /\ FlagValue(e, names) = IF LastFlag(e, names) = 0 THEN NotSet
                                  ELSE ValueAt(e, LastFlag(e, names))
         /\ \A i \in PlacesOf(e, names) :
              /\ ValueAt(e, i) # NotSet /\ ValueAt(e, i) \in Int
              /\ e[i].name \in {"-c", "--ctx-size"} => ValueAt(e, i) \in Nat
<1>1. Len(e) \in Nat /\ DOMAIN e = 1..Len(e)
  BY ArgumentFacts
<1> DEFINE S == {i \in DOMAIN e : /\ e[i].name \in names
                                  /\ e[i].value # NotSet \/ i < Len(e)}
<1>2. S = PlacesOf(e, names)
  <2>1. \A i \in 1..Len(e) : e[i].name \in names /\ e[i].value = NotSet => i < Len(e)
    BY ArgumentFacts DEF Opens
  <2> QED
    BY <1>1, <2>1 DEF PlacesOf
<1>3. S \in SUBSET (1..Len(e))
  BY <1>1
<1>4. LastFlag(e, names) = Max({0} \cup S)
  BY DEF LastFlag
<1> HIDE DEF S
<1>5. LastOf(LastFlag(e, names), PlacesOf(e, names))
  BY <1>1, <1>2, <1>3, <1>4, MaxWithNone
<1>6. FlagValue(e, names) = IF LastFlag(e, names) = 0 THEN NotSet ELSE ValueAt(e, LastFlag(e, names))
  BY DEF FlagValue, ValueAt
<1>7. ASSUME NEW i \in PlacesOf(e, names)
      PROVE  /\ ValueAt(e, i) # NotSet /\ ValueAt(e, i) \in Int
             /\ e[i].name \in {"-c", "--ctx-size"} => ValueAt(e, i) \in Nat
  <2>1. i \in 1..Len(e) /\ e[i].name \in Valued
    BY DEF PlacesOf
  <2>2. e[i].value = NotSet => i + 1 \in 1..Len(e) /\ e[i + 1].value # NotSet
    BY <2>1, ArgumentFacts DEF Opens
  <2>3. \A j \in 1..Len(e) : e[j].value \in Int \cup {NotSet}
    BY ArgumentFacts DEF Argument
  <2>4. ValueAt(e, i) # NotSet /\ ValueAt(e, i) \in Int
    BY <2>1, <2>2, <2>3 DEF ValueAt
  <2>5. e[i].name \in {"-c", "--ctx-size"} => ValueAt(e, i) \in Nat
    BY <2>1, ArgumentFacts DEF ValueAt
  <2> QED
    BY <2>4, <2>5
<1> QED
  BY <1>5, <1>6, <1>7

LEMMA SwitchesFound ==
  ASSUME NEW e \in Arguments, NEW names \in SUBSET Switches
  PROVE  LastOf(LastSwitch(e, names), PlacesOf(e, names))
<1>1. Len(e) \in Nat /\ DOMAIN e = 1..Len(e)
  BY ArgumentFacts
<1> DEFINE S == {i \in DOMAIN e : e[i] \in {Flag(n) : n \in names}}
<1>2. ASSUME NEW i \in 1..Len(e)
      PROVE  e[i] \in {Flag(n) : n \in names} <=> e[i].name \in names
  <2>1. e[i] \in {Flag(n) : n \in names} => e[i].name \in names
    BY DEF Flag
  <2>2. e[i].name \in names => e[i].value = NotSet /\ e[i] \in Argument
    BY ArgumentFacts
  <2>3. ASSUME e[i].name \in names, NEW x, x = e[i], x \in Argument, x.value = NotSet
        PROVE  x = Flag(x.name)
    BY <2>3 DEF Argument, Flag
  <2>4. e[i].name \in names => e[i] = Flag(e[i].name)
    BY <2>2, <2>3
  <2> QED
    BY <2>1, <2>4
<1>3. S = PlacesOf(e, names)
  BY <1>1, <1>2 DEF PlacesOf
<1>4. S \in SUBSET (1..Len(e))
  BY <1>1
<1>5. LastSwitch(e, names) = Max({0} \cup S)
  BY DEF LastSwitch
<1> HIDE DEF S
<1> QED
  BY <1>1, <1>3, <1>4, <1>5, MaxWithNone

-----------------------------------------------------------------------------
(* What a backend started with a layer's settings serves.                  *)

\* Where describe_model finds a setting, llama-server has it from the same place.
SameSetting(layer, server) ==
  LET e        == ExtraArgs(layer)
      Told(names, key) == IF FlagValue(e, names) = NotSet THEN layer[key] ELSE FlagValue(e, names)
      on       == LastSwitch(e, {"-kvu", "--kv-unified"})
      off      == LastSwitch(e, {"-no-kvu", "--no-kv-unified"})
      with     == LastFlag(e, {"-mm", "--mmproj"})
      without  == LastSwitch(e, {"--no-mmproj"})
  IN  /\ server.ctx = Told({"-c", "--ctx-size"}, "ctx_size")
      /\ server.slots = Told({"-np", "--parallel"}, "n_parallel")
      /\ server.cap = FlagValue(e, {"--kv-unified-per-slot"})
      /\ server.budget = FlagValue(e, {"--reasoning-budget"})
      /\ server.unified = IF on = 0 /\ off = 0 THEN "auto" ELSE IF on > off THEN "on" ELSE "off"
      /\ (server.mmproj # NotSet) =
           (without <= with /\ (with > 0 \/ layer["mmproj"] # NotSet))
      /\ server.jinja = (LastSwitch(e, {"--no-jinja"}) <= LastSwitch(e, {"--jinja"}))

\* Of two flags that undo each other, the one given last counts.
LEMMA LastOfTwo ==
  ASSUME NEW n \in Nat, NEW A \in SUBSET (1..n), NEW B \in SUBSET (1..n), A \cap B = {},
         NEW a, LastOf(a, A), NEW b, LastOf(b, B)
  PROVE  /\ a \in Nat /\ b \in Nat
         /\ a = b => A \cup B = {} /\ a = 0
         /\ a > b => a \in A /\ \A j \in A \cup B : j <= a
         /\ b > a => b \in B /\ \A j \in A \cup B : j <= b
<1>1. /\ \A y \in A : y \in Nat /\ y >= 1 /\ y \in 1..n /\ y \notin B
      /\ \A y \in B : y \in Nat /\ y >= 1 /\ y \in 1..n /\ y \notin A
  OBVIOUS
<1>2. /\ IF A = {} THEN a = 0 ELSE a \in A /\ \A j \in A : j <= a
      /\ IF B = {} THEN b = 0 ELSE b \in B /\ \A j \in B : j <= b
  BY DEF LastOf
<1>3. a \in Nat /\ b \in Nat
  <2>1. (a \in A \/ a = 0) /\ (b \in B \/ b = 0)
    BY <1>2
  <2>2. (a \in A => a \in Nat) /\ (b \in B => b \in Nat)
    BY <1>1, Zenon
  <2> QED
    BY ONLY <2>1, <2>2
<1>4. ASSUME a = b PROVE A \cup B = {} /\ a = 0
  <2>1. ~(a \in A /\ b \in B)
    BY <1>1, <1>4
  <2>2. a \in A => a # 0
    BY <1>1
  <2>3. b \in B => b # 0
    BY <1>1
  <2> QED
    BY <1>2, <1>4, <2>1, <2>2, <2>3
<1>5. a > b => a \in A /\ \A j \in A \cup B : j <= a
  BY <1>1, <1>2, <1>3
<1>6. b > a => b \in B /\ \A j \in A \cup B : j <= b
  BY <1>1, <1>2, <1>3
<1> QED
  BY <1>3, <1>4, <1>5, <1>6

FlagTold(e, names, start, end) ==
  end = IF FlagValue(e, names) = NotSet THEN start ELSE FlagValue(e, names)

SwitchTold(e, ons, offs, field, start, end) ==
  LET on  == LastSwitch(e, ons)
      off == LastSwitch(e, offs)
  IN  /\ on \in Nat /\ off \in Nat
      /\ on = off => on = 0 /\ end = start
      /\ on > off => end = IF field = "unified" THEN "on" ELSE TRUE
      /\ off > on => end = IF field = "unified" THEN "off" ELSE FALSE

LEMMA FlagWins ==
  ASSUME NEW e \in Arguments, NEW st, NEW b, ReadsLast(st, b, e),
         NEW field \in {"ctx", "slots", "cap", "budget"},
         NEW names, names = {n \in Valued : Setting[n] = field}
  PROVE  FlagTold(e, names, st[b][field], st[b + Len(e)][field])
<1> DEFINE P == PlacesOf(e, names)
           end == st[b + Len(e)][field]
           start == st[b][field]
<1>1. field \in ServerFields \ {"waits", "unified", "jinja"} /\ names \in SUBSET Valued
  BY DEF ServerFields
<1>2. /\ P = {} => end = start
      /\ \A i \in P : (\A j \in P : j <= i) => end = ValueAt(e, i)
  <2> DEFINE offs == IF field = "mmproj" THEN {"--no-mmproj"} ELSE {}
  <2>1. FlagCounts(e, names, offs, st[b][field], st[b + Len(e)][field])
    <3> HIDE DEF offs
    <3>1. offs = IF field = "mmproj" THEN {"--no-mmproj"} ELSE {}
      BY DEF offs
    <3> QED
      BY <1>1, <3>1, LastFlagWins, Zenon
  <2>2. offs = {} /\ names \cup offs = names
    OBVIOUS
  <2> HIDE DEF offs
  <2>3. FlagCounts(e, names, offs, start, end)
    BY <2>1
  <2> HIDE DEF end, start
  <2> QED
    BY <2>2, <2>3 DEF FlagCounts
<1>3. LastOf(LastFlag(e, names), P)
  BY <1>1, FlagsFound
<1>4. FlagValue(e, names) = IF LastFlag(e, names) = 0 THEN NotSet ELSE ValueAt(e, LastFlag(e, names))
  BY <1>1, FlagsFound
<1>5. \A i \in P : ValueAt(e, i) # NotSet /\ i # 0
  <2>1. \A i \in P : i # 0
    BY DEF PlacesOf
  <2> QED
    BY <1>1, <2>1, FlagsFound
<1> HIDE DEF P, end, start
<1>6. CASE P = {}
  BY <1>2, <1>3, <1>4, <1>6 DEF LastOf, FlagTold, end, start
<1>7. CASE P # {}
  <2>1. LastFlag(e, names) \in P /\ \A j \in P : j <= LastFlag(e, names)
    BY <1>3, <1>7 DEF LastOf
  <2>2. end = ValueAt(e, LastFlag(e, names)) /\ FlagValue(e, names) = ValueAt(e, LastFlag(e, names))
        /\ FlagValue(e, names) # NotSet
    BY <1>2, <1>4, <1>5, <2>1
  <2> QED
    BY <2>2 DEF FlagTold, end, start
<1> QED
  BY <1>6, <1>7

LEMMA ProjectorWins ==
  ASSUME NEW e \in Arguments, NEW st, NEW b, ReadsLast(st, b, e)
  PROVE  LET with    == LastFlag(e, {"-mm", "--mmproj"})
             without == LastSwitch(e, {"--no-mmproj"})
         IN  (st[b + Len(e)]["mmproj"] # NotSet) =
               (without <= with /\ (with > 0 \/ st[b]["mmproj"] # NotSet))
<1> DEFINE names == {"-mm", "--mmproj"}
           offs == {"--no-mmproj"}
           with == LastFlag(e, names)
           without == LastSwitch(e, offs)
           end == st[b + Len(e)]["mmproj"]
           start == st[b]["mmproj"]
           P == PlacesOf(e, names)
           Q == PlacesOf(e, offs)
<1>1. /\ names \in SUBSET Valued /\ offs \in SUBSET Switches
      /\ names = {n \in Valued : Setting[n] = "mmproj"}
      /\ "mmproj" \in ServerFields \ {"waits", "unified", "jinja"}
  BY SettingFacts DEF Valued, Switches, ServerFields
<1>2. PlacesOf(e, names \cup offs) = P \cup Q /\ P \cap Q = {}
  BY DEF PlacesOf
<1>3. /\ P \cup Q = {} => end = start
      /\ \A i \in P \cup Q : (\A j \in P \cup Q : j <= i) =>
           end = IF e[i].name \in offs THEN NotSet ELSE ValueAt(e, i)
  <2> HIDE DEF names, offs, P, Q
  <2>1. offs = IF "mmproj" = "mmproj" THEN {"--no-mmproj"} ELSE {}
    BY DEF offs
  <2>2. names = {n \in Valued : Setting[n] = "mmproj"}
    BY <1>1
  <2>3. FlagCounts(e, names, offs, st[b]["mmproj"], st[b + Len(e)]["mmproj"])
    BY <1>1, <2>1, <2>2, LastFlagWins, Zenon
  <2>4. FlagCounts(e, names, offs, start, end)
    BY <2>3
  <2> HIDE DEF end, start
  <2> QED
    BY <1>2, <2>4 DEF FlagCounts
<1>4. LastOf(with, P) /\ \A i \in P : ValueAt(e, i) # NotSet /\ e[i].name \notin offs
  <2>1. \A i \in P : e[i].name \notin offs
    BY DEF PlacesOf
  <2> QED
    BY <1>1, <2>1, FlagsFound
<1>5. LastOf(without, Q) /\ \A i \in Q : e[i].name \in offs
  <2>1. \A i \in Q : e[i].name \in offs
    BY DEF PlacesOf
  <2> QED
    BY <1>1, <2>1, SwitchesFound
<1>6. Len(e) \in Nat /\ P \in SUBSET (1..Len(e)) /\ Q \in SUBSET (1..Len(e))
  BY ArgumentFacts DEF PlacesOf
<1> HIDE DEF names, offs, with, without, end, start, P, Q
<1>7. /\ with \in Nat /\ without \in Nat
      /\ with = without => P \cup Q = {} /\ with = 0
      /\ with > without => with \in P /\ \A j \in P \cup Q : j <= with
      /\ without > with => without \in Q /\ \A j \in P \cup Q : j <= without
  BY <1>2, <1>4, <1>5, <1>6, LastOfTwo
<1>8. (end # NotSet) <=> (without <= with /\ (with > 0 \/ start # NotSet))
  <2>1. CASE with = without
    BY <1>3, <1>7, <2>1
  <2>2. CASE with > without
    BY <1>3, <1>4, <1>7, <2>2
  <2>3. CASE without > with
    BY <1>3, <1>5, <1>7, <2>3
  <2> QED
    BY <1>7, <2>1, <2>2, <2>3
<1> QED
  BY <1>8 DEF end, start, with, without, names, offs

LEMMA SwitchWins ==
  ASSUME NEW e \in Arguments, NEW st, NEW b, ReadsLast(st, b, e),
         NEW field \in {"unified", "jinja"},
         NEW ons, ons = (IF field = "unified" THEN OnNames ELSE {"--jinja"}),
         NEW offs, offs = (IF field = "unified" THEN OffNames ELSE {"--no-jinja"})
  PROVE  SwitchTold(e, ons, offs, field, st[b][field], st[b + Len(e)][field])
<1> DEFINE on == LastSwitch(e, ons)
           off == LastSwitch(e, offs)
           end == st[b + Len(e)][field]
           names == ons \cup offs
           put == [name \in names |-> SwitchPuts(field, name)]
           P == PlacesOf(e, ons)
           Q == PlacesOf(e, offs)
<1>1. /\ ons \in SUBSET Switches /\ offs \in SUBSET Switches /\ ons \cap offs = {}
      /\ names = IF field = "unified" THEN OnNames \cup OffNames ELSE {"--jinja", "--no-jinja"}
  BY DEF OnNames, OffNames, Switches
<1>2. /\ \A name \in ons : put[name] = IF field = "unified" THEN "on" ELSE TRUE
      /\ \A name \in offs : put[name] = IF field = "unified" THEN "off" ELSE FALSE
  <2>1. CASE field = "unified"
    <3>1. ons = OnNames /\ offs = OffNames /\ OnNames \cap OffNames = {}
      BY <2>1 DEF OnNames, OffNames
    <3> QED
      BY <2>1, <3>1 DEF SwitchPuts
  <2>2. CASE field = "jinja"
    <3>1. ons = {"--jinja"} /\ offs = {"--no-jinja"} /\ "--jinja" # "--no-jinja"
      BY <2>2
    <3>2. \A name \in names : put[name] = (name = "--jinja")
      <4>1. field # "unified"
        BY <2>2
      <4> QED
        BY <4>1, Zenon DEF SwitchPuts
    <3>3. put["--jinja"] = TRUE /\ put["--no-jinja"] = FALSE
      BY <3>1, <3>2
    <3> HIDE DEF put
    <3> QED
      BY <2>2, <3>1, <3>3
  <2> QED
    BY <2>1, <2>2
<1>3. \A name \in names : put[name] = SwitchPuts(field, name)
  BY Zenon
<1>4. PlacesOf(e, names) = P \cup Q /\ P \cap Q = {}
  BY <1>1 DEF PlacesOf
<1>5. \A i \in P : e[i].name \in ons
  BY DEF PlacesOf
<1>6. \A i \in Q : e[i].name \in offs
  BY DEF PlacesOf
<1>7. Len(e) \in Nat /\ P \in SUBSET (1..Len(e)) /\ Q \in SUBSET (1..Len(e))
  BY ArgumentFacts DEF PlacesOf
<1>8. LastOf(on, P) /\ LastOf(off, Q)
  BY <1>1, SwitchesFound
<1> HIDE DEF names, put
<1>9. /\ P \cup Q = {} => end = st[b][field]
      /\ \A i \in P \cup Q : (\A j \in P \cup Q : j <= i) => end = put[e[i].name]
  <2>1. SwitchCounts(e, names, put, st[b][field], st[b + Len(e)][field])
    BY <1>1, <1>3, LastSwitchWins, Zenon
  <2>2. SwitchCounts(e, names, put, st[b][field], end)
    BY <2>1
  <2> HIDE DEF end, P, Q
  <2> QED
    BY <1>4, <2>2 DEF SwitchCounts
<1> HIDE DEF on, off, P, Q, end
<1>10. /\ on \in Nat /\ off \in Nat
       /\ on = off => P \cup Q = {} /\ on = 0
       /\ on > off => on \in P /\ \A j \in P \cup Q : j <= on
       /\ off > on => off \in Q /\ \A j \in P \cup Q : j <= off
  BY <1>4, <1>7, <1>8, LastOfTwo
<1>11. on > off => end = IF field = "unified" THEN "on" ELSE TRUE
  <2>1. on > off => end = put[e[on].name] /\ e[on].name \in ons
    BY <1>5, <1>9, <1>10
  <2> QED
    BY <1>2, <2>1, Zenon
<1>12. off > on => end = IF field = "unified" THEN "off" ELSE FALSE
  <2>1. off > on => end = put[e[off].name] /\ e[off].name \in offs
    BY <1>6, <1>9, <1>10
  <2> QED
    BY <1>2, <2>1, Zenon
<1>13. on = off => on = 0 /\ end = st[b][field]
  BY <1>9, <1>10
<1> QED
  BY <1>10, <1>11, <1>12, <1>13, Zenon DEF on, off, end, SwitchTold

LEMMA SettingsShared ==
  ASSUME NEW layer, IsLayer(layer)
  PROVE  /\ SameSetting(layer, Server(LlamaArgs(layer)))
         /\ LastSwitch(ExtraArgs(layer), {"--no-jinja"}) \in Nat
         /\ LastSwitch(ExtraArgs(layer), {"--jinja"}) \in Nat
<1> DEFINE args == LlamaArgs(layer)
           e == ExtraArgs(layer)
           server == Server(args)
<1>1. args \in Seq(Argument) /\ e \in Arguments /\ e \in Seq(Argument)
  BY KeysRead, ArgumentFacts
<1>2. PICK st : Reads(st, args) /\ server = st[Len(args)]
  <2> HIDE DEF args
  <2> QED
    BY <1>1, Readings, Zenon DEF Reads
<1>3. PICK b \in Nat :
        /\ Has(args, b, e) /\ b + Len(e) = Len(args) /\ Free(st[b])
        /\ st[b]["ctx"] = layer["ctx_size"] /\ st[b]["slots"] = layer["n_parallel"]
        /\ st[b]["mmproj"] = layer["mmproj"] /\ st[b]["cap"] = NotSet
        /\ st[b]["budget"] = NotSet /\ st[b]["unified"] = "auto" /\ st[b]["jinja"] = TRUE
  BY <1>2, KeysRead, Zenon
<1> HIDE DEF args, e, server
<1>4. ReadsLast(st, b, e)
  BY <1>1, <1>2, <1>3, TailRead, Zenon
<1>5. server = st[b + Len(e)]
  BY <1>2, <1>3
<1> DEFINE Names(field) == {n \in Valued : Setting[n] = field}
<1>6. ASSUME NEW field \in {"ctx", "slots", "cap", "budget"}
      PROVE  server[field] = IF FlagValue(e, Names(field)) = NotSet THEN st[b][field]
                             ELSE FlagValue(e, Names(field))
  <2>1. st[b + Len(e)][field] = IF FlagValue(e, Names(field)) = NotSet THEN st[b][field]
                             ELSE FlagValue(e, Names(field))
    <3> DEFINE names == Names(field)
    <3>1. names = {n \in Valued : Setting[n] = field}
      OBVIOUS
    <3> HIDE DEF names
    <3>2. FlagTold(e, names, st[b][field], st[b + Len(e)][field])
      BY <1>1, <1>4, <3>1, FlagWins, Zenon
    <3> QED
      BY <3>2, Zenon DEF names, FlagTold
  <2> QED
    BY <1>5, <2>1, Zenon
<1>7. /\ Names("ctx") = {"-c", "--ctx-size"} /\ Names("slots") = {"-np", "--parallel"}
      /\ Names("cap") = {"--kv-unified-per-slot"} /\ Names("budget") = {"--reasoning-budget"}
  BY SettingFacts DEF Valued
<1> HIDE DEF Names
<1>8. /\ server.ctx = IF FlagValue(e, {"-c", "--ctx-size"}) = NotSet THEN layer["ctx_size"]
                      ELSE FlagValue(e, {"-c", "--ctx-size"})
      /\ server.slots = IF FlagValue(e, {"-np", "--parallel"}) = NotSet THEN layer["n_parallel"]
                        ELSE FlagValue(e, {"-np", "--parallel"})
  <2>1. server["ctx"] = IF FlagValue(e, Names("ctx")) = NotSet THEN layer["ctx_size"]
                        ELSE FlagValue(e, Names("ctx"))
    BY <1>3, <1>6, Zenon
  <2>2. server["slots"] = IF FlagValue(e, Names("slots")) = NotSet THEN layer["n_parallel"]
                        ELSE FlagValue(e, Names("slots"))
    BY <1>3, <1>6, Zenon
  <2> QED
    BY <1>7, <2>1, <2>2
<1>9. /\ server.cap = FlagValue(e, {"--kv-unified-per-slot"})
      /\ server.budget = FlagValue(e, {"--reasoning-budget"})
  <2>1. server["cap"] = IF FlagValue(e, Names("cap")) = NotSet THEN NotSet ELSE FlagValue(e, Names("cap"))
    BY <1>3, <1>6, Zenon
  <2>2. server["budget"] = IF FlagValue(e, Names("budget")) = NotSet THEN NotSet
                           ELSE FlagValue(e, Names("budget"))
    BY <1>3, <1>6, Zenon
  <2> QED
    BY <1>7, <2>1, <2>2
<1>10. (server.mmproj # NotSet) =
         (LastSwitch(e, {"--no-mmproj"}) <= LastFlag(e, {"-mm", "--mmproj"})
           /\ (LastFlag(e, {"-mm", "--mmproj"}) > 0 \/ layer["mmproj"] # NotSet))
  <2>1. (st[b + Len(e)]["mmproj"] # NotSet) =
          (LastSwitch(e, {"--no-mmproj"}) <= LastFlag(e, {"-mm", "--mmproj"})
            /\ (LastFlag(e, {"-mm", "--mmproj"}) > 0 \/ st[b]["mmproj"] # NotSet))
    BY <1>1, <1>4, ProjectorWins, Zenon
  <2>2. server.mmproj = st[b + Len(e)]["mmproj"] /\ st[b]["mmproj"] = layer["mmproj"]
    BY <1>3, <1>5
  <2> QED
    BY <2>1, <2>2
<1>11. LET on  == LastSwitch(e, {"-kvu", "--kv-unified"})
           off == LastSwitch(e, {"-no-kvu", "--no-kv-unified"})
       IN  server.unified = IF on = 0 /\ off = 0 THEN "auto" ELSE IF on > off THEN "on" ELSE "off"
  <2> DEFINE on == LastSwitch(e, {"-kvu", "--kv-unified"})
             off == LastSwitch(e, {"-no-kvu", "--no-kv-unified"})
             end == st[b + Len(e)]["unified"]
  <2>1. /\ on \in Nat /\ off \in Nat
        /\ on = off => on = 0 /\ end = st[b]["unified"]
        /\ on > off => end = "on"
        /\ off > on => end = "off"
    <3> DEFINE ons == IF "unified" = "unified" THEN OnNames ELSE {"--jinja"}
               offs == IF "unified" = "unified" THEN OffNames ELSE {"--no-jinja"}
    <3>1. ons = {"-kvu", "--kv-unified"} /\ offs = {"-no-kvu", "--no-kv-unified"}
      BY DEF OnNames, OffNames
    <3>2. SwitchTold(e, ons, offs, "unified", st[b]["unified"], st[b + Len(e)]["unified"])
      <4>1. /\ ons = (IF "unified" = "unified" THEN OnNames ELSE {"--jinja"})
            /\ offs = (IF "unified" = "unified" THEN OffNames ELSE {"--no-jinja"})
        OBVIOUS
      <4> HIDE DEF ons, offs, end
      <4> QED
        BY <1>1, <1>4, <4>1, SwitchWins, Zenon
    <3>3. SwitchTold(e, ons, offs, "unified", st[b]["unified"], end)
      BY <3>2
    <3> HIDE DEF ons, offs, end
    <3> QED
      BY <3>1, <3>3 DEF SwitchTold
  <2>2. server.unified = end /\ st[b]["unified"] = "auto"
    BY <1>3, <1>5
  <2> HIDE DEF end, on, off
  <2>3. server.unified = IF on = 0 /\ off = 0 THEN "auto" ELSE IF on > off THEN "on" ELSE "off"
    BY <2>1, <2>2
  <2> QED
    BY <2>3 DEF on, off
<1>12. LET on  == LastSwitch(e, {"--jinja"})
           off == LastSwitch(e, {"--no-jinja"})
       IN  on \in Nat /\ off \in Nat /\ server.jinja = (off <= on)
  <2> DEFINE on == LastSwitch(e, {"--jinja"})
             off == LastSwitch(e, {"--no-jinja"})
             end == st[b + Len(e)]["jinja"]
  <2>1. /\ on \in Nat /\ off \in Nat
        /\ on = off => on = 0 /\ end = st[b]["jinja"]
        /\ on > off => end = TRUE
        /\ off > on => end = FALSE
    <3> DEFINE ons == IF "jinja" = "unified" THEN OnNames ELSE {"--jinja"}
               offs == IF "jinja" = "unified" THEN OffNames ELSE {"--no-jinja"}
    <3>0. "jinja" # "unified"
      OBVIOUS
    <3>1. ons = {"--jinja"} /\ offs = {"--no-jinja"}
      BY <3>0
    <3>2. SwitchTold(e, ons, offs, "jinja", st[b]["jinja"], st[b + Len(e)]["jinja"])
      <4>1. /\ ons = (IF "jinja" = "unified" THEN OnNames ELSE {"--jinja"})
            /\ offs = (IF "jinja" = "unified" THEN OffNames ELSE {"--no-jinja"})
        OBVIOUS
      <4> HIDE DEF ons, offs, end
      <4> QED
        BY <1>1, <1>4, <4>1, SwitchWins, Zenon
    <3>3. SwitchTold(e, ons, offs, "jinja", st[b]["jinja"], end)
      BY <3>2
    <3> HIDE DEF ons, offs, end
    <3> QED
      BY <3>0, <3>1, <3>3, Zenon DEF SwitchTold
  <2>2. server.jinja = end /\ st[b]["jinja"] = TRUE
    BY <1>3, <1>5
  <2> HIDE DEF end, on, off
  <2>3. (on = off \/ on > off) <=> off <= on
    BY <2>1
  <2>4. off > on <=> ~(off <= on)
    BY <2>1
  <2>5. server.jinja = (off <= on)
    <3>1. ASSUME off <= on PROVE server.jinja = TRUE
      BY <2>1, <2>2, <2>3, <3>1, Zenon
    <3>2. ASSUME ~(off <= on) PROVE server.jinja = FALSE
      BY <2>1, <2>2, <2>4, <3>2, Zenon
    <3> DEFINE later == off <= on
    <3>3. later \in BOOLEAN /\ (later => server.jinja = TRUE) /\ (~later => server.jinja = FALSE)
      <4>1. later \in BOOLEAN
        BY ONLY TRUE
      <4>2. (later => server.jinja = TRUE) /\ (~later => server.jinja = FALSE)
        BY <3>1, <3>2, Zenon
      <4> QED
        BY <4>1, <4>2, Zenon
    <3>4. server.jinja = later
      <4> HIDE DEF later
      <4>1. CASE later = TRUE
        BY <3>3, <4>1
      <4>2. CASE later = FALSE
        BY <3>3, <4>2
      <4> QED
        BY <3>3, <4>1, <4>2
    <3> QED
      BY <3>4
  <2> QED
    BY <2>1, <2>5 DEF on, off
<1> QED
  BY <1>8, <1>9, <1>10, <1>11, <1>12, Zenon DEF SameSetting, e, server, args

\* The maximum of two numbers.
LEMMA GreaterOf ==
  ASSUME NEW m \in Int, NEW n \in Int
  PROVE  Max({m, n}) = IF m >= n THEN m ELSE n
<1> DEFINE x == IF m >= n THEN m ELSE n
<1>1. x \in {m, n} /\ \A y \in {m, n} : x >= y
  OBVIOUS
<1>2. \A z \in {m, n} : (\A y \in {m, n} : z >= y) => z = x
  OBVIOUS
<1> HIDE DEF x
<1>3. Max({m, n}) = x
  BY <1>1, <1>2, Zenon DEF Max
<1> QED
  BY <1>3 DEF x

-----------------------------------------------------------------------------
(* The layers.                                                             *)

LEMMA OverlayLayer ==
  ASSUME NEW below, IsLayer(below), NEW above, IsLayer(above)
  PROVE  IsLayer(Overlay(below, above))
BY DEF IsLayer, Overlay

\* The reducing of describe_model is the manager's two merges.
LEMMA LayersMerged ==
  ASSUME NEW global, NEW model
  PROVE  Described(global, model) = Overlay(Overlay(BaseSettings, global), model)
<1> DEFINE V == {BaseSettings[k] : k \in SettingKeys} \cup {global[k] : k \in SettingKeys}
                  \cup {model[k] : k \in SettingKeys}
           A == [SettingKeys -> V]
           all == <<global, model>>
           change == [i \in 1..2 |-> [a \in A |-> Overlay(a, all[i])]]
           Is(it) == it = [s \in SUBSET (1..2) |->
                             IF s = {} THEN BaseSettings
                             ELSE Overlay(it[s \ {Max(s)}], all[Max(s)])]
<1>0. BaseSettings = [k \in SettingKeys |-> BaseSettings[k]]
  BY SettingsAssumption DEF IsLayer
<1>1. BaseSettings \in A
  BY <1>0
<1>2. \A i \in 1..2 : \A a \in A : change[i][a] = Overlay(a, all[i]) /\ change[i][a] \in A
  <2>1. ASSUME NEW i \in 1..2, NEW a \in A PROVE Overlay(a, all[i]) \in A
    <3>1. \A k \in SettingKeys : all[i][k] \in V
      BY i = 1 \/ i = 2
    <3> QED
      BY <3>1 DEF Overlay
  <2> QED
    BY <2>1
<1>3. DOMAIN all = 1..2 /\ 2 \in Nat
  OBVIOUS
<1>4. PICK iter \in [SUBSET (1..2) -> A] : Folds(iter, 2, BaseSettings, change)
  <2> HIDE DEF change, A
  <2>1. \A i \in 1..2 : \A a \in A : change[i][a] \in A
    BY <1>2
  <2> QED
    BY <1>1, <1>3, <2>1, FoldExists, Zenon
<1>5. Described(global, model) = (CHOOSE it : Is(it))[1..2]
  BY <1>3 DEF Described, FoldLeft, MapThenFoldSet
<1>6. Is(iter)
  <2>1. iter = [s \in SUBSET (1..2) |-> IF s = {} THEN BaseSettings ELSE change[Max(s)][iter[s \ {Max(s)}]]]
    BY <1>4 DEF Folds
  <2>2. ASSUME NEW s \in SUBSET (1..2), s # {}
        PROVE  change[Max(s)][iter[s \ {Max(s)}]] = Overlay(iter[s \ {Max(s)}], all[Max(s)])
    <3>1. Max(s) \in 1..2
      BY <1>3, <2>2, MaxOf
    <3>2. iter[s \ {Max(s)}] \in A
      BY <1>4
    <3> HIDE DEF change, A, all
    <3> QED
      BY <1>2, <3>1, <3>2
  <2> HIDE DEF change, A, all
  <2>3. \A s \in SUBSET (1..2) :
          iter[s] = IF s = {} THEN BaseSettings ELSE Overlay(iter[s \ {Max(s)}], all[Max(s)])
    BY <2>1, <2>2
  <2> QED
    BY <1>4, <2>3
<1> DEFINE the == CHOOSE it : Is(it)
<1>7. Is(the)
  <2> HIDE DEF Is
  <2> QED
    BY <1>6, Zenon
<1>8. \A s \in SUBSET (1..2) :
        the[s] = IF s = {} THEN BaseSettings ELSE Overlay(the[s \ {Max(s)}], all[Max(s)])
  BY <1>7
<1> HIDE DEF the
<1>9. the[{}] = BaseSettings
  BY <1>8
<1>10. the[{1}] = Overlay(BaseSettings, global)
  <2>1. Max({1}) = 1
    BY MaxUpTo
  <2>2. {1} \in SUBSET (1..2) /\ {1} # {} /\ {1} \ {1} = {} /\ all[1] = global
    OBVIOUS
  <2> QED
    BY <1>8, <1>9, <2>1, <2>2
<1>11. the[1..2] = Overlay(Overlay(BaseSettings, global), model)
  <2>1. Max(1..2) = 2
    BY MaxUpTo
  <2>2. 1..2 \in SUBSET (1..2) /\ 1..2 # {} /\ (1..2) \ {2} = {1} /\ all[2] = model
    OBVIOUS
  <2> HIDE DEF all
  <2>3. the[1..2] = Overlay(the[(1..2) \ {Max(1..2)}], all[Max(1..2)])
    BY <1>8, <2>2, Zenon
  <2> QED
    BY <1>10, <2>1, <2>2, <2>3
<1> QED
  BY <1>5, <1>11 DEF the

\* The last layer that sets a key is what the merges leave.
LEMMA Reported ==
  ASSUME NEW global, NEW model
  PROVE  Report(global, model) = Overlay(Overlay(BaseSettings, global), model)
<1> DEFINE all == <<BaseSettings, global, model>>
           merged == Overlay(Overlay(BaseSettings, global), model)
<1>1. ASSUME NEW k \in SettingKeys
      PROVE  Report(global, model)[k] = merged[k]
  <2> DEFINE set == {i \in 1..3 : all[i][k] # NotSet}
  <2>1. Report(global, model)[k] = IF set = {} THEN NotSet ELSE all[Max(set)][k]
    BY DEF Report
  <2>2. merged[k] = IF model[k] # NotSet THEN model[k]
                    ELSE IF global[k] # NotSet THEN global[k] ELSE BaseSettings[k]
    BY DEF Overlay
  <2>3. /\ 1 \in set <=> BaseSettings[k] # NotSet
        /\ 2 \in set <=> global[k] # NotSet
        /\ 3 \in set <=> model[k] # NotSet
        /\ set \in SUBSET (1..3) /\ 1..3 = {1, 2, 3}
        /\ all[1][k] = BaseSettings[k] /\ all[2][k] = global[k] /\ all[3][k] = model[k]
    OBVIOUS
  <2> HIDE DEF set, merged, all
  <2>4. CASE 3 \in set
    <3>1. Max(set) = 3
      BY <2>3, <2>4, MaxUpTo
    <3> QED
      BY <2>1, <2>2, <2>3, <2>4, <3>1
  <2>5. CASE 3 \notin set /\ 2 \in set
    <3>1. Max(set) = 2
      <4>1. set \in SUBSET (1..2)
        BY <2>3, <2>5
      <4> QED
        BY <2>5, <4>1, MaxUpTo
    <3> QED
      BY <2>1, <2>2, <2>3, <2>5, <3>1
  <2>6. CASE 3 \notin set /\ 2 \notin set /\ 1 \in set
    <3>1. Max(set) = 1
      <4>1. set \in SUBSET (1..1)
        BY <2>3, <2>6
      <4> QED
        BY <2>6, <4>1, MaxUpTo
    <3> QED
      BY <2>1, <2>2, <2>3, <2>6, <3>1
  <2>7. CASE 3 \notin set /\ 2 \notin set /\ 1 \notin set
    <3>1. set = {}
      BY <2>3, <2>7
    <3> QED
      BY <2>1, <2>2, <2>3, <2>7, <3>1
  <2> QED
    BY <2>4, <2>5, <2>6, <2>7
<1>2. /\ Report(global, model) = [k \in SettingKeys |-> Report(global, model)[k]]
      /\ merged = [k \in SettingKeys |-> merged[k]]
  BY DEF Report, Overlay
<1> HIDE DEF merged
<1>3. Report(global, model) = merged
  BY <1>1, <1>2
<1> QED
  BY <1>3 DEF merged

-----------------------------------------------------------------------------
(* The arithmetic of windows.                                              *)

LEMMA FlagValueType ==
  ASSUME NEW e \in Arguments, NEW names \in SUBSET Valued
  PROVE  /\ FlagValue(e, names) \in Int \cup {NotSet}
         /\ names \subseteq {"-c", "--ctx-size"} => FlagValue(e, names) \in Nat \cup {NotSet}
<1> DEFINE i == LastFlag(e, names)
           P == PlacesOf(e, names)
<1>1. LastOf(i, P)
  BY FlagsFound
<1>2. FlagValue(e, names) = IF i = 0 THEN NotSet ELSE ValueAt(e, i)
  BY FlagsFound
<1>3. \A j \in P : /\ ValueAt(e, j) \in Int /\ e[j].name \in names
                   /\ e[j].name \in {"-c", "--ctx-size"} => ValueAt(e, j) \in Nat
  <2>1. \A j \in P : e[j].name \in names
    BY DEF PlacesOf
  <2> QED
    BY <2>1, FlagsFound
<1> HIDE DEF i, P
<1>4. i = 0 \/ i \in P
  BY <1>1 DEF LastOf
<1> QED
  BY <1>2, <1>3, <1>4

\* A slot's share of the context.
LEMMA SameShare ==
  ASSUME NEW whole \in Nat, NEW parallel, parallel # NotSet => parallel \in Int,
         NEW on \in Nat, NEW off \in Nat, NEW mode,
         mode = IF on = 0 /\ off = 0 THEN "auto" ELSE IF on > off THEN "on" ELSE "off"
  PROVE  LET auto    == IF parallel = NotSet THEN TRUE ELSE parallel <= 0
             unified == IF on = 0 /\ off = 0 THEN auto ELSE on > off
             share   == IF unified \/ auto THEN whole ELSE whole \div parallel
             slots   == IF parallel = NotSet THEN 0 ELSE parallel
             split   == slots > 1 /\ mode # "on"
             own     == IF split THEN whole \div slots ELSE whole
         IN  share = own /\ own \in Int
<1>1. CASE parallel = NotSet
  BY <1>1
<1>2. CASE parallel # NotSet /\ parallel <= 1
  <2>1. parallel \in Int /\ (parallel = 1 \/ parallel <= 0) /\ whole \div 1 = whole
    BY <1>2
  <2> QED
    BY <1>2, <2>1
<1>3. CASE parallel # NotSet /\ parallel > 1
  <2>1. parallel \in Int /\ ~(parallel <= 0) /\ whole \div parallel \in Int
    BY <1>3
  <2>2. (IF on = 0 /\ off = 0 THEN FALSE ELSE on > off) <=> mode = "on"
    OBVIOUS
  <2> QED
    BY <1>3, <2>1, <2>2
<1> QED
  BY <1>1, <1>2, <1>3

LEMMA LeastOf ==
  ASSUME NEW a \in Int, NEW S, NEW b, NEW c, S \subseteq {b, c}, S \subseteq Int
  PROVE  Min({a} \cup S) \in Int
<1> DEFINE T == {a} \cup S
<1>1. \E x \in T : \A y \in T : x <= y
  <2>1. CASE b \notin S /\ c \notin S
    BY <2>1
  <2>2. CASE b \in S /\ c \notin S
    <3>1. T = {a, b} /\ b \in Int
      BY <2>2
    <3> QED
      BY <3>1
  <2>3. CASE b \notin S /\ c \in S
    <3>1. T = {a, c} /\ c \in Int
      BY <2>3
    <3> QED
      BY <3>1
  <2>4. CASE b \in S /\ c \in S
    <3>1. T = {a, b, c} /\ b \in Int /\ c \in Int
      BY <2>4
    <3>2. PICK x \in {a, b, c} : x <= a /\ x <= b /\ x <= c
      BY <3>1
    <3> QED
      BY <3>1, <3>2
  <2> QED
    BY <2>1, <2>2, <2>3, <2>4
<1>2. Min(T) \in T
  BY <1>1, Zenon DEF Min
<1> QED
  BY <1>2

LEMMA BudgetFits ==
  ASSUME NEW window \in Nat \ {0}
  PROVE  OutputBudget(window) \in 1..Max({1, window \div 2})
<1> DEFINE half == window \div 2
           quarter == window \div 4
<1>1. half \in Nat /\ quarter \in Nat /\ MinOutput \in Nat /\ MaxOutput \in Nat
  BY SettingsAssumption
<1> HIDE DEF half, quarter
<1> DEFINE least == Min({quarter, MaxOutput})
           wish == Max({MinOutput, least})
           kept == Min({wish, half})
<1>2. least \in Int
  BY <1>1, LesserOf
<1> HIDE DEF least
<1>3. wish \in Int
  BY <1>1, <1>2, GreaterOf
<1> HIDE DEF wish
<1>4. kept \in Int /\ kept <= half
  BY <1>1, <1>3, LesserOf
<1> HIDE DEF kept
<1>5. Max({1, kept}) = IF 1 >= kept THEN 1 ELSE kept
  BY <1>4, GreaterOf
<1>6. Max({1, half}) = IF 1 >= half THEN 1 ELSE half
  BY <1>1, GreaterOf
<1>7. Max({1, kept}) \in 1..Max({1, half})
  BY <1>1, <1>4, <1>5, <1>6
<1> QED
  BY <1>7 DEF OutputBudget, kept, wish, least, half, quarter

\* The settings a window depends on, with their types.
LEMMA WindowSettings ==
  ASSUME NEW layer, IsLayer(layer)
  PROVE  LET e      == ExtraArgs(layer)
             raw    == FlagValue(e, {"-c", "--ctx-size"})
             slots  == FlagValue(e, {"-np", "--parallel"})
         IN  /\ (IF raw = NotSet THEN layer["ctx_size"] ELSE raw) \in Nat \cup {NotSet}
             /\ (IF slots = NotSet THEN layer["n_parallel"] ELSE slots) \in Int \cup {NotSet}
             /\ FlagValue(e, {"--kv-unified-per-slot"}) \in Int \cup {NotSet}
             /\ LastSwitch(e, {"-kvu", "--kv-unified"}) \in Nat
             /\ LastSwitch(e, {"-no-kvu", "--no-kv-unified"}) \in Nat
<1> DEFINE e == ExtraArgs(layer)
<1>1. e \in Arguments
  BY KeysRead
<1> HIDE DEF e
<1>2. /\ {"-c", "--ctx-size"} \in SUBSET Valued /\ {"-np", "--parallel"} \in SUBSET Valued
      /\ {"--kv-unified-per-slot"} \in SUBSET Valued
      /\ {"-kvu", "--kv-unified"} \in SUBSET Switches
      /\ {"-no-kvu", "--no-kv-unified"} \in SUBSET Switches
  BY DEF Valued, Switches
<1>3. /\ FlagValue(e, {"-c", "--ctx-size"}) \in Nat \cup {NotSet}
      /\ FlagValue(e, {"-np", "--parallel"}) \in Int \cup {NotSet}
      /\ FlagValue(e, {"--kv-unified-per-slot"}) \in Int \cup {NotSet}
  BY <1>1, <1>2, FlagValueType
<1>4. layer["ctx_size"] \in Nat \cup {NotSet} /\ layer["n_parallel"] \in Int \cup {NotSet}
  BY DEF IsLayer, SettingKeys, ValuesOf
<1>5. ASSUME NEW names \in SUBSET Switches PROVE LastSwitch(e, names) \in Nat
  <2>1. LastOf(LastSwitch(e, names), PlacesOf(e, names))
    BY <1>1, SwitchesFound
  <2>2. \A i \in PlacesOf(e, names) : i \in Nat
    BY DEF PlacesOf
  <2> QED
    BY <2>1, <2>2 DEF LastOf
<1> QED
  BY <1>2, <1>3, <1>4, <1>5 DEF e

\* What describe_model says a request may use is what it may use.
LEMMA SameWindow ==
  ASSUME NEW layer, IsLayer(layer)
  PROVE  LET whole == ConfiguredContext(layer)
         IN  /\ whole \in Nat \cup {NotSet}
             /\ \A t \in Nat : SlotContext(layer, t) \in Nat \ {0}
             /\ ServedWindow(Server(LlamaArgs(layer))) =
                  IF whole = NotSet THEN NotSet ELSE SlotContext(layer, whole)
<1> DEFINE e        == ExtraArgs(layer)
           server   == Server(LlamaArgs(layer))
           raw      == FlagValue(e, {"-c", "--ctx-size"})
           given    == IF raw = NotSet THEN layer["ctx_size"] ELSE raw
           whole    == IF given \in {NotSet, 0} THEN Training ELSE given
           np       == FlagValue(e, {"-np", "--parallel"})
           parallel == IF np = NotSet THEN layer["n_parallel"] ELSE np
           auto     == IF parallel = NotSet THEN TRUE ELSE parallel <= 0
           on       == LastSwitch(e, {"-kvu", "--kv-unified"})
           off      == LastSwitch(e, {"-no-kvu", "--no-kv-unified"})
           unified  == IF on = 0 /\ off = 0 THEN auto ELSE on > off
           share(t) == IF unified \/ auto THEN t ELSE t \div parallel
           cap      == FlagValue(e, {"--kv-unified-per-slot"})
           caps     == {x \in {cap, Training} : x \notin {NotSet, 0}}
           slots    == IF parallel = NotSet THEN 0 ELSE parallel
           split    == slots > 1 /\ server.unified # "on"
           own(t)   == IF split THEN t \div slots ELSE t
<1>1. /\ given \in Nat \cup {NotSet} /\ parallel \in Int \cup {NotSet}
      /\ cap \in Int \cup {NotSet} /\ on \in Nat /\ off \in Nat
  BY WindowSettings
<1>2. /\ server.ctx = given /\ server.slots = parallel /\ server.cap = cap
      /\ server.unified = IF on = 0 /\ off = 0 THEN "auto" ELSE IF on > off THEN "on" ELSE "off"
  BY SettingsShared DEF SameSetting
<1>3. /\ ConfiguredContext(layer) = whole
      /\ \A t : SlotContext(layer, t) = Max({1, Min({share(t)} \cup caps)})
      /\ ServedWindow(server) = IF whole = NotSet THEN NotSet
                                ELSE Max({1, Min({own(whole)} \cup caps)})
  <2>1. ConfiguredContext(layer) = whole
    BY DEF ConfiguredContext
  <2>2. \A t : SlotContext(layer, t) = Max({1, Min({share(t)} \cup caps)})
    BY DEF SlotContext
  <2>3. ServedWindow(server) = IF whole = NotSet THEN NotSet
                               ELSE Max({1, Min({own(whole)} \cup caps)})
    <3> HIDE DEF given, parallel, cap, server
    <3> QED
      BY <1>2 DEF ServedWindow
  <2> QED
    BY <2>1, <2>2, <2>3
<1>4. whole \in Nat \cup {NotSet}
  BY <1>1, SettingsAssumption
<1> HIDE DEF given, whole, server, on, off, cap, parallel
<1>5. ASSUME NEW t \in Nat PROVE share(t) = own(t) /\ own(t) \in Int
  <2>1. parallel # NotSet => parallel \in Int
    BY <1>1
  <2> DEFINE mode == server.unified
  <2>2. mode = IF on = 0 /\ off = 0 THEN "auto" ELSE IF on > off THEN "on" ELSE "off"
    BY <1>2
  <2> HIDE DEF mode
  <2>3. LET unified2 == IF on = 0 /\ off = 0 THEN auto ELSE on > off
            split2   == slots > 1 /\ mode # "on"
        IN  (IF unified2 \/ auto THEN t ELSE t \div parallel) = (IF split2 THEN t \div slots ELSE t)
            /\ (IF split2 THEN t \div slots ELSE t) \in Int
    BY <1>1, <2>1, <2>2, SameShare
  <2> QED
    BY <2>3 DEF mode
<1> HIDE DEF share, own
<1>6. caps \subseteq {cap, Training} /\ caps \subseteq Int
  BY <1>1, SettingsAssumption
<1> HIDE DEF caps
<1>7. ASSUME NEW t \in Nat PROVE SlotContext(layer, t) \in Nat \ {0}
  <2>1. Min({share(t)} \cup caps) \in Int
    BY <1>5, <1>6, LeastOf
  <2> DEFINE m == Min({share(t)} \cup caps)
  <2>2. SlotContext(layer, t) = Max({1, m})
    BY <1>3
  <2> HIDE DEF m
  <2>3. m \in Int
    BY <2>1 DEF m
  <2>4. Max({1, m}) = IF 1 >= m THEN 1 ELSE m
    BY <2>3, GreaterOf
  <2> QED
    BY <2>2, <2>3, <2>4
<1>8. ServedWindow(server) = IF whole = NotSet THEN NotSet ELSE SlotContext(layer, whole)
  BY <1>3, <1>4, <1>5
<1> QED
  BY <1>3, <1>4, <1>7, <1>8 DEF server

\* What describe_model says of a model is what a backend with its settings serves.
SaysWhatIsServed(global, model) ==
  LET said   == DescribeModel(global, model)
      server == Server(CommandLine(global, model))
      report == Report(global, model)
  IN  /\ said.known = ServedWindow(server)
      /\ said.known # NotSet => said.window = said.known
      /\ said.output \in 1..Max({1, said.window \div 2})
      /\ Projector \/ said.vision = (server.mmproj # NotSet)
      /\ said.tools => server.jinja
      /\ said.reasoning = (server.jinja /\ Template.thinks /\ server.budget # 0)
      /\ LlamaArgs(report) = CommandLine(global, model)

LEMMA DescribedTruly ==
  ASSUME NEW global, IsLayer(global), NEW model, IsLayer(model)
  PROVE  SaysWhatIsServed(global, model)
<1> DEFINE layer == Overlay(Overlay(BaseSettings, global), model)
           e       == ExtraArgs(layer)
           server  == Server(LlamaArgs(layer))
           whole   == ConfiguredContext(layer)
           window  == SlotContext(layer, IF whole = NotSet THEN Fallback ELSE whole)
           off     == LastSwitch(e, {"--no-jinja"})
           on      == LastSwitch(e, {"--jinja"})
           jinja   == off <= on
           with    == LastFlag(e, {"-mm", "--mmproj"})
           without == LastSwitch(e, {"--no-mmproj"})
           said    == DescribeModel(global, model)
<1>1. IsLayer(layer)
  BY OverlayLayer, SettingsAssumption
<1>2. Described(global, model) = layer /\ Report(global, model) = layer
      /\ CommandLine(global, model) = LlamaArgs(layer)
  BY LayersMerged, Reported DEF CommandLine
<1> HIDE DEF layer
<1>3. said = [window    |-> window,
              known     |-> IF whole = NotSet THEN NotSet ELSE SlotContext(layer, whole),
              output    |-> OutputBudget(window),
              vision    |-> without <= with /\ (with > 0 \/ layer["mmproj"] # NotSet \/ Projector),
              tools     |-> jinja /\ (~Template.known \/ Template.tools),
              reasoning |-> jinja /\ Template.thinks /\ FlagValue(e, {"--reasoning-budget"}) # 0]
  BY <1>2 DEF DescribeModel
<1>4. /\ (server.mmproj # NotSet) =
           (without <= with /\ (with > 0 \/ layer["mmproj"] # NotSet))
      /\ server.jinja = (off <= on)
      /\ server.budget = FlagValue(e, {"--reasoning-budget"})
  BY <1>1, SettingsShared, Zenon DEF SameSetting
<1>5. /\ whole \in Nat \cup {NotSet}
      /\ \A t \in Nat : SlotContext(layer, t) \in Nat \ {0}
      /\ ServedWindow(server) = IF whole = NotSet THEN NotSet ELSE SlotContext(layer, whole)
  BY <1>1, SameWindow, Zenon
<1>6. window \in Nat \ {0}
  BY <1>5, SettingsAssumption
<1>7. OutputBudget(window) \in 1..Max({1, window \div 2})
  BY <1>6, BudgetFits
<1>8. /\ said.window = window
      /\ said.known = IF whole = NotSet THEN NotSet ELSE SlotContext(layer, whole)
      /\ said.output = OutputBudget(window)
  BY <1>3
<1>9. /\ said.vision = (without <= with /\ (with > 0 \/ layer["mmproj"] # NotSet \/ Projector))
      /\ said.tools = (jinja /\ (~Template.known \/ Template.tools))
      /\ said.reasoning = (jinja /\ Template.thinks /\ FlagValue(e, {"--reasoning-budget"}) # 0)
  BY <1>3
<1>10. said.known = ServedWindow(server)
  BY <1>5, <1>8
<1>11. said.known # NotSet => said.window = said.known
  BY <1>8
<1>12. said.output \in 1..Max({1, said.window \div 2})
  BY <1>7, <1>8
<1> HIDE DEF said, with, without, on, off, e, server
<1>13. Projector \/ said.vision = (server.mmproj # NotSet)
  BY <1>4, <1>9, SettingsAssumption
<1>14. said.tools => server.jinja
  BY <1>4, <1>9, Zenon
<1>15. said.reasoning = (server.jinja /\ Template.thinks /\ server.budget # 0)
  BY <1>4, <1>9, Zenon
<1> QED
  BY <1>2, <1>10, <1>11, <1>12, <1>13, <1>14, <1>15, Zenon
     DEF SaysWhatIsServed, said, server

LEMMA SettingsDescribed == SettingsInv => DescribedAsServed
<1> SUFFICES ASSUME SettingsInv, Readable PROVE DescribedAsServed
  BY DEF DescribedAsServed
<1>1. IsLayer(layers["global"]) /\ IsLayer(layers["model"])
  BY DEF SettingsInv, SettingsTyped, Readable, Scopes
<1> QED
  <2>1. SaysWhatIsServed(layers["global"], layers["model"])
    BY <1>1, DescribedTruly, Zenon
  <2> QED
    BY <2>1, Zenon DEF SaysWhatIsServed, DescribedAsServed

-----------------------------------------------------------------------------
(* The integrations.                                                       *)

AsLoaded(content) == [f \in Files |-> Content(content[f])]

\* The selections of drove's models are all registered.
Registered(data) ==
  \A s \in data[SettingsFile].selected : s.provider = "drove" => s.model \in ModelIds(data)

Writing == {"staging", "backup", "replace"}

\* A run before its first fault: files not yet reached are as they were, those behind are
\* new, and the temporary files are those of the files ahead.
RunInOrder ==
  /\ step \in Writing =>
       /\ excused = {} /\ failed = {}
       /\ \A j \in 1..Len(Changed) :
            files[Changed[j]] = IF j < pos /\ step # "staging" THEN want[Changed[j]]
                                                             ELSE old[Changed[j]]
       /\ \A f \in Files : want[f] = Content(old[f]) => files[f] = old[f]
       /\ \A t \in temps : /\ t[2] = "staged"
                           /\ \E j \in 1..Len(Changed) : /\ t[1] = Changed[j]
                                                         /\ step # "staging" => j >= pos
  /\ step = "replace" => (files[Current] # Absent => bak[Current] = files[Current])

\* The two lists of a run: what is still to be undone and what could not be.
ListsTrue ==
  /\ \A i \in 1..Len(replaced) : /\ files[replaced[i].path] # old[replaced[i].path]
                                 /\ replaced[i].backup <=> old[replaced[i].path] # Absent
                                 /\ replaced[i].path \notin failed
  /\ \A i, j \in 1..Len(replaced) : replaced[i].path = replaced[j].path => i = j
  /\ \A f \in failed : files[f] # old[f]
  /\ "unlisted" \notin excused =>
       \A f \in Files : files[f] # old[f] =>
         f \in failed \/ \E i \in 1..Len(replaced) : replaced[i].path = f
  /\ \A t \in temps : t[2] = "lost" => "temps" \in excused

RunInv ==
  step # "idle" => /\ ListsTrue
                   /\ ~damaged => Registered(AsLoaded(old)) /\ Registered(want)

IntegrateInv ==
  /\ IntegrateTypeOK /\ RunInOrder /\ RunInv
  /\ WrittenOrReported /\ NothingLost /\ SelectionsRegistered

LEMMA ContentType ==
  ASSUME NEW c \in Contents \cup {Absent} PROVE Content(c) \in Contents /\ (c # Absent => Content(c) = c)
BY DEF Content, Contents, Empty

LEMMA FrontFacts ==
  ASSUME NEW S, NEW s \in Seq(S), s # <<>>
  PROVE  /\ Last(s) \in S /\ Len(s) \in 1..Len(s) /\ Last(s) = s[Len(s)]
         /\ Front(s) \in Seq(S) /\ Len(Front(s)) = Len(s) - 1
         /\ \A i \in 1..Len(Front(s)) : i \in 1..(Len(s) - 1) /\ Front(s)[i] = s[i]
         /\ \A i \in 1..(Len(s) - 1) : i \in 1..Len(Front(s))
<1>1. Len(s) \in Nat \ {0} /\ \A i \in 1..Len(s) : s[i] \in S
  OBVIOUS
<1>2. Front(s) = SubSeq(s, 1, Len(s) - 1)
  BY DEF Front
<1>3. /\ SubSeq(s, 1, Len(s) - 1) \in Seq(S)
      /\ Len(SubSeq(s, 1, Len(s) - 1)) = IF 1 <= Len(s) - 1 THEN Len(s) - 1 - 1 + 1 ELSE 0
      /\ \A i \in 1..(Len(s) - 1 - 1 + 1) : SubSeq(s, 1, Len(s) - 1)[i] = s[1 + i - 1]
  BY <1>1, SubSeqProperties
<1> HIDE DEF Front
<1>4. \A i \in 1..(Len(s) - 1) : i \in 1..(Len(s) - 1 - 1 + 1) /\ 1 + i - 1 = i
  BY <1>1
<1>5. Len(Front(s)) = Len(s) - 1
  <2>1. \A n \in Nat \ {0} : (IF 1 <= n - 1 THEN n - 1 - 1 + 1 ELSE 0) = n - 1
    OBVIOUS
  <2> QED
    BY <1>1, <1>2, <1>3, <2>1, Zenon
<1>6. \A i \in 1..(Len(s) - 1) : Front(s)[i] = s[i]
  BY <1>2, <1>3, <1>4
<1>7. Front(s) \in Seq(S)
  BY <1>2, <1>3
<1>8. Len(s) \in 1..Len(s) /\ s[Len(s)] \in S
  BY <1>1
<1> QED
  BY <1>5, <1>6, <1>7, <1>8, Zenon DEF Last

LEMMA ShortSequences ==
  ASSUME NEW S, NEW x \in S
  PROVE  /\ <<>> \in Seq(S) /\ Len(<<>>) = 0
         /\ <<x>> \in Seq(S) /\ Len(<<x>>) = 1 /\ <<x>>[1] = x
OBVIOUS

ContentsRead == want \in [Files -> Contents] /\ old \in [Files -> Contents \cup {Absent}]

\* What a run has to write: the files whose content changes, each once.
ChangedTrue ==
  /\ Len(Changed) \in 0..2
  /\ \A i \in 1..Len(Changed) : /\ Changed[i] \in Files
                                /\ want[Changed[i]] # Content(old[Changed[i]])
                                /\ want[Changed[i]] # old[Changed[i]]
  /\ \A i, j \in 1..Len(Changed) : Changed[i] = Changed[j] => i = j
  /\ \A f \in Files : want[f] # Content(old[f]) => \E i \in 1..Len(Changed) : Changed[i] = f

LEMMA ChangedFacts == ContentsRead => ChangedTrue
<1> SUFFICES ASSUME want \in [Files -> Contents], old \in [Files -> Contents \cup {Absent}]
             PROVE  ChangedTrue
  BY DEF ContentsRead
<1> USE DEF ChangedTrue
<1> DEFINE first  == IfChanged("main")
           second == IfChanged("settings")
<1>1. /\ want["main"] # Content(old["main"]) => first = <<"main">>
      /\ want["main"] = Content(old["main"]) => first = <<>>
      /\ want["settings"] # Content(old["settings"]) => second = <<"settings">>
      /\ want["settings"] = Content(old["settings"]) => second = <<>>
  BY DEF IfChanged
<1>2. Changed = first \o second
  BY DEF Changed
<1> HIDE DEF first, second
<1>3. first \in Seq(Files) /\ second \in Seq(Files)
  <2>1. "main" \in Files /\ "settings" \in Files
    BY DEF Files
  <2> QED
    BY <1>1, <2>1, ShortSequences
<1>4. /\ Len(Changed) = Len(first) + Len(second)
      /\ \A i \in 1..(Len(first) + Len(second)) :
           Changed[i] = IF i <= Len(first) THEN first[i] ELSE second[i - Len(first)]
  BY <1>2, <1>3, ConcatProperties
<1>5. \A f \in Files : want[f] # Content(old[f]) => want[f] # old[f]
  BY IntegrateAssumption DEF Content
<1>6. CASE want["main"] # Content(old["main"]) /\ want["settings"] # Content(old["settings"])
  <2>1. Len(Changed) = 2 /\ Changed[1] = "main" /\ Changed[2] = "settings"
    <3>1. first = <<"main">> /\ second = <<"settings">>
      BY <1>1, <1>6
    <3>2. Len(first) = 1 /\ Len(second) = 1 /\ first[1] = "main" /\ second[1] = "settings"
      BY <3>1, ShortSequences
    <3> QED
      BY <1>4, <3>2
  <2> QED
    BY <1>5, <1>6, <2>1 DEF Files
<1>7. CASE want["main"] # Content(old["main"]) /\ want["settings"] = Content(old["settings"])
  <2>1. Len(Changed) = 1 /\ Changed[1] = "main"
    <3>1. first = <<"main">> /\ second = <<>>
      BY <1>1, <1>7
    <3>2. Len(first) = 1 /\ Len(second) = 0 /\ first[1] = "main"
      BY <3>1, ShortSequences
    <3> QED
      BY <1>4, <3>2
  <2> QED
    BY <1>5, <1>7, <2>1 DEF Files
<1>8. CASE want["main"] = Content(old["main"]) /\ want["settings"] # Content(old["settings"])
  <2>1. Len(Changed) = 1 /\ Changed[1] = "settings"
    <3>1. first = <<>> /\ second = <<"settings">>
      BY <1>1, <1>8
    <3>2. Len(first) = 0 /\ Len(second) = 1 /\ second[1] = "settings"
      BY <3>1, ShortSequences
    <3> QED
      BY <1>4, <3>2
  <2> QED
    BY <1>5, <1>8, <2>1 DEF Files
<1>9. CASE want["main"] = Content(old["main"]) /\ want["settings"] = Content(old["settings"])
  <2>1. Len(Changed) = 0
    <3>1. first = <<>> /\ second = <<>>
      BY <1>1, <1>9
    <3>2. Len(first) = 0 /\ Len(second) = 0
      BY <3>1, ShortSequences
    <3> QED
      BY <1>4, <3>2
  <2> QED
    BY <1>9, <2>1 DEF Files
<1> QED
  BY <1>6, <1>7, <1>8, <1>9

-----------------------------------------------------------------------------
(* The edits.                                                              *)

LEMMA ClearedType ==
  ASSUME agent \in {"pi", "opencode"}, NEW data \in [Files -> Contents], NEW removed
  PROVE  /\ ClearSelections(data, removed) \in [Files -> Contents]
         /\ ClearSelections(data, removed)["main"].models = data["main"].models
         /\ \A s \in ClearSelections(data, removed)[SettingsFile].selected :
              /\ s \in data[SettingsFile].selected /\ ~PointsAtRemoved(s, removed)
              /\ s.provider \in Providers /\ s.model \in Models
BY DEF ClearSelections, Files, Contents, SettingsFile, Refs

LEMMA ModelsEdited ==
  ASSUME agent \in {"pi", "opencode"}, NEW data \in [Files -> Contents],
         NEW models \in (SUBSET Models) \cup {Unregistered}
  PROVE  LET edited == [data EXCEPT !["main"].models = models]
         IN  /\ edited \in [Files -> Contents]
             /\ edited["main"].models = models
             /\ edited[SettingsFile].selected = data[SettingsFile].selected
BY DEF Files, Contents, SettingsFile

LEMMA ApplyRegistered ==
  ASSUME agent \in {"pi", "opencode"}, NEW data \in [Files -> Contents],
         NEW specs \in SUBSET Models, NEW prune \in BOOLEAN
  PROVE  /\ Apply(data, specs, prune) \in [Files -> Contents]
         /\ Registered(data) => Registered(Apply(data, specs, prune))
         /\ specs \subseteq ModelIds(Apply(data, specs, prune))
<1> DEFINE stale == ModelIds(data) \ specs
           kept  == specs \cup (ModelIds(data) \ IF prune THEN stale ELSE {})
           added == [data EXCEPT !["main"].models = kept]
<1>1. ModelIds(data) \in SUBSET Models
  BY DEF ModelIds, Contents, Files
<1>2. kept \in SUBSET Models
  BY <1>1
<1> HIDE DEF kept
<1>3. /\ added \in [Files -> Contents] /\ added["main"].models = kept
      /\ added[SettingsFile].selected = data[SettingsFile].selected
  BY <1>2, ModelsEdited
<1>4. kept # Unregistered
  BY <1>2, IntegrateAssumption
<1> HIDE DEF added
<1>5. CASE prune
  <2>1. Apply(data, specs, prune) = ClearSelections(added, stale)
    BY <1>5 DEF Apply, added, kept
  <2>2. kept = specs
    BY <1>5 DEF kept
  <2> DEFINE result == ClearSelections(added, stale)
  <2>3. /\ result \in [Files -> Contents] /\ result["main"].models = kept
        /\ \A s \in result[SettingsFile].selected :
             s \in data[SettingsFile].selected /\ ~PointsAtRemoved(s, stale)
    BY <1>3, ClearedType
  <2> HIDE DEF result
  <2>4. ModelIds(result) = specs
    BY <1>4, <2>2, <2>3 DEF ModelIds
  <2>5. Registered(data) => Registered(result)
    BY <2>3, <2>4 DEF Registered, PointsAtRemoved
  <2> QED
    BY <2>1, <2>3, <2>4, <2>5 DEF result
<1>6. CASE ~prune
  <2>1. Apply(data, specs, prune) = added
    BY <1>6 DEF Apply, added, kept
  <2>2. ModelIds(added) = kept /\ kept = specs \cup ModelIds(data)
    BY <1>3, <1>4, <1>6 DEF ModelIds, kept
  <2> QED
    BY <1>3, <2>1, <2>2 DEF Registered
<1> QED
  BY <1>5, <1>6

LEMMA RemoveRegistered ==
  ASSUME agent \in {"pi", "opencode"}, NEW data \in [Files -> Contents],
         NEW names \in SUBSET Models
  PROVE  /\ RemoveModels(data, names) \in [Files -> Contents]
         /\ Registered(data) => Registered(RemoveModels(data, names))
<1>1. CASE names = {}
  <2> DEFINE emptied == [data EXCEPT !["main"].models = Unregistered]
  <2>1. emptied \in [Files -> Contents]
    BY ModelsEdited
  <2> HIDE DEF emptied
  <2>2. RemoveModels(data, names) = ClearSelections(emptied, Models)
    BY <1>1 DEF RemoveModels, emptied
  <2>3. /\ ClearSelections(emptied, Models) \in [Files -> Contents]
        /\ \A s \in ClearSelections(emptied, Models)[SettingsFile].selected :
             s.provider # "drove"
    BY <2>1, ClearedType DEF PointsAtRemoved
  <2> QED
    BY <2>2, <2>3 DEF Registered
<1>2. CASE names # {}
  <2> DEFINE models == IF data["main"].models = Unregistered THEN Unregistered
                       ELSE data["main"].models \ names
             edited == [data EXCEPT !["main"].models = models]
             shrunk == IF data["main"].models = Unregistered THEN data
                       ELSE [data EXCEPT !["main"].models = @ \ names]
  <2>1. models \in (SUBSET Models) \cup {Unregistered}
    BY DEF Contents, Files
  <2>2. /\ shrunk \in [Files -> Contents]
        /\ shrunk["main"].models = models
        /\ shrunk[SettingsFile].selected = data[SettingsFile].selected
    <3>1. CASE data["main"].models = Unregistered
      BY <3>1
    <3>2. CASE data["main"].models # Unregistered
      <4>1. shrunk = edited
        BY <3>2
      <4> HIDE DEF shrunk, models
      <4> QED
        BY <4>1, <2>1, ModelsEdited
    <3> QED
      BY <3>1, <3>2
  <2>3. RemoveModels(data, names) = ClearSelections(shrunk, names)
    BY <1>2 DEF RemoveModels
  <2> HIDE DEF shrunk
  <2> DEFINE result == ClearSelections(shrunk, names)
  <2>4. /\ result \in [Files -> Contents] /\ result["main"].models = models
        /\ \A s \in result[SettingsFile].selected :
             s \in data[SettingsFile].selected /\ ~PointsAtRemoved(s, names)
    BY <2>2, ClearedType
  <2> HIDE DEF result
  <2>5. Registered(data) => Registered(result)
    <3>1. data["main"].models = Unregistered => ModelIds(data) = {}
      BY DEF ModelIds
    <3>2. data["main"].models # Unregistered => ModelIds(result) = ModelIds(data) \ names
      <4> SUFFICES ASSUME data["main"].models # Unregistered
                   PROVE  ModelIds(result) = ModelIds(data) \ names
        OBVIOUS
      <4>1. data["main"].models \ names \in SUBSET Models
        BY DEF Contents, Files
      <4>2. result["main"].models = data["main"].models \ names
        BY <2>4
      <4> QED
        BY <4>1, <4>2, IntegrateAssumption DEF ModelIds
    <3> QED
      BY <2>4, <3>1, <3>2 DEF Registered, PointsAtRemoved
  <2> QED
    BY <2>3, <2>4, <2>5 DEF result
<1> QED
  BY <1>1, <1>2

LEMMA SetDefaultRegistered ==
  ASSUME agent \in {"pi", "opencode"}, NEW data \in [Files -> Contents],
         NEW model \in Models, model \in ModelIds(data)
  PROVE  /\ SetDefault(data, model) \in [Files -> Contents]
         /\ Registered(data) => Registered(SetDefault(data, model))
<1> DEFINE ref == [key |-> "default", provider |-> "drove", model |-> model]
           result == SetDefault(data, model)
<1>1. ref \in Refs
  BY DEF Refs, Keys, Providers
<1>2. /\ result \in [Files -> Contents] /\ result["main"].models = data["main"].models
      /\ \A s \in result[SettingsFile].selected : s \in data[SettingsFile].selected \/ s = ref
  BY <1>1 DEF SetDefault, Files, Contents, SettingsFile
<1> HIDE DEF result
<1>3. ModelIds(result) = ModelIds(data)
  BY <1>2 DEF ModelIds
<1>4. Registered(data) => Registered(result)
  BY <1>2, <1>3 DEF Registered
<1> QED
  BY <1>2, <1>4 DEF result

\* An accepted run leaves every selection of drove's with its model registered.
LEMMA EditedRegistered ==
  ASSUME agent \in {"pi", "opencode"}, offered \subseteq Models, LoadedFiles \in [Files -> Contents],
         NEW request \in Requests, ~Refused(request)
  PROVE  /\ Edited(request) \in [Files -> Contents]
         /\ Registered(LoadedFiles) => Registered(Edited(request))
<1>1. ModelIds(LoadedFiles) \in SUBSET Models
  BY DEF ModelIds, Contents, Files
<1>2. Specs(request) \in SUBSET Models
  BY DEF Specs, Requests
<1>3. CASE request.remove
  BY <1>3, RemoveRegistered DEF Edited, Requests
<1>4. CASE ~request.remove /\ Specs(request) = {}
  BY <1>1, <1>4, RemoveRegistered DEF Edited
<1>5. CASE ~request.remove /\ Specs(request) # {}
  <2> DEFINE prune == request.names = {}
             applied == Apply(LoadedFiles, Specs(request), prune)
  <2>1. /\ applied \in [Files -> Contents]
        /\ Registered(LoadedFiles) => Registered(applied)
        /\ Specs(request) \subseteq ModelIds(applied)
    BY <1>2, ApplyRegistered
  <2>2. Edited(request) = IF request.default = NoModel THEN applied
                          ELSE SetDefault(applied, request.default)
    BY <1>5 DEF Edited
  <2>3. request.default \in Specs(request) \cup {NoModel}
    BY <1>5 DEF Refused
  <2> HIDE DEF applied
  <2> QED
    BY <1>2, <2>1, <2>2, <2>3, SetDefaultRegistered
<1> QED
  BY <1>3, <1>4, <1>5
-----------------------------------------------------------------------------
(* Between runs.                                                           *)

LEMMA IntegrateInitInv == IntegrateInit => IntegrateInv
<1> SUFFICES ASSUME IntegrateInit PROVE IntegrateInv
  OBVIOUS
<1>1. \A f \in Files : files[f] = Absent /\ old[f] = Absent /\ Content(files[f]) = Empty
  BY DEF IntegrateInit, Content
<1>2. Empty \in Contents /\ Empty.selected = {}
  BY DEF Empty, Contents
<1>3. IntegrateTypeOK
  <2>1. files \in [Files -> Contents \cup {Absent}] /\ bak \in [Files -> Contents \cup {Absent, CutShort}]
    BY DEF IntegrateInit
  <2>2. want \in [Files -> Contents] /\ old = files
    BY <1>2 DEF IntegrateInit
  <2>3. replaced \in Seq([path : Files, backup : BOOLEAN])
    BY DEF IntegrateInit
  <2>4. damaged \in BOOLEAN /\ offered \subseteq Models
    BY Zenon DEF IntegrateInit
  <2> QED
    BY <2>1, <2>2, <2>3, <2>4 DEF IntegrateInit, IntegrateTypeOK
<1>4. SelectionsRegistered
  BY <1>1, <1>2 DEF SelectionsRegistered, LoadedFiles, SettingsFile, Files, IntegrateInit
<1>5. NothingLost
  BY <1>1 DEF NothingLost, Differs
<1>6. RunInOrder /\ RunInv /\ WrittenOrReported
  BY DEF IntegrateInit, RunInOrder, RunInv, WrittenOrReported, Writing
<1> QED
  BY <1>3, <1>4, <1>5, <1>6 DEF IntegrateInv

LEMMA ChangeStoreInv ==
  ASSUME IntegrateInv, NEW models \in SUBSET Models, ChangeStore(models)
  PROVE  IntegrateInv'
<1>1. /\ step = "idle" /\ offered' \subseteq Models
      /\ UNCHANGED <<agent, files, old, want, step, outcome, runVars>>
  BY DEF ChangeStore, UserEdits
<1>2. IntegrateTypeOK'
  BY <1>1 DEF IntegrateInv, IntegrateTypeOK, runVars
<1>3. RunInOrder' /\ RunInv'
  BY <1>1 DEF RunInOrder, RunInv, Writing
<1>4. WrittenOrReported' /\ NothingLost'
  BY <1>1 DEF IntegrateInv, WrittenOrReported, NothingLost, Differs, Content, runVars
<1>5. SelectionsRegistered'
  BY <1>1 DEF IntegrateInv, SelectionsRegistered, LoadedFiles, SettingsFile, ModelIds, Content,
              runVars
<1> QED
  BY <1>2, <1>3, <1>4, <1>5 DEF IntegrateInv

LEMMA SelectInAgentInv ==
  ASSUME IntegrateInv, NEW ref \in Refs, SelectInAgent(ref)
  PROVE  IntegrateInv'
<1>1. /\ step = "idle" /\ files["main"] # Absent /\ old' = files' /\ outcome' = "none"
      /\ ref.provider = "drove" => ref.model \in ModelIds(LoadedFiles)
      /\ UNCHANGED <<agent, offered, want, step, runVars>>
  BY DEF SelectInAgent, UserEdits
<1>2. LoadedFiles \in [Files -> Contents] /\ SettingsFile \in Files
  BY ContentType DEF IntegrateInv, IntegrateTypeOK, LoadedFiles, SettingsFile, Files
<1> DEFINE loaded == LoadedFiles[SettingsFile]
           chosen == [loaded EXCEPT !.selected = {s \in @ : s.key # ref.key} \cup {ref}]
<1>3. chosen \in Contents /\ chosen.models = loaded.models
  BY <1>2 DEF Contents
<1>4. \A s \in chosen.selected : s \in loaded.selected \/ s = ref
  BY <1>2 DEF Contents
<1>5. files' = [files EXCEPT ![SettingsFile] = chosen]
  BY DEF SelectInAgent
<1> HIDE DEF chosen
<1>6. /\ files' \in [Files -> Contents \cup {Absent}]
      /\ files'[SettingsFile] = chosen /\ \A f \in Files \ {SettingsFile} : files'[f] = files[f]
  BY <1>2, <1>3, <1>5 DEF IntegrateInv, IntegrateTypeOK
<1>7. IntegrateTypeOK'
  BY <1>1, <1>6 DEF IntegrateInv, IntegrateTypeOK, runVars
<1>8. RunInOrder' /\ RunInv'
  BY <1>1 DEF RunInOrder, RunInv, Writing
<1>9. WrittenOrReported' /\ NothingLost'
  BY <1>1 DEF WrittenOrReported, NothingLost, Differs
<1>10. SelectionsRegistered'
  <2>1. SettingsFile' = SettingsFile /\ damaged' = damaged /\ step' = step
    BY <1>1 DEF SettingsFile, runVars
  <2>2. /\ LoadedFiles'[SettingsFile] = chosen
        /\ \A f \in Files \ {SettingsFile} : LoadedFiles'[f] = LoadedFiles[f]
    BY <1>2, <1>3, <1>6, IntegrateAssumption DEF LoadedFiles, Content
  <2>3. LoadedFiles'["main"].models = LoadedFiles["main"].models
    BY <1>3, <2>2 DEF Files
  <2>4. ModelIds(LoadedFiles)' = ModelIds(LoadedFiles)
    BY <2>3 DEF ModelIds
  <2> QED
    BY <1>1, <1>4, <2>1, <2>2, <2>4 DEF IntegrateInv, SelectionsRegistered
<1> QED
  BY <1>7, <1>8, <1>9, <1>10 DEF IntegrateInv

LEMMA RunIntegrateInv ==
  ASSUME IntegrateInv, NEW request \in Requests, RunIntegrate(request)
  PROVE  IntegrateInv'
<1>1. /\ step = "idle" /\ ~Refused(request) /\ old' = files /\ want' = Edited(request)
      /\ temps' = {} /\ pos' = 1 /\ replaced' = <<>> /\ failed' = {}
      /\ cause' = "none" /\ excused' = {}
      /\ UNCHANGED <<agent, offered, files, bak, damaged>>
  BY DEF RunIntegrate
<1>2. \/ step' = "idle" /\ outcome' = "written" /\ want' = LoadedFiles
      \/ step' = "staging" /\ outcome' = "none" /\ want' # LoadedFiles
  BY DEF RunIntegrate
<1>3. LoadedFiles \in [Files -> Contents]
  BY ContentType DEF IntegrateInv, IntegrateTypeOK, LoadedFiles
<1>4. /\ want' \in [Files -> Contents]
      /\ Registered(LoadedFiles) => Registered(want)'
  <2>1. /\ Edited(request) \in [Files -> Contents]
        /\ Registered(LoadedFiles) => Registered(Edited(request))
    BY <1>1, <1>3, EditedRegistered DEF IntegrateInv, IntegrateTypeOK
  <2> QED
    BY <1>1, <2>1 DEF Registered, SettingsFile, ModelIds
<1>5. old' \in [Files -> Contents \cup {Absent}]
  BY <1>1 DEF IntegrateInv, IntegrateTypeOK
<1>6. step' = "staging" => 1 <= Len(Changed')
  <2> SUFFICES ASSUME want' # LoadedFiles PROVE 1 <= Len(Changed')
    BY <1>2
  <2>1. PICK f \in Files : want'[f] # LoadedFiles[f]
    BY <1>3, <1>4
  <2>2. want'[f] # Content(old'[f])
    BY <1>1, <2>1 DEF LoadedFiles
  <2>3. Len(Changed') \in 0..2 /\ \E i \in 1..Len(Changed') : Changed'[i] = f
    <3>1. ContentsRead' => ChangedTrue'
      BY ChangedFacts, PTL
    <3> QED
      BY <1>4, <1>5, <2>2, <3>1 DEF ContentsRead, ChangedTrue
  <2> QED
    BY <2>3
<1>7. IntegrateTypeOK'
  <2>1. replaced' \in Seq([path : Files, backup : BOOLEAN])
    BY <1>1
  <2> QED
    BY <1>1, <1>2, <1>4, <1>5, <1>6, <2>1 DEF IntegrateInv, IntegrateTypeOK
<1>8. RunInOrder'
  <2>1. \A j \in 1..Len(Changed') : files'[Changed'[j]] = old'[Changed'[j]]
    BY <1>1
  <2> QED
    BY <1>1, <1>2, <2>1 DEF RunInOrder, Writing
<1>9. RunInv'
  <2>1. ListsTrue'
    <3>1. Len(replaced') = 0
      BY <1>1
    <3> QED
      BY <1>1, <3>1 DEF ListsTrue
  <2>2. ~damaged' => Registered(AsLoaded(old))'
    <3>1. AsLoaded(old)' = LoadedFiles /\ agent' = agent
      BY <1>1 DEF AsLoaded, LoadedFiles
    <3>2. ~damaged' => Registered(LoadedFiles)
      BY <1>1 DEF IntegrateInv, SelectionsRegistered, Registered
    <3> QED
      BY <3>1, <3>2 DEF Registered, SettingsFile, ModelIds
  <2>3. ~damaged' => Registered(want)'
    BY <1>1, <1>4 DEF IntegrateInv, SelectionsRegistered, Registered
  <2> QED
    BY <2>1, <2>2, <2>3 DEF RunInv
<1>10. WrittenOrReported'
  <2>1. step' = "idle" => \A f \in Files : Content(files'[f]) = want'[f]
    BY <1>1, <1>2 DEF LoadedFiles
  <2> QED
    BY <1>1, <1>2, <2>1 DEF WrittenOrReported
<1>11. NothingLost'
  BY <1>1 DEF NothingLost, Differs
<1>12. SelectionsRegistered'
  BY <1>1 DEF IntegrateInv, SelectionsRegistered, LoadedFiles, SettingsFile, ModelIds
<1> QED
  BY <1>7, <1>8, <1>9, <1>10, <1>11, <1>12 DEF IntegrateInv
-----------------------------------------------------------------------------
(* The steps of a run.                                                     *)

LEMMA CurrentFacts ==
  ASSUME IntegrateInv, step \in Writing
  PROVE  /\ ChangedTrue /\ pos \in 1..Len(Changed) /\ Current \in Files
         /\ files[Current] = old[Current] /\ want[Current] # old[Current]
         /\ Len(Changed) \in 1..2
<1>1. ChangedTrue
  BY ChangedFacts DEF IntegrateInv, IntegrateTypeOK, ContentsRead
<1>2. pos \in 1..Len(Changed) /\ Len(Changed) \in 1..2
  BY <1>1 DEF IntegrateInv, IntegrateTypeOK, Writing, ChangedTrue
<1>3. files[Changed[pos]] = old[Changed[pos]]
  BY <1>2 DEF IntegrateInv, RunInOrder
<1> QED
  BY <1>1, <1>2, <1>3 DEF Current, ChangedTrue

LEMMA SameChanged == (old' = old /\ want' = want) => Changed' = Changed
BY DEF Changed, IfChanged, Content

\* A step that leaves the run's reading alone leaves what it is to become as it was.
LEMMA SameRegistered ==
  (agent' = agent /\ old' = old /\ want' = want)
    => /\ Registered(AsLoaded(old))' <=> Registered(AsLoaded(old))
       /\ Registered(want)' <=> Registered(want)
BY DEF Registered, AsLoaded, Content, SettingsFile, ModelIds

\* Which places of the list are behind, after one more.
LEMMA Advanced ==
  ASSUME IntegrateInv, step \in Writing, NEW here, NEW then, Advance(here, then)
  PROVE  /\ \/ pos = Len(Changed) /\ pos' = 1 /\ step' = then
            \/ pos' = pos + 1 /\ step' = here
         /\ pos' \in 1..2 /\ pos' \in 1..Len(Changed) /\ pos' <= Len(Changed)
<1>1. pos \in 1..Len(Changed) /\ Len(Changed) \in 1..2
  BY CurrentFacts
<1>2. PICK n \in 1..2 : n = Len(Changed)
  BY <1>1
<1>3. pos \in 1..n
  BY <1>1, <1>2
<1>4. \/ pos = n /\ pos' = 1 /\ step' = then
      \/ pos # n /\ pos' = pos + 1 /\ step' = here
  BY <1>2 DEF Advance
<1>5. pos' \in 1..n /\ pos' \in 1..2 /\ pos' <= n
  BY <1>3, <1>4
<1> QED
  BY <1>2, <1>4, <1>5

LEMMA StageInv == IntegrateInv /\ Stage => IntegrateInv'
<1> SUFFICES ASSUME IntegrateInv, Stage PROVE IntegrateInv'
  OBVIOUS
<1>1. /\ step = "staging" /\ temps' = temps \cup {<<Current, "staged">>}
      /\ Advance("staging", "backup")
      /\ UNCHANGED <<agent, offered, files, old, want, bak, replaced, failed, cause, outcome,
                     excused, damaged>>
  BY DEF Stage
<1>2. step \in Writing
  BY <1>1 DEF Writing
<1>3. /\ ChangedTrue /\ pos \in 1..Len(Changed) /\ Current \in Files /\ Len(Changed) \in 1..2
  BY <1>2, CurrentFacts
<1>4. Changed' = Changed
  BY <1>1, SameChanged
<1>5. \/ pos = Len(Changed) /\ pos' = 1 /\ step' = "backup"
      \/ pos' = pos + 1 /\ step' = "staging"
  BY <1>1, <1>2, Advanced
<1>6. /\ pos' \in 1..2 /\ pos' \in 1..Len(Changed') /\ pos' <= Len(Changed')
      /\ step' \in {"staging", "backup"}
  BY <1>1, <1>2, <1>4, <1>5, Advanced
<1>7. IntegrateTypeOK'
  <2>2. temps' \subseteq Files \X {"staged", "lost", "restore"}
    BY <1>1, <1>3 DEF IntegrateInv, IntegrateTypeOK
  <2> QED
    BY <1>1, <1>6, <2>2 DEF IntegrateInv, IntegrateTypeOK
<1>8. RunInOrder'
  <2>1. \A j \in 1..Len(Changed) : files[Changed[j]] = old[Changed[j]]
    BY <1>1, <1>2 DEF IntegrateInv, RunInOrder
  <2>2. /\ \A f \in Files : want[f] = Content(old[f]) => files[f] = old[f]
        /\ excused = {} /\ failed = {}
    BY <1>1, <1>2 DEF IntegrateInv, RunInOrder
  <2>3. \A t \in temps' : t[2] = "staged" /\ \E j \in 1..Len(Changed) : t[1] = Changed[j]
    BY <1>1, <1>2, <1>3 DEF IntegrateInv, RunInOrder, Current
  <2>4. pos' = 1 \/ step' = "staging"
    BY <1>5
  <2>5. \A j \in 1..Len(Changed') : ~(j < pos' /\ step' # "staging") /\ (step' # "staging" => j >= pos')
    BY <1>3, <1>4, <2>4
  <2> QED
    BY <1>1, <1>4, <1>6, <2>1, <2>2, <2>3, <2>5 DEF RunInOrder, Content
<1>9. RunInv'
  <2>1. ListsTrue'
    BY <1>1 DEF IntegrateInv, RunInv, ListsTrue
  <2> QED
    BY <1>1, <2>1, SameRegistered DEF IntegrateInv, RunInv
<1>10. NothingLost'
  BY <1>1 DEF IntegrateInv, NothingLost, Differs
<1>11. WrittenOrReported' /\ SelectionsRegistered'
  BY <1>6 DEF WrittenOrReported, SelectionsRegistered
<1> QED
  BY <1>7, <1>8, <1>9, <1>10, <1>11 DEF IntegrateInv

LEMMA BackupInv == IntegrateInv /\ Backup => IntegrateInv'
<1> SUFFICES ASSUME IntegrateInv, Backup PROVE IntegrateInv'
  OBVIOUS
<1>1. /\ step = "backup" /\ step' = "replace"
      /\ bak' = IF files[Current] = Absent THEN bak ELSE [bak EXCEPT ![Current] = files[Current]]
      /\ UNCHANGED <<agent, offered, files, old, want, temps, pos, replaced, failed, cause,
                     outcome, excused, damaged>>
  BY DEF Backup
<1>2. step \in Writing /\ step' \in Writing
  BY <1>1 DEF Writing
<1>3. /\ pos \in 1..Len(Changed) /\ Current \in Files /\ files[Current] = old[Current]
  BY <1>2, CurrentFacts
<1>4. Changed' = Changed /\ Current' = Current
  BY <1>1, SameChanged DEF Current
<1>5. /\ bak' \in [Files -> Contents \cup {Absent, CutShort}]
      /\ files[Current] # Absent => bak'[Current] = files[Current]
      /\ \A f \in Files \ {Current} : bak'[f] = bak[f]
  BY <1>1, <1>3 DEF IntegrateInv, IntegrateTypeOK
<1>6. IntegrateTypeOK'
  BY <1>1, <1>4, <1>5 DEF IntegrateInv, IntegrateTypeOK
<1>7. RunInOrder'
  BY <1>1, <1>2, <1>4, <1>5 DEF IntegrateInv, RunInOrder, Content
<1>8. RunInv'
  <2>1. ListsTrue'
    BY <1>1 DEF IntegrateInv, RunInv, ListsTrue
  <2> QED
    BY <1>1, <2>1, SameRegistered DEF IntegrateInv, RunInv
<1>9. NothingLost'
  BY <1>1, <1>3, <1>5 DEF IntegrateInv, NothingLost, Differs
<1>10. WrittenOrReported' /\ SelectionsRegistered'
  BY <1>1 DEF WrittenOrReported, SelectionsRegistered
<1> QED
  BY <1>6, <1>7, <1>8, <1>9, <1>10 DEF IntegrateInv

\* The file that is replaced is one that was as it had been read.
LEMMA Replaced ==
  ASSUME IntegrateInv, step = "replace", files' = [files EXCEPT ![Current] = want[Current]],
         UNCHANGED <<old, want, bak>>
  PROVE  /\ files' \in [Files -> Contents \cup {Absent}] /\ files'[Current] = want[Current]
         /\ \A f \in Files \ {Current} : files'[f] = files[f]
         /\ NothingLost'
<1>1. /\ Current \in Files /\ files[Current] = old[Current] /\ want[Current] # old[Current]
  BY CurrentFacts DEF Writing
<1>2. /\ files' \in [Files -> Contents \cup {Absent}] /\ files'[Current] = want[Current]
      /\ \A f \in Files \ {Current} : files'[f] = files[f]
  BY <1>1 DEF IntegrateInv, IntegrateTypeOK
<1>3. files[Current] # Absent => bak[Current] = files[Current]
  BY DEF IntegrateInv, RunInOrder
<1> QED
  BY <1>1, <1>2, <1>3 DEF IntegrateInv, NothingLost, Differs

LEMMA ReplaceInv == IntegrateInv /\ Replace => IntegrateInv'
<1> SUFFICES ASSUME IntegrateInv, Replace PROVE IntegrateInv'
  OBVIOUS
<1> DEFINE entry == [path |-> Current, backup |-> files[Current] # Absent]
<1>1. /\ step = "replace" /\ files' = [files EXCEPT ![Current] = want[Current]]
      /\ temps' = temps \ {<<Current, "staged">>}
      /\ replaced' = Append(replaced, entry)
      /\ Advance("backup", "idle")
      /\ outcome' = IF step' = "idle" THEN "written" ELSE outcome
      /\ UNCHANGED <<agent, offered, old, want, bak, failed, cause, excused, damaged>>
  BY DEF Replace
<1>2. step \in Writing
  BY <1>1 DEF Writing
<1>3. /\ ChangedTrue /\ pos \in 1..Len(Changed) /\ Current \in Files /\ Len(Changed) \in 1..2
      /\ files[Current] = old[Current] /\ want[Current] # old[Current]
  BY <1>2, CurrentFacts
<1>4. Changed' = Changed
  BY <1>1, SameChanged
<1>5. /\ files' \in [Files -> Contents \cup {Absent}] /\ files'[Current] = want[Current]
      /\ \A f \in Files \ {Current} : files'[f] = files[f]
      /\ NothingLost'
  BY <1>1, Replaced
<1>6. \/ pos = Len(Changed) /\ pos' = 1 /\ step' = "idle"
      \/ pos' = pos + 1 /\ step' = "backup"
  BY <1>1, <1>2, Advanced
<1>7. pos' \in 1..2 /\ pos' <= Len(Changed') /\ step' \in {"idle", "backup"}
  BY <1>1, <1>2, <1>4, <1>6, Advanced
<1>8. /\ replaced' \in Seq([path : Files, backup : BOOLEAN]) /\ Len(replaced') = Len(replaced) + 1
      /\ \A i \in 1..Len(replaced) : replaced'[i] = replaced[i]
      /\ replaced'[Len(replaced) + 1] = entry
      /\ Len(replaced) \in Nat
  BY <1>1, <1>3 DEF IntegrateInv, IntegrateTypeOK
<1>9. IntegrateTypeOK'
  BY <1>1, <1>5, <1>7, <1>8 DEF IntegrateInv, IntegrateTypeOK
\* Every file of the list behind the new place is as wanted, every other as it was.
<1>10. \A j \in 1..Len(Changed) :
         files'[Changed[j]] = IF j <= pos THEN want[Changed[j]] ELSE old[Changed[j]]
  <2> SUFFICES ASSUME NEW j \in 1..Len(Changed)
               PROVE  files'[Changed[j]] = IF j <= pos THEN want[Changed[j]] ELSE old[Changed[j]]
    OBVIOUS
  <2>1. CASE j = pos
    BY <1>3, <1>5, <2>1 DEF Current
  <2>2. CASE j # pos
    <3>1. Changed[j] \in Files \ {Current}
      BY <1>3, <2>2 DEF ChangedTrue, Current
    <3>2. files[Changed[j]] = IF j < pos THEN want[Changed[j]] ELSE old[Changed[j]]
      BY <1>1, <1>2 DEF IntegrateInv, RunInOrder
    <3> QED
      BY <1>3, <1>5, <2>2, <3>1, <3>2
  <2> QED
    BY <2>1, <2>2
<1>11. \A f \in Files : want[f] = Content(old[f]) => files'[f] = old[f]
  <2> SUFFICES ASSUME NEW f \in Files, want[f] = Content(old[f]) PROVE files'[f] = old[f]
    OBVIOUS
  <2>1. f # Current
    BY <1>3 DEF ChangedTrue, Current
  <2> QED
    BY <1>2, <1>5, <2>1 DEF IntegrateInv, RunInOrder
<1>12. /\ excused = {} /\ failed = {}
       /\ \A t \in temps' : t[2] = "staged" /\ \E j \in 1..Len(Changed) : t[1] = Changed[j] /\ j > pos
  <2>1. /\ excused = {} /\ failed = {}
        /\ \A t \in temps : t[2] = "staged" /\ \E j \in 1..Len(Changed) : t[1] = Changed[j] /\ j >= pos
    BY <1>1, <1>2 DEF IntegrateInv, RunInOrder
  <2> SUFFICES ASSUME NEW t \in temps'
               PROVE  t[2] = "staged" /\ \E j \in 1..Len(Changed) : t[1] = Changed[j] /\ j > pos
    BY <2>1
  <2>2. t \in temps /\ t # <<Current, "staged">> /\ t[2] = "staged" /\ t = <<t[1], t[2]>>
    BY <1>1, <2>1 DEF IntegrateInv, IntegrateTypeOK
  <2>3. PICK j \in 1..Len(Changed) : t[1] = Changed[j] /\ j >= pos
    BY <2>1, <2>2
  <2>4. j # pos
    BY <2>2, <2>3 DEF Current
  <2> QED
    BY <1>3, <2>2, <2>3, <2>4
<1>13. RunInOrder'
  <2> SUFFICES ASSUME step' = "backup" PROVE RunInOrder'
    BY <1>7 DEF RunInOrder, Writing
  <2>1. pos' = pos + 1
    BY <1>6
  <2>2. \A j \in 1..Len(Changed) : (j < pos' <=> j <= pos) /\ (j >= pos' <=> j > pos)
    BY <1>3, <2>1
  <2>3. \A t \in temps' : /\ t[2] = "staged"
                          /\ \E j \in 1..Len(Changed') : t[1] = Changed'[j] /\ j >= pos'
    BY <1>4, <1>12, <2>2
  <2>4. \A j \in 1..Len(Changed') :
          files'[Changed'[j]] = IF j < pos' THEN want'[Changed'[j]] ELSE old'[Changed'[j]]
    BY <1>1, <1>4, <1>10, <2>2
  <2>5. \A f \in Files : want'[f] = Content(old'[f]) => files'[f] = old'[f]
    BY <1>1, <1>11 DEF Content
  <2> QED
    BY <1>1, <1>12, <2>3, <2>4, <2>5 DEF RunInOrder
<1>14. step' # "idle" => ListsTrue'
  <2>1. ListsTrue
    BY <1>1 DEF IntegrateInv, RunInv
  <2>2. \A i \in 1..Len(replaced) : replaced[i].path \in Files \ {Current}
    <3>1. \A i \in 1..Len(replaced) : replaced[i] \in [path : Files, backup : BOOLEAN]
      BY ElementOfSeq DEF IntegrateInv, IntegrateTypeOK
    <3> QED
      BY <1>3, <2>1, <3>1 DEF ListsTrue
  <2>3. \A i \in 1..Len(replaced') : /\ files'[replaced'[i].path] # old[replaced'[i].path]
                                     /\ replaced'[i].backup <=> old[replaced'[i].path] # Absent
                                     /\ replaced'[i].path \notin failed
    <3> SUFFICES ASSUME NEW i \in 1..Len(replaced')
                 PROVE  /\ files'[replaced'[i].path] # old[replaced'[i].path]
                        /\ replaced'[i].backup <=> old[replaced'[i].path] # Absent
                        /\ replaced'[i].path \notin failed
      OBVIOUS
    <3>1. CASE i \in 1..Len(replaced)
      BY <1>5, <1>8, <2>1, <2>2, <3>1 DEF ListsTrue
    <3>2. CASE i = Len(replaced) + 1
      BY <1>3, <1>5, <1>8, <1>12, <3>2
    <3> QED
      BY <1>8, <3>1, <3>2
  <2>4. \A i, j \in 1..Len(replaced') : replaced'[i].path = replaced'[j].path => i = j
    <3> SUFFICES ASSUME NEW i \in 1..Len(replaced'), NEW j \in 1..Len(replaced'),
                        replaced'[i].path = replaced'[j].path
                 PROVE  i = j
      OBVIOUS
    <3>1. /\ i \in 1..Len(replaced) \/ i = Len(replaced) + 1
          /\ j \in 1..Len(replaced) \/ j = Len(replaced) + 1
      BY <1>8
    <3>2. replaced'[Len(replaced) + 1].path = Current
      BY <1>8
    <3>3. \A k \in 1..Len(replaced) : replaced'[k].path = replaced[k].path /\ replaced[k].path # Current
      BY <1>8, <2>2
    <3> QED
      BY <2>1, <3>1, <3>2, <3>3 DEF ListsTrue
  <2>5. \A f \in failed : files'[f] # old[f]
    BY <1>12
  <2>6. \A f \in Files : files'[f] # old[f] => \E i \in 1..Len(replaced') : replaced'[i].path = f
    <3> SUFFICES ASSUME NEW f \in Files, files'[f] # old[f]
                 PROVE  \E i \in 1..Len(replaced') : replaced'[i].path = f
      OBVIOUS
    <3>1. CASE f = Current
      BY <1>8, <3>1
    <3>2. CASE f # Current
      <4>1. PICK i \in 1..Len(replaced) : replaced[i].path = f
        BY <1>5, <1>12, <2>1, <3>2 DEF ListsTrue
      <4>2. i \in 1..Len(replaced') /\ replaced'[i].path = f
        BY <1>8, <4>1
      <4> QED
        BY <4>2
    <3> QED
      BY <3>1, <3>2
  <2>7. \A t \in temps' : t[2] # "lost"
    BY <1>12
  <2> QED
    BY <1>1, <2>3, <2>4, <2>5, <2>6, <2>7 DEF ListsTrue
<1>15. RunInv'
  <2>1. ~damaged => Registered(AsLoaded(old)) /\ Registered(want)
    BY <1>1 DEF IntegrateInv, RunInv
  <2> QED
    BY <1>1, <1>14, <2>1, SameRegistered DEF RunInv
<1>16. ASSUME step' = "idle"
       PROVE  WrittenOrReported' /\ SelectionsRegistered'
  <2>1. pos = Len(Changed)
    BY <1>6, <1>16
  <2>2. \A f \in Files : Content(files'[f]) = want[f]
    <3> SUFFICES ASSUME NEW f \in Files PROVE Content(files'[f]) = want[f]
      OBVIOUS
    <3>1. CASE want[f] = Content(old[f])
      BY <1>11, <3>1 DEF Content
    <3>2. CASE want[f] # Content(old[f])
      <4>1. PICK j \in 1..Len(Changed) : Changed[j] = f
        BY <1>3, <3>2 DEF ChangedTrue
      <4>2. files'[f] = want[f]
        BY <1>3, <1>10, <2>1, <4>1
      <4>3. want[f] \in Contents
        BY DEF IntegrateInv, IntegrateTypeOK
      <4> QED
        BY <4>2, <4>3, IntegrateAssumption DEF Content
    <3> QED
      BY <3>1, <3>2
  <2>3. temps' = {}
    BY <1>3, <1>12, <2>1
  <2>4. outcome' = "written"
    BY <1>1, <1>16
  <2>5. LoadedFiles' = want'
    BY <1>1, <2>2 DEF LoadedFiles, IntegrateInv, IntegrateTypeOK
  <2>6. ~damaged' => Registered(want)'
    BY <1>1, SameRegistered DEF IntegrateInv, RunInv
  <2> QED
    BY <1>1, <2>2, <2>3, <2>4, <2>5, <2>6 DEF WrittenOrReported, SelectionsRegistered, Registered, Content
<1>17. WrittenOrReported' /\ SelectionsRegistered'
  BY <1>16 DEF WrittenOrReported, SelectionsRegistered
<1> QED
  BY <1>5, <1>9, <1>13, <1>15, <1>17 DEF IntegrateInv

-----------------------------------------------------------------------------
(* What goes wrong, and the undoing.                                       *)

LEMMA StepFailsInv ==
  ASSUME IntegrateInv, NEW why \in {"error", "interrupt"}, StepFails(why)
  PROVE  IntegrateInv'
<1>1. /\ step \in Writing /\ step' = "undo" /\ cause' = why
      /\ UNCHANGED <<agent, offered, files, old, want, pos, replaced, failed, outcome, damaged>>
  BY DEF StepFails, Fault, Writing
<1>2. /\ Current \in Files /\ files[Current] = old[Current]
  BY <1>1, CurrentFacts
<1>3. \/ UNCHANGED <<temps, excused>>
      \/ temps' = temps \cup {<<Current, "lost">>} /\ excused' = excused \cup {"temps"}
  BY DEF StepFails
<1>4. bak' = bak \/ (bak' = [bak EXCEPT ![Current] = CutShort])
  BY DEF StepFails
<1>5. /\ bak' \in [Files -> Contents \cup {Absent, CutShort}]
      /\ \A f \in Files \ {Current} : bak'[f] = bak[f]
  BY <1>2, <1>4 DEF IntegrateInv, IntegrateTypeOK
<1>6. temps' \subseteq Files \X {"staged", "lost", "restore"}
  BY <1>2, <1>3 DEF IntegrateInv, IntegrateTypeOK
<1>7. IntegrateTypeOK'
  BY <1>1, <1>5, <1>6 DEF IntegrateInv, IntegrateTypeOK
<1>8. RunInOrder' /\ WrittenOrReported' /\ SelectionsRegistered'
  BY <1>1 DEF RunInOrder, WrittenOrReported, SelectionsRegistered, Writing
<1>9. RunInv'
  <2>1. ListsTrue
    BY <1>1 DEF IntegrateInv, RunInv, Writing
  <2>2. \A t \in temps' : t[2] = "lost" => "temps" \in excused'
    BY <1>3, <2>1 DEF ListsTrue
  <2>3. "unlisted" \in excused => "unlisted" \in excused'
    BY <1>3
  <2>4. ListsTrue'
    BY <1>1, <2>1, <2>2, <2>3 DEF ListsTrue
  <2>5. ~damaged => Registered(AsLoaded(old)) /\ Registered(want)
    BY <1>1 DEF IntegrateInv, RunInv, Writing
  <2> QED
    BY <1>1, <2>4, <2>5, SameRegistered DEF RunInv
<1>10. NothingLost'
  BY <1>1, <1>2, <1>5 DEF IntegrateInv, NothingLost, Differs
<1> QED
  BY <1>7, <1>8, <1>9, <1>10 DEF IntegrateInv

LEMMA InterruptUnlistedInv == IntegrateInv /\ InterruptUnlisted => IntegrateInv'
<1> SUFFICES ASSUME IntegrateInv, InterruptUnlisted PROVE IntegrateInv'
  OBVIOUS
<1>1. /\ step = "replace" /\ step' = "undo" /\ cause' = "interrupt"
      /\ files' = [files EXCEPT ![Current] = want[Current]]
      /\ temps' = temps \ {<<Current, "staged">>}
      /\ excused' = excused \cup {"unlisted"}
      /\ UNCHANGED <<agent, offered, old, want, bak, pos, replaced, failed, outcome, damaged>>
  BY DEF InterruptUnlisted, Fault
<1>2. /\ Current \in Files /\ files[Current] = old[Current]
  BY <1>1, CurrentFacts DEF Writing
<1>3. /\ files' \in [Files -> Contents \cup {Absent}]
      /\ \A f \in Files \ {Current} : files'[f] = files[f]
      /\ NothingLost'
  BY <1>1, Replaced
<1>4. temps' \subseteq Files \X {"staged", "lost", "restore"}
  BY <1>1 DEF IntegrateInv, IntegrateTypeOK
<1>5. IntegrateTypeOK'
  BY <1>1, <1>3, <1>4 DEF IntegrateInv, IntegrateTypeOK
<1>6. RunInOrder' /\ WrittenOrReported' /\ SelectionsRegistered'
  BY <1>1 DEF RunInOrder, WrittenOrReported, SelectionsRegistered, Writing
<1>7. RunInv'
  <2>1. ListsTrue
    BY <1>1 DEF IntegrateInv, RunInv
  <2>2. \A i \in 1..Len(replaced) : replaced[i].path \in Files \ {Current}
    <3>1. \A i \in 1..Len(replaced) : replaced[i] \in [path : Files, backup : BOOLEAN]
      BY ElementOfSeq DEF IntegrateInv, IntegrateTypeOK
    <3> QED
      BY <1>2, <2>1, <3>1 DEF ListsTrue
  <2>3. \A f \in failed : f \in Files \ {Current}
    BY <1>2, <2>1 DEF ListsTrue, IntegrateInv, IntegrateTypeOK
  <2>4. \A t \in temps' : t[2] = "lost" => "temps" \in excused'
    BY <1>1, <2>1 DEF ListsTrue
  <2>5. "unlisted" \in excused'
    BY <1>1
  <2>6. ListsTrue'
    BY <1>1, <1>3, <2>1, <2>2, <2>3, <2>4, <2>5 DEF ListsTrue
  <2>7. ~damaged => Registered(AsLoaded(old)) /\ Registered(want)
    BY <1>1 DEF IntegrateInv, RunInv
  <2> QED
    BY <1>1, <2>6, <2>7, SameRegistered DEF RunInv
<1> QED
  BY <1>3, <1>5, <1>6, <1>7 DEF IntegrateInv

\* What undoing the newest replacement finds.
LEMMA NewestFacts ==
  ASSUME IntegrateInv, step = "undo", replaced # <<>>
  PROVE  /\ Last(replaced).path \in Files /\ Last(replaced).path \notin failed
         /\ Front(replaced) \in Seq([path : Files, backup : BOOLEAN])
         /\ files[Last(replaced).path] # old[Last(replaced).path]
         /\ Last(replaced).backup <=> old[Last(replaced).path] # Absent
         /\ \A i \in 1..Len(Front(replaced)) : /\ Front(replaced)[i].path # Last(replaced).path
                                               /\ i \in 1..Len(replaced)
                                               /\ Front(replaced)[i] = replaced[i]
                                               /\ replaced[i].path \in Files
         /\ \A i \in 1..Len(replaced) :
              replaced[i].path # Last(replaced).path =>
                i \in 1..Len(Front(replaced)) /\ Front(replaced)[i] = replaced[i]
<1> DEFINE n == Len(replaced)
           S == [path : Files, backup : BOOLEAN]
<1>1. replaced \in Seq(S)
  BY DEF IntegrateInv, IntegrateTypeOK
<1>2. /\ Last(replaced) \in S /\ n \in 1..n /\ Last(replaced) = replaced[n]
      /\ Front(replaced) \in Seq(S)
      /\ \A i \in 1..Len(Front(replaced)) : i \in 1..(n - 1) /\ Front(replaced)[i] = replaced[i]
      /\ \A i \in 1..(n - 1) : i \in 1..Len(Front(replaced))
  BY <1>1, FrontFacts
<1>3. \A i \in 1..n : replaced[i] \in S
  BY <1>1, ElementOfSeq
<1>4. ListsTrue
  BY DEF IntegrateInv, RunInv
<1>5. n \in Nat
  BY <1>1
<1> HIDE DEF n
<1>6. \A i \in 1..n : i = n \/ i \in 1..(n - 1)
  BY <1>5
<1>7. \A i \in 1..(n - 1) : i \in 1..n /\ i # n
  BY <1>5
<1>8. /\ Last(replaced).path \in Files /\ Last(replaced).path \notin failed
      /\ files[Last(replaced).path] # old[Last(replaced).path]
      /\ Last(replaced).backup <=> old[Last(replaced).path] # Absent
  BY <1>2, <1>4 DEF ListsTrue, n
<1>9. \A i \in 1..Len(Front(replaced)) : /\ Front(replaced)[i].path # Last(replaced).path
                                         /\ i \in 1..n
                                         /\ Front(replaced)[i] = replaced[i]
                                         /\ replaced[i].path \in Files
  BY <1>2, <1>3, <1>4, <1>7 DEF ListsTrue, n
<1>10. \A i \in 1..n : replaced[i].path # Last(replaced).path =>
         i \in 1..Len(Front(replaced)) /\ Front(replaced)[i] = replaced[i]
  BY <1>2, <1>6
<1> QED
  BY <1>2, <1>8, <1>9, <1>10 DEF n

LEMMA RestoreInv == IntegrateInv /\ Restore => IntegrateInv'
<1> SUFFICES ASSUME IntegrateInv, Restore PROVE IntegrateInv'
  OBVIOUS
<1> DEFINE newest == Last(replaced).path
           front  == Front(replaced)
<1>1. /\ step = "undo" /\ replaced # <<>> /\ replaced' = front
      /\ files' = [files EXCEPT ![newest] = IF Last(replaced).backup THEN bak[newest] ELSE Absent]
      /\ UNCHANGED <<agent, offered, old, want, bak, temps, pos, failed, step, cause, outcome,
                     excused, damaged>>
  BY DEF Restore
<1>2. /\ newest \in Files /\ newest \notin failed
      /\ front \in Seq([path : Files, backup : BOOLEAN])
      /\ files[newest] # old[newest]
      /\ Last(replaced).backup <=> old[newest] # Absent
      /\ \A i \in 1..Len(front) : /\ front[i].path # newest /\ i \in 1..Len(replaced)
                                  /\ front[i] = replaced[i] /\ replaced[i].path \in Files
      /\ \A i \in 1..Len(replaced) :
           replaced[i].path # newest => i \in 1..Len(front) /\ front[i] = replaced[i]
  BY <1>1, NewestFacts
<1> HIDE DEF front, newest
<1>3. (IF Last(replaced).backup THEN bak[newest] ELSE Absent) = old[newest]
  BY <1>2 DEF IntegrateInv, NothingLost, Differs
<1>4. /\ files' \in [Files -> Contents \cup {Absent}] /\ files'[newest] = old[newest]
      /\ \A f \in Files \ {newest} : files'[f] = files[f]
  BY <1>1, <1>2, <1>3 DEF IntegrateInv, IntegrateTypeOK
<1>5. IntegrateTypeOK'
  BY <1>1, <1>2, <1>4 DEF IntegrateInv, IntegrateTypeOK
<1>6. RunInOrder' /\ WrittenOrReported' /\ SelectionsRegistered'
  BY <1>1 DEF RunInOrder, WrittenOrReported, SelectionsRegistered, Writing
<1>7. RunInv'
  <2>1. ListsTrue
    BY <1>1 DEF IntegrateInv, RunInv
  <2>2. \A i \in 1..Len(front) : /\ files'[front[i].path] # old[front[i].path]
                                 /\ front[i].backup <=> old[front[i].path] # Absent
                                 /\ front[i].path \notin failed
    BY <1>2, <1>4, <2>1 DEF ListsTrue
  <2>3. \A i, j \in 1..Len(front) : front[i].path = front[j].path => i = j
    BY <1>2, <2>1 DEF ListsTrue
  <2>4. \A f \in failed : files'[f] # old[f]
    BY <1>2, <1>4, <2>1 DEF ListsTrue, IntegrateInv, IntegrateTypeOK
  <2>5. "unlisted" \notin excused =>
          \A f \in Files : files'[f] # old[f] =>
            f \in failed \/ \E i \in 1..Len(front) : front[i].path = f
    <3> SUFFICES ASSUME "unlisted" \notin excused, NEW f \in Files, files'[f] # old[f], f \notin failed
                 PROVE  \E i \in 1..Len(front) : front[i].path = f
      OBVIOUS
    <3>1. f # newest /\ files[f] # old[f]
      BY <1>4
    <3>2. PICK i \in 1..Len(replaced) : replaced[i].path = f
      BY <2>1, <3>1 DEF ListsTrue
    <3>3. i \in 1..Len(front) /\ front[i] = replaced[i]
      BY <1>2, <3>1, <3>2
    <3> QED
      BY <3>2, <3>3
  <2>6. ListsTrue'
    BY <1>1, <2>1, <2>2, <2>3, <2>4, <2>5 DEF ListsTrue
  <2>7. ~damaged => Registered(AsLoaded(old)) /\ Registered(want)
    BY <1>1 DEF IntegrateInv, RunInv
  <2> QED
    BY <1>1, <2>6, <2>7, SameRegistered DEF RunInv
<1>8. NothingLost'
  BY <1>1, <1>4 DEF IntegrateInv, NothingLost, Differs
<1> QED
  BY <1>5, <1>6, <1>7, <1>8 DEF IntegrateInv

LEMMA RestoreFailsInv == IntegrateInv /\ RestoreFails => IntegrateInv'
<1> SUFFICES ASSUME IntegrateInv, RestoreFails PROVE IntegrateInv'
  OBVIOUS
<1> DEFINE newest == Last(replaced).path
           front  == Front(replaced)
<1>1. /\ step = "undo" /\ replaced # <<>> /\ replaced' = front
      /\ failed' = failed \cup {newest}
      /\ temps' = temps \/ temps' = temps \cup {<<newest, "restore">>}
      /\ UNCHANGED <<agent, offered, files, old, want, bak, pos, step, cause, outcome, excused,
                     damaged>>
  BY DEF RestoreFails
<1>2. /\ newest \in Files /\ newest \notin failed
      /\ front \in Seq([path : Files, backup : BOOLEAN])
      /\ files[newest] # old[newest]
      /\ \A i \in 1..Len(front) : /\ front[i].path # newest /\ i \in 1..Len(replaced)
                                  /\ front[i] = replaced[i] /\ replaced[i].path \in Files
      /\ \A i \in 1..Len(replaced) :
           replaced[i].path # newest => i \in 1..Len(front) /\ front[i] = replaced[i]
  BY <1>1, NewestFacts
<1> HIDE DEF front, newest
<1>3. temps' \subseteq Files \X {"staged", "lost", "restore"} /\ failed' \subseteq Files
  BY <1>1, <1>2 DEF IntegrateInv, IntegrateTypeOK
<1>4. IntegrateTypeOK'
  BY <1>1, <1>2, <1>3 DEF IntegrateInv, IntegrateTypeOK
<1>5. RunInOrder' /\ WrittenOrReported' /\ SelectionsRegistered'
  BY <1>1 DEF RunInOrder, WrittenOrReported, SelectionsRegistered, Writing
<1>6. RunInv'
  <2>1. ListsTrue
    BY <1>1 DEF IntegrateInv, RunInv
  <2>2. \A i \in 1..Len(front) : /\ files[front[i].path] # old[front[i].path]
                                 /\ front[i].backup <=> old[front[i].path] # Absent
                                 /\ front[i].path \notin failed'
    BY <1>1, <1>2, <2>1 DEF ListsTrue
  <2>3. \A i, j \in 1..Len(front) : front[i].path = front[j].path => i = j
    BY <1>2, <2>1 DEF ListsTrue
  <2>4. \A f \in failed' : files[f] # old[f]
    BY <1>1, <1>2, <2>1 DEF ListsTrue
  <2>5. "unlisted" \notin excused =>
          \A f \in Files : files[f] # old[f] =>
            f \in failed' \/ \E i \in 1..Len(front) : front[i].path = f
    <3> SUFFICES ASSUME "unlisted" \notin excused, NEW f \in Files, files[f] # old[f], f \notin failed'
                 PROVE  \E i \in 1..Len(front) : front[i].path = f
      OBVIOUS
    <3>1. f # newest /\ f \notin failed
      BY <1>1
    <3>2. PICK i \in 1..Len(replaced) : replaced[i].path = f
      BY <2>1, <3>1 DEF ListsTrue
    <3>3. i \in 1..Len(front) /\ front[i] = replaced[i]
      BY <1>2, <3>1, <3>2
    <3> QED
      BY <3>2, <3>3
  <2>6. \A t \in temps' : t[2] = "lost" => "temps" \in excused
    BY <1>1, <2>1 DEF ListsTrue
  <2>7. ListsTrue'
    BY <1>1, <2>2, <2>3, <2>4, <2>5, <2>6 DEF ListsTrue
  <2>8. ~damaged => Registered(AsLoaded(old)) /\ Registered(want)
    BY <1>1 DEF IntegrateInv, RunInv
  <2> QED
    BY <1>1, <2>7, <2>8, SameRegistered DEF RunInv
<1>7. NothingLost'
  BY <1>1 DEF IntegrateInv, NothingLost, Differs
<1> QED
  BY <1>4, <1>5, <1>6, <1>7 DEF IntegrateInv

\* A run that ends another way than written has left its files alone, or has damaged them.
LEMMA EndRegistered ==
  ASSUME IntegrateInv, step # "idle", NEW how, End(how), how # "written",
         UNCHANGED <<agent, files, old, want>>
  PROVE  damaged' \in BOOLEAN /\ SelectionsRegistered'
<1>1. damaged' = (damaged \/ files # old)
  BY DEF End
<1>2. damaged' \in BOOLEAN
  BY <1>1
<1>3. SelectionsRegistered'
  <2> SUFFICES ASSUME ~damaged' PROVE Registered(LoadedFiles)'
    BY DEF SelectionsRegistered, Registered
  <2>1. files = old /\ ~damaged
    BY <1>1
  <2>2. Registered(AsLoaded(old))
    BY <2>1 DEF IntegrateInv, RunInv
  <2>3. LoadedFiles' = AsLoaded(old)
    BY <2>1 DEF LoadedFiles, AsLoaded
  <2> QED
    BY <2>2, <2>3 DEF Registered, SettingsFile, ModelIds
<1> QED
  BY <1>2, <1>3

LEMMA CleanUpInv == IntegrateInv /\ CleanUp => IntegrateInv'
<1> SUFFICES ASSUME IntegrateInv, CleanUp PROVE IntegrateInv'
  OBVIOUS
<1> DEFINE lost == {t \in temps : t[2] = "lost"}
           how  == IF failed # {} THEN "incomplete" ELSE cause
<1>1. /\ step = "undo" /\ replaced = <<>> /\ End(how)
      /\ UNCHANGED <<agent, offered, files, old, want, bak, pos, replaced, failed, cause>>
  BY DEF CleanUp
<1>2. \/ temps' = lost /\ excused' = excused
      \/ (\E t \in temps \ lost : temps' = lost \cup {t}) /\ excused' = excused \cup {"temps"}
  BY DEF CleanUp
<1>3. step' = "idle" /\ outcome' = how
  BY <1>1 DEF End
<1>4. /\ how \in {"none", "error", "interrupt", "incomplete"}
      /\ how = "incomplete" => failed # {}
      /\ how # "incomplete" => failed = {}
  BY DEF IntegrateInv, IntegrateTypeOK
<1> HIDE DEF how
<1>5. ListsTrue /\ Len(replaced) = 0
  BY <1>1 DEF IntegrateInv, RunInv
<1>6. damaged' \in BOOLEAN /\ SelectionsRegistered'
  BY <1>1, <1>4, EndRegistered
<1>7. temps' \subseteq temps
  BY <1>2
<1>8. IntegrateTypeOK'
  BY <1>1, <1>3, <1>4, <1>6, <1>7 DEF IntegrateInv, IntegrateTypeOK
<1>9. RunInOrder' /\ RunInv'
  BY <1>3 DEF RunInOrder, RunInv, Writing
<1>10. WrittenOrReported'
  <2>1. "unlisted" \notin excused' => Differs' = failed
    <3> SUFFICES ASSUME "unlisted" \notin excused' PROVE Differs' = failed
      OBVIOUS
    <3>1. "unlisted" \notin excused
      BY <1>2
    <3>2. \A f \in Files : files[f] # old[f] <=> f \in failed
      BY <1>5, <3>1 DEF ListsTrue
    <3> QED
      BY <1>1, <3>2 DEF Differs, IntegrateInv, IntegrateTypeOK
  <2>2. "temps" \notin excused' => temps' = {}
    BY <1>2, <1>5 DEF ListsTrue
  <2> QED
    BY <1>1, <1>3, <1>4, <2>1, <2>2 DEF WrittenOrReported
<1>11. NothingLost'
  BY <1>1 DEF IntegrateInv, NothingLost, Differs
<1> QED
  BY <1>6, <1>8, <1>9, <1>10, <1>11 DEF IntegrateInv

LEMMA AbortedInv == IntegrateInv /\ Aborted => IntegrateInv'
<1> SUFFICES ASSUME IntegrateInv, Aborted PROVE IntegrateInv'
  OBVIOUS
<1>1. PICK how \in {"abandoned", "killed"} : End(how)
  BY DEF Aborted
<1>2. /\ step # "idle"
      /\ UNCHANGED <<agent, offered, files, old, want, bak, temps, pos, replaced, failed, cause,
                     excused>>
  BY DEF Aborted
<1>3. step' = "idle" /\ outcome' = how
  BY <1>1 DEF End
<1>4. damaged' \in BOOLEAN /\ SelectionsRegistered'
  BY <1>1, <1>2, EndRegistered
<1>5. IntegrateTypeOK'
  BY <1>2, <1>3, <1>4 DEF IntegrateInv, IntegrateTypeOK
<1>6. RunInOrder' /\ RunInv' /\ WrittenOrReported'
  BY <1>3 DEF RunInOrder, RunInv, WrittenOrReported, Writing
<1>7. NothingLost'
  BY <1>2 DEF IntegrateInv, NothingLost, Differs
<1> QED
  BY <1>4, <1>5, <1>6, <1>7 DEF IntegrateInv

LEMMA IntegrateStep == IntegrateInv /\ [IntegrateNext]_integrateVars => IntegrateInv'
<1> SUFFICES ASSUME IntegrateInv, [IntegrateNext]_integrateVars PROVE IntegrateInv'
  OBVIOUS
<1>1. CASE \E models \in SUBSET Models : ChangeStore(models)
  BY <1>1, ChangeStoreInv
<1>2. CASE \E ref \in Refs : SelectInAgent(ref)
  BY <1>2, SelectInAgentInv
<1>3. CASE \E request \in Requests : RunIntegrate(request)
  BY <1>3, RunIntegrateInv
<1>4. CASE Stage
  BY <1>4, StageInv
<1>5. CASE Backup
  BY <1>5, BackupInv
<1>6. CASE Replace
  BY <1>6, ReplaceInv
<1>7. CASE \E why \in {"error", "interrupt"} : StepFails(why)
  BY <1>7, StepFailsInv
<1>8. CASE InterruptUnlisted
  BY <1>8, InterruptUnlistedInv
<1>9. CASE Restore
  BY <1>9, RestoreInv
<1>10. CASE RestoreFails
  BY <1>10, RestoreFailsInv
<1>11. CASE CleanUp
  BY <1>11, CleanUpInv
<1>12. CASE Aborted
  BY <1>12, AbortedInv
<1>13. CASE UNCHANGED integrateVars
  <2>1. /\ UNCHANGED <<agent, offered, files, old, want, bak, temps, pos, replaced, failed>>
        /\ UNCHANGED <<step, cause, outcome, excused, damaged>>
    BY <1>13 DEF integrateVars, runVars
  <2>2. Changed' = Changed /\ Current' = Current
    BY <2>1, SameChanged DEF Current
  <2>3. IntegrateTypeOK'
    BY <2>1, <2>2 DEF IntegrateInv, IntegrateTypeOK
  <2>4. RunInOrder'
    BY <2>1, <2>2 DEF IntegrateInv, RunInOrder, Content
  <2>5. RunInv'
    <3>1. step # "idle" => ListsTrue'
      BY <2>1 DEF IntegrateInv, RunInv, ListsTrue
    <3> QED
      BY <2>1, <3>1, SameRegistered DEF IntegrateInv, RunInv
  <2>6. WrittenOrReported' /\ NothingLost'
    BY <2>1 DEF IntegrateInv, WrittenOrReported, NothingLost, Differs, Content
  <2>7. SelectionsRegistered'
    BY <2>1 DEF IntegrateInv, SelectionsRegistered, LoadedFiles, SettingsFile, ModelIds, Content
  <2> QED
    BY <2>3, <2>4, <2>5, <2>6, <2>7 DEF IntegrateInv
<1> QED
  BY <1>1, <1>2, <1>3, <1>4, <1>5, <1>6, <1>7, <1>8, <1>9, <1>10, <1>11, <1>12, <1>13
  DEF IntegrateNext

-----------------------------------------------------------------------------
(* The parts together: a step of Clients is a step of one part and leaves   *)
(* the others alone, so each part keeps what it keeps on its own.           *)

LEMMA InitOfParts ==
  Init => /\ ChatInit /\ CallInit /\ TasksInit /\ PageInit /\ PaneInit
          /\ IntegrateInit /\ ReloadInit /\ SpeechInit /\ SettingsInit /\ StreamInit
BY DEF Init

LEMMA StepOfParts ==
  [Next]_allVars =>
    /\ [ChatNext]_chatVars /\ [CallNext]_callVars /\ [TasksNext]_taskVars
    /\ [PageNext]_pageVars /\ [PaneNext]_paneVars /\ [IntegrateNext]_integrateVars
    /\ [ReloadNext]_reloadVars /\ [SpeechNext]_speechVars
    /\ [SettingsNext]_settingsVars /\ [StreamNext]_streamVars
<1> SUFFICES ASSUME [Next]_allVars
             PROVE  /\ [ChatNext]_chatVars /\ [CallNext]_callVars /\ [TasksNext]_taskVars
                    /\ [PageNext]_pageVars /\ [PaneNext]_paneVars /\ [IntegrateNext]_integrateVars
                    /\ [ReloadNext]_reloadVars /\ [SpeechNext]_speechVars
                    /\ [SettingsNext]_settingsVars /\ [StreamNext]_streamVars
  OBVIOUS
<1> USE DEF Only
<1>1. CASE UNCHANGED allVars
  BY <1>1 DEF allVars
<1>2. CASE Only("turn") /\ ChatNext
  BY <1>2
<1>3. CASE Only("call") /\ CallNext
  BY <1>3
<1>4. CASE Only("tasks") /\ TasksNext
  BY <1>4
<1>5. CASE Only("pages") /\ PageNext
  BY <1>5
<1>6. CASE Only("pane") /\ PaneNext
  BY <1>6
<1>7. CASE Only("integrate") /\ IntegrateNext
  BY <1>7
<1>8. CASE Only("reload") /\ ReloadNext
  BY <1>8
<1>9. CASE Only("speech") /\ SpeechNext
  BY <1>9
<1>10. CASE Only("settings") /\ SettingsNext
  BY <1>10
<1>11. CASE Only("stream") /\ StreamNext
  BY <1>11
<1> QED
  BY <1>1, <1>2, <1>3, <1>4, <1>5, <1>6, <1>7, <1>8, <1>9, <1>10, <1>11 DEF Next

\* Clients runs each part as the part is specified, fairness included, so whatever holds of
\* a part on its own holds of it in Clients.
THEOREM PartsAsSpecified ==
  Spec => /\ ChatFairSpec /\ CallSpec /\ CallFairness /\ TasksSpec /\ PageSpec /\ PaneSpec
          /\ IntegrateSpec /\ ReloadSpec /\ SpeechSpec /\ SettingsSpec /\ StreamSpec
BY InitOfParts, StepOfParts, PTL
DEF Spec, Fairness, ChatSpec, ChatFairSpec, CallSpec, TasksSpec, PageSpec, PaneSpec, IntegrateSpec,
    ReloadSpec, SpeechSpec, SettingsSpec, StreamSpec

\* What is proved of the chat's turns, of a tool call and of the background tasks is true
\* of the whole: prompts are answered in order, every call has its result and every tool is
\* waited for, a session has its own model and its file is what that was sent, no tool touches
\* what the user did not allow, no task is forgotten that runs or has something to tell, and a
\* stop is final.
THEOREM ChatAndToolsInvariant ==
  Spec => /\ [](/\ QueueDiscipline /\ ToolResultsPaired /\ NoAbandonedTool
                /\ SessionsAreKept /\ TouchedWithinConsent /\ TasksAreRemembered)
          /\ StopHolds
BY PartsAsSpecified, QueueIsDisciplined, ResultsArePaired, ToolsAreAwaited, SessionsKeep, ToolsKeepToConsent,
   TasksAreRememberedInvariant, StopIsFinal, PTL DEF ChatFairSpec

\* A text is spoken whole, in order, once and in the voice that was asked for.
THEOREM SpokenInFullInvariant == Spec => []SpokenInFull
BY PartsAsSpecified, AnswersAreSpokenInFull, PTL

\* What `drove observe` shows is true: a page, when it is put up, is the answer to the last
\* request and lacks no record that was on disk all the while, except those that lie below a
\* directory with records of its own; what is asked for is never forgotten; and the pane
\* shows the record chosen last, whatever the threads and tasks that fill them do in between.
THEOREM ScreenIsTrueInvariant == Spec => []ScreenIsTrue
<1>1. Init => PaneInv /\ PagesInv
  BY InitOfParts, PaneInvInit, PagesInitInv
<1>2. PaneInv /\ PagesInv /\ [Next]_allVars => PaneInv' /\ PagesInv'
  BY StepOfParts, PaneStep, PagesStep
<1>3. PaneInv /\ PagesInv => ScreenIsTrue
  BY PaneFollows DEF ScreenIsTrue, PagesInv
<1> QED
  BY <1>1, <1>2, <1>3, PTL DEF Spec

\* The config files hold what was put there: a run of `drove integrate` that is over has
\* written every file or said that it did not, what a file held is the file or a backup of
\* it, no agent selects a model that its own file does not list; a setting of a model is
\* what was set last; and a field of config.toml that needs a restart waits for one.
THEOREM ConfigsHoldInvariant == Spec => []ConfigsHold
<1> DEFINE Inv == IntegrateInv /\ SettingsInv /\ ReloadTypeOK /\ FixedUntilRestart
<1>1. Init => Inv
  BY InitOfParts, IntegrateInitInv, SettingsInitInv, ReloadInitInv
<1>2. Inv /\ [Next]_allVars => Inv'
  BY StepOfParts, IntegrateStep, SettingsStep, ReloadStep
<1>3. Inv => ConfigsHold
  BY SettingsFollow DEF ConfigsHold, IntegrateInv
<1> QED
  BY <1>1, <1>2, <1>3, PTL DEF Spec

\* What an agent is told of a model is what a backend started now would serve, and the report
\* is what it would be started with, for any layers, raw arguments and models.
THEOREM DescribedAsServedInvariant == Spec => []DescribedAsServed
<1>1. Init => SettingsInv
  BY InitOfParts, SettingsInitInv
<1>2. SettingsInv /\ [Next]_allVars => SettingsInv'
  BY StepOfParts, SettingsStep
<1>3. SettingsInv => DescribedAsServed
  BY SettingsDescribed
<1> QED
  BY <1>1, <1>2, <1>3, PTL DEF Spec

\* A reply's readers agree: the record is the reply as the chat read it, or the beginning of
\* that, and the tokens counted are those that were reported last; and an agent is told of a
\* model what its backend gets.
THEOREM ReadersAgreeInvariant == Spec => []ReadersAgree
<1>1. Spec => [](RecordIsFaithful /\ TokensAreTheLast)
  BY PartsAsSpecified, RepliesAreReadAlike, PTL
<1>2. (RecordIsFaithful /\ TokensAreTheLast) /\ DescribedAsServed => ReadersAgree
  BY DEF ReadersAgree
<1> QED
  BY <1>1, <1>2, DescribedAsServedInvariant, PTL

\* Every part is well-typed in every state of the whole.
THEOREM TypeInvariant == Spec => []TypeOK
<1> DEFINE Inv == /\ TasksTypeOK /\ PagesInv /\ PaneInv /\ IntegrateInv
                  /\ ReloadTypeOK /\ FixedUntilRestart /\ SettingsInv /\ StreamInv
<1>1. Init => Inv
  BY InitOfParts, TasksTyped, PagesInitInv, PaneInvInit, IntegrateInitInv, ReloadInitInv,
     SettingsInitInv, StreamInitInv
<1>2. Inv /\ [Next]_allVars => Inv'
  BY StepOfParts, TasksTypeStep, PagesStep, PaneStep, IntegrateStep, ReloadStep,
     SettingsStep, StreamStep
<1>3. Inv /\ ChatTypeOK /\ CallTypeOK /\ SpeechTypeOK => TypeOK
  BY SettingsFollow, StreamFollows DEF TypeOK, PagesInv, PaneInv, IntegrateInv
<1>4. Spec => [](ChatTypeOK /\ CallTypeOK /\ SpeechTypeOK)
  BY PartsAsSpecified, ChatTypeInvariant, CallTypeInvariant, SpeechTypeInvariant, PTL DEF ChatFairSpec
<1> QED
  BY <1>1, <1>2, <1>3, <1>4, PTL DEF Spec
=============================================================================
