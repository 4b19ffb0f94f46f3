------------------------- MODULE CheckpointResumeProofs -------------------------
(***************************************************************************)
(* What a crash costs and what survives it, for any models, limits on the  *)
(* checkpoints kept, frequencies and number of restarts.                   *)
(***************************************************************************)
EXTENDS CheckpointResume, SequenceTheorems, TLAPS

SavePhases == {"begin", "write", "register", "tracker", "flush"}

NumParts == Len(Parts)

(* A folder named v holds a model of v training steps at least.            *)
ModelContents(v) == {Absent, Torn} \cup (v..MaxSteps)

TypeInv ==
    /\ TypeOK
    /\ version <= trained
    /\ \A m \in Models : \A v \in Versions : disk[m][v] \in ModelContents(v)
    /\ phase = "register" => item <= NumParts
    /\ phase \in {"tracker", "flush"} => item = NumParts + 1

(* Away from the write of the tracker itself, last_ckpt_version is what    *)
(* the tracker says; and no multiple of save_freq has been passed since.   *)
Tracked ==
    /\ tracker = Torn => phase \in {"flush", "down", "failed"}
    /\ phase \notin {"flush", "down", "failed"} =>
          lastCkpt = (IF tracker = Absent THEN 0 ELSE tracker)
    /\ phase \notin {"down", "failed"} => lastCkpt <= version
    /\ phase = "train" => version - lastCkpt <= version % SaveFreq

(* No model is limited to one checkpoint.                                  *)
KeepsMore == \A m \in Models : Keep[m] # 1

(* What the save under way has written so far is there ...                 *)
SavedSoFar ==
    phase \in SavePhases =>
        \A i \in 1..NumParts :
            i < item \/ (i = item /\ phase = "register") => disk[Parts[i]][version] = trained

(* ... down to the data loader, which is past what was trained on.         *)
DataSaved ==
    phase \in {"tracker", "flush"} =>
        /\ disk["data"][version] >= 0
        /\ ~resaved => disk["data"][version] >= trained

(* The folder under way has its place among those that are kept.           *)
Room ==
    phase \in {"write", "register"} /\ item <= NumParts /\ Keep[Parts[item]] > 1 =>
        Len(prev[Parts[item]]) < Keep[Parts[item]]

(* The paths a model has registered are in the order of their versions;    *)
(* none is newer than the tracker's until the model is saved again.        *)
InOrder(paths) == \A j, k \in 1..Len(paths) : j < k => paths[j] < paths[k]

UpTo(paths, v) == \A j \in 1..Len(paths) : paths[j] <= v

PathsInOrder ==
    ~resaved =>
        \A i \in 1..NumParts :
            /\ InOrder(prev[Parts[i]])
            /\ phase = "train" => UpTo(prev[Parts[i]], tracker)
            /\ phase \in SavePhases =>
                  UpTo(prev[Parts[i]], IF i < item THEN version ELSE tracker)

(* The version the tracker names is whole, and older than the one that is  *)
(* being saved.                                                            *)
TrackerWhole ==
    ~resaved =>
        /\ trained <= fed
        /\ tracker \in Versions => Resumable(tracker)
        /\ tracker \in Versions /\ phase \in SavePhases => tracker < version

TornLoads == tracker = Torn => \E v \in Versions : Loads(v)

SaveInv ==
    /\ SavedSoFar /\ DataSaved /\ Room /\ PathsInOrder /\ TrackerWhole
    /\ TornLoads /\ EndsResumable

CheckpointInv == TypeInv /\ Tracked /\ (KeepsMore => SaveInv)
-------------------------------------------------------------------------------
(* Lemmas                                                                  *)

(* What is saved in which order: the models, each once, then the loader.   *)
LEMMA OrderOfSaving ==
    /\ NumParts \in Nat \ {0} /\ Len(Order) = NumParts + 1
    /\ Order[NumParts + 1] = "data" /\ "data" \notin Models
    /\ \A i \in 1..NumParts : Order[i] = Parts[i] /\ Parts[i] \in Models
    /\ \A i, j \in 1..NumParts : Parts[i] = Parts[j] => i = j
    /\ \A m \in Models : \E i \in 1..NumParts : m = Parts[i]
<1> DEFINE names == STRING \cup {"data"}
<1>1. Parts \in Seq(names) /\ Parts # <<>> /\ "data" \in names
  BY CheckpointAssumption, SeqMonotonic, Zenon
<1> HIDE DEF names
<1>2. NumParts \in Nat \ {0}
  BY <1>1, EmptySeq, LenProperties DEF NumParts
<1>3. /\ Len(Order) = NumParts + 1 /\ Order[NumParts + 1] = "data"
      /\ \A i \in 1..NumParts : Order[i] = Parts[i]
  BY <1>1, AppendProperties DEF Order, NumParts
<1> QED BY <1>2, <1>3, CheckpointAssumption DEF Models, NumParts

LEMMA SavingWhat ==
    ASSUME item \in 1..Len(Order)
    PROVE  /\ item \in 1..(NumParts + 1)
           /\ Saving = "data" => item = NumParts + 1
           /\ Saving # "data" => item \in 1..NumParts /\ Saving = Parts[item] /\ Saving \in Models
<1>1. item \in 1..NumParts \/ item = NumParts + 1
  BY OrderOfSaving
<1> QED BY <1>1, OrderOfSaving DEF Saving

LEMMA Bounds ==
    /\ SaveFreq \in Nat \ {0} /\ Trigger \in Nat \ {0}
    /\ MaxSteps \in Nat /\ MaxRestarts \in Nat /\ MaxAhead \in Nat
    /\ Keep \in [Models -> Nat] /\ Versions = 0..MaxSteps
  BY CheckpointAssumption DEF Versions

(* Dropping the first n paths.                                             *)
LEMMA FromPaths ==
    ASSUME NEW p \in Seq(Versions), NEW n \in 0..Len(p)
    PROVE  /\ From(p, n) \in Seq(Versions) /\ Len(From(p, n)) = Len(p) - n
           /\ \A j \in 1..(Len(p) - n) : From(p, n)[j] = p[n + j]
<1>1. Len(p) \in Nat /\ \A j \in 1..Len(p) : p[j] \in Versions
  BY LenProperties, ElementOfSeq
<1>2. \A j \in (n + 1)..Len(p) : p[j] \in Versions
  BY <1>1
<1>3. /\ SubSeq(p, n + 1, Len(p)) \in Seq(Versions)
      /\ Len(SubSeq(p, n + 1, Len(p))) = IF n + 1 <= Len(p) THEN Len(p) - (n + 1) + 1 ELSE 0
      /\ \A j \in 1..Len(p) - (n + 1) + 1 : SubSeq(p, n + 1, Len(p))[j] = p[(n + 1) + j - 1]
  BY <1>1, <1>2, SubSeqProperties
<1> DEFINE s == SubSeq(p, n + 1, Len(p))
<1>4. s \in Seq(Versions) /\ From(p, n) = s
  BY <1>3 DEF From
<1>5. Len(s) = Len(p) - n
  BY <1>1, <1>3
<1>6. ASSUME NEW j \in 1..(Len(p) - n) PROVE s[j] = p[n + j]
  <2>1. j \in 1..Len(p) - (n + 1) + 1 /\ (n + 1) + j - 1 = n + j
    BY <1>1
  <2> QED BY <1>3, <2>1
<1> HIDE DEF s
<1> QED BY <1>4, <1>5, <1>6

(* ensure_checkpoint_capacity always leaves the newest path, and room for  *)
(* another one.                                                            *)
LEMMA ExcessOf ==
    ASSUME TypeOK, NEW m \in Models
    PROVE  /\ Excess(m) \in 0..Len(prev[m]) /\ Len(prev[m]) \in Nat /\ Keep[m] \in Nat
           /\ Excess(m) > 0 => Excess(m) < Len(prev[m])
           /\ Keep[m] > 1 => Len(prev[m]) - Excess(m) < Keep[m]
<1>1. Len(prev[m]) \in Nat /\ Keep[m] \in Nat
  BY Bounds, LenProperties DEF TypeOK
<1> QED BY <1>1 DEF Excess

LEMMA SurplusOf ==
    ASSUME NEW m \in Models, NEW p \in Seq(Versions)
    PROVE  Surplus(m, p) \in 0..Len(p)
<1>1. Len(p) \in Nat /\ Keep[m] \in Nat
  BY Bounds, LenProperties
<1> QED BY <1>1 DEF Surplus

(* What the start of saving a model does to the disk and the paths ...     *)
LEMMA BeginModelDoes ==
    ASSUME TypeOK, BeginModel
    PROVE  /\ item \in 1..NumParts /\ Saving = Parts[item] /\ Saving \in Models
           /\ prev' = [prev EXCEPT ![Saving] = From(prev[Saving], Excess(Saving))]
           /\ \A f \in Files : f # Saving => disk'[f] = disk[f]
           /\ DOMAIN disk' = Files
           /\ disk'[Saving] \in [Versions -> {disk[Saving][v] : v \in Versions} \cup {Absent, Torn}]
           /\ disk'[Saving][version] = Torn
           /\ \A v \in Versions :
                 disk'[Saving][v] = disk[Saving][v] \/ disk'[Saving][v] \in {Absent, Torn}
           /\ \A v \in Versions :
                 v # version /\ (\A i \in 1..Excess(Saving) : prev[Saving][i] # v) =>
                    disk'[Saving][v] = disk[Saving][v]
<1>1. item \in 1..NumParts /\ Saving = Parts[item] /\ Saving \in Models /\ Saving \in Files
  BY SavingWhat DEF BeginModel, TypeOK, Files
<1> DEFINE m == Saving
           new == [Without(disk[m], prev[m], Excess(m)) EXCEPT ![version] = Torn]
<1>2. disk' = [disk EXCEPT ![m] = new] /\ disk \in [Files -> [Versions -> Contents]]
  BY DEF BeginModel, TypeOK
<1>3. prev' = [prev EXCEPT ![m] = From(prev[m], Excess(m))]
  BY DEF BeginModel
<1>4. version \in Versions
  BY DEF TypeOK
<1>5. /\ new \in [Versions -> {disk[m][v] : v \in Versions} \cup {Absent, Torn}]
      /\ new[version] = Torn
      /\ \A v \in Versions :
            v # version /\ (\A i \in 1..Excess(m) : prev[m][i] # v) => new[v] = disk[m][v]
      /\ \A v \in Versions : new[v] = disk[m][v] \/ new[v] \in {Absent, Torn}
  BY <1>4 DEF Without
<1>6. disk'[m] = new /\ \A f \in Files : f # m => disk'[f] = disk[f]
  BY <1>1, <1>2
<1> HIDE DEF m, new
<1> QED BY <1>1, <1>2, <1>3, <1>5, <1>6 DEF m

(* ... and its registration.                                               *)
LEMMA RegisterDoes ==
    ASSUME TypeInv, Register, NEW p, p = Append(prev[Saving], version)
    PROVE  /\ item \in 1..NumParts /\ Saving = Parts[item] /\ Saving \in Models
           /\ p \in Seq(Versions) /\ Len(p) = Len(prev[Saving]) + 1
           /\ Len(prev[Saving]) \in Nat /\ Keep[Saving] \in Nat
           /\ prev' = [prev EXCEPT ![Saving] = From(p, Surplus(Saving, p))]
           /\ disk' = [disk EXCEPT ![Saving] = Without(disk[Saving], p, Surplus(Saving, p))]
           /\ \A v \in Versions : disk'[Saving][v] = disk[Saving][v] \/ disk'[Saving][v] = Absent
           /\ \A f \in Files : f # Saving => disk'[f] = disk[f]
<1>1. item \in 1..NumParts /\ Saving = Parts[item] /\ Saving \in Models /\ Saving \in Files
  <2>1. item \in 1..Len(Order) /\ item <= NumParts
    BY DEF TypeInv, TypeOK, Register
  <2>2. item \in 1..NumParts
    BY <2>1, OrderOfSaving
  <2> QED BY <2>2, OrderOfSaving DEF Saving, Files
<1>2. prev[Saving] \in Seq(Versions) /\ version \in Versions
  BY <1>1 DEF TypeInv, TypeOK
<1>3. p \in Seq(Versions) /\ Len(p) = Len(prev[Saving]) + 1
  BY <1>2, AppendProperties
<1>4. /\ prev' = [prev EXCEPT ![Saving] = From(p, Surplus(Saving, p))]
      /\ disk' = [disk EXCEPT ![Saving] = Without(disk[Saving], p, Surplus(Saving, p))]
  BY DEF Register
<1>5. \A v \in Versions : Without(disk[Saving], p, Surplus(Saving, p))[v] \in {disk[Saving][v], Absent}
  BY DEF Without
<1>6. disk \in [Files -> [Versions -> Contents]]
  BY DEF TypeInv, TypeOK
<1>7. Len(prev[Saving]) \in Nat /\ Keep[Saving] \in Nat
  BY <1>1, <1>2, Bounds, LenProperties
<1> QED BY <1>1, <1>3, <1>4, <1>5, <1>6, <1>7

(* The remainder grows with the number, unless it starts again at zero.    *)
LEMMA NextRemainder ==
    ASSUME NEW n \in Nat, NEW f \in Nat, f > 0
    PROVE  (n + 1) % f # 0 => (n + 1) % f = (n % f) + 1
<1>0. n % f \in 0..f-1 /\ (n + 1) % f \in 0..f-1
  OBVIOUS
<1> DEFINE q == n \div f  r == n % f  p == (n + 1) \div f  s == (n + 1) % f
<1>1. q \in Int /\ r \in 0..f-1 /\ p \in Int /\ s \in 0..f-1 /\ n = f * q + r /\ n + 1 = f * p + s
  BY <1>0
<1> HIDE DEF q, r, p, s
<1>2. CASE p = q
  BY <1>1, <1>2 DEF r, s
<1>3. CASE p <= q - 1
  <2>1. f * p <= f * (q - 1) /\ f * (q - 1) = f * q - f
    BY <1>1, <1>3
  <2> QED BY <1>1, <2>1
<1>4. CASE p >= q + 1
  <2>1. f * p >= f * (q + 1) /\ f * (q + 1) = f * q + f
    BY <1>1, <1>4
  <2>2. s = 0
    BY <1>1, <2>1
  <2> QED BY <2>2 DEF s
<1> QED BY <1>1, <1>2, <1>3, <1>4
-------------------------------------------------------------------------------
(* Types, and what the tracker says                                        *)

LEMMA InitTypes == Init => TypeInv /\ Tracked
<1> SUFFICES ASSUME Init PROVE TypeInv /\ Tracked
  OBVIOUS
<1> USE Bounds DEF Init
<1>1. prev \in [Models -> Seq(Versions)]
  BY EmptySeq DEF NoPaths
<1>2. disk \in [Files -> [Versions -> Contents]]
  BY DEF Contents
<1>3. TypeOK
  <2>1. 0 \in Versions /\ 1 \in 1..Len(Order) /\ 1 \in 1..Trigger /\ 0 \in 0..MaxRestarts
    BY Bounds, OrderOfSaving
  <2> QED BY <1>1, <1>2, <2>1 DEF TypeOK
<1>4. \A m \in Models : \A v \in Versions : disk[m][v] \in ModelContents(v)
  BY DEF ModelContents, Files
<1>5. 0 % SaveFreq >= 0
  OBVIOUS
<1> QED BY <1>3, <1>4, <1>5 DEF TypeInv, Tracked, Torn, Absent

LEMMA FilesOf == Files = Models \cup {"data"} /\ "data" \notin Models
  BY OrderOfSaving DEF Files

LEMMA TypeInvKept == TypeInv /\ [Next]_vars => TypeInv'
<1> SUFFICES ASSUME TypeInv, [Next]_vars PROVE TypeInv'
  OBVIOUS
<1> USE Bounds DEF TypeInv, TypeOK
<1>1. CASE Feed
  BY <1>1 DEF Feed
<1>2. CASE TrainStep
  <2>1. /\ trained' = trained + 1 /\ trained' \in Versions
        /\ version' \in {version, version + 1} /\ localStep' \in 1..Trigger
        /\ phase' \in {"begin", "train"} /\ item' = 1
        /\ UNCHANGED <<lastCkpt, prev, fed, ending, disk, tracker, restarts, resaved>>
    BY <1>2 DEF TrainStep
  <2>2. version' \in Versions /\ version' <= trained'
    BY <2>1
  <2> QED BY <2>1, <2>2, OrderOfSaving
<1>3. CASE Finish
  BY <1>3, OrderOfSaving DEF Finish, memory
<1>4. CASE BeginModel
  <2>1. /\ Saving \in Models /\ Saving \in Files
        /\ \A f \in Files : f # Saving => disk'[f] = disk[f]
        /\ DOMAIN disk' = Files
        /\ disk'[Saving] \in [Versions -> {disk[Saving][v] : v \in Versions} \cup {Absent, Torn}]
        /\ \A v \in Versions :
              disk'[Saving][v] = disk[Saving][v] \/ disk'[Saving][v] \in {Absent, Torn}
    BY <1>4, BeginModelDoes, FilesOf
  <2>2. prev' \in [Models -> Seq(Versions)]
    <3>1. From(prev[Saving], Excess(Saving)) \in Seq(Versions)
      BY <2>1, ExcessOf, FromPaths
    <3>2. prev' = [prev EXCEPT ![Saving] = From(prev[Saving], Excess(Saving))]
      BY <1>4, BeginModelDoes
    <3> QED BY <3>1, <3>2
  <2>3. disk'[Saving] \in [Versions -> Contents]
    <3>1. {disk[Saving][v] : v \in Versions} \subseteq Contents
      BY <2>1
    <3> QED BY <2>1, <3>1 DEF Contents
  <2>4. disk' \in [Files -> [Versions -> Contents]]
    <3>1. disk' = [f \in Files |-> disk'[f]]
      BY <1>4 DEF BeginModel
    <3>2. \A f \in Files : disk'[f] \in [Versions -> Contents]
      BY <2>1, <2>3
    <3> QED BY <3>1, <3>2
  <2>5. \A m \in Models : \A v \in Versions : disk'[m][v] \in ModelContents(v)
    BY <2>1, FilesOf DEF ModelContents
  <2>6. /\ phase' = "write"
        /\ UNCHANGED <<version, localStep, trained, lastCkpt, fed, item, ending, tracker,
                       restarts, resaved>>
    BY <1>4 DEF BeginModel
  <2> QED BY <2>2, <2>4, <2>5, <2>6
<1>5. CASE BeginData
  <2>1. disk' \in [Files -> [Versions -> Contents]]
    BY <1>5, FilesOf DEF BeginData, Contents
  <2>2. \A m \in Models : disk'[m] = disk[m]
    BY <1>5, FilesOf DEF BeginData
  <2> QED BY <1>5, <2>1, <2>2 DEF BeginData, memory
<1>6. CASE WriteModel
  <2>1. item \in 1..NumParts /\ Saving \in Models
    BY <1>6, SavingWhat DEF WriteModel
  <2>2. disk' \in [Files -> [Versions -> Contents]]
    BY <1>6, <2>1, FilesOf DEF WriteModel, Contents
  <2>3. \A m \in Models : \A v \in Versions : disk'[m][v] \in ModelContents(v)
    <3>1. trained \in ModelContents(version)
      BY DEF ModelContents
    <3> QED BY <1>6, <2>1, <3>1, FilesOf DEF WriteModel
  <2> QED BY <1>6, <2>1, <2>2, <2>3 DEF WriteModel, memory
<1>7. CASE WriteData
  <2>1. disk' \in [Files -> [Versions -> Contents]]
    BY <1>7, FilesOf DEF WriteData, Contents
  <2>2. \A m \in Models : disk'[m] = disk[m]
    BY <1>7, FilesOf DEF WriteData
  <2>3. item = NumParts + 1
    BY <1>7, SavingWhat DEF WriteData
  <2> QED BY <1>7, <2>1, <2>2, <2>3 DEF WriteData, memory
<1>8. CASE Register
  <2> DEFINE p == Append(prev[Saving], version)
             n == Surplus(Saving, p)
  <2>1. /\ Saving \in Models /\ p \in Seq(Versions) /\ item \in 1..NumParts
        /\ prev' = [prev EXCEPT ![Saving] = From(p, n)]
        /\ disk' = [disk EXCEPT ![Saving] = Without(disk[Saving], p, n)]
        /\ \A v \in Versions : disk'[Saving][v] = disk[Saving][v] \/ disk'[Saving][v] = Absent
        /\ \A f \in Files : f # Saving => disk'[f] = disk[f]
    BY <1>8, RegisterDoes
  <2> HIDE DEF p
  <2>2. From(p, n) \in Seq(Versions)
    BY <2>1, SurplusOf, FromPaths
  <2>3. prev' \in [Models -> Seq(Versions)]
    BY <2>1, <2>2
  <2>4. Without(disk[Saving], p, n) \in [Versions -> Contents]
    <3>1. disk[Saving] \in [Versions -> Contents]
      BY <2>1, FilesOf
    <3> QED BY <3>1 DEF Without, Contents
  <2>5. disk' \in [Files -> [Versions -> Contents]]
    BY <2>1, <2>4
  <2>6. \A m \in Models : \A v \in Versions : disk'[m][v] \in ModelContents(v)
    BY <2>1, FilesOf DEF ModelContents
  <2>7. /\ item' = item + 1 /\ phase' = "begin" /\ item + 1 \in 1..Len(Order)
        /\ UNCHANGED <<version, localStep, trained, lastCkpt, fed, ending, tracker, restarts, resaved>>
    BY <1>8, <2>1, OrderOfSaving DEF Register
  <2> QED BY <2>3, <2>5, <2>6, <2>7
<1>9. CASE TrackerOpened
  BY <1>9 DEF TrackerOpened, memory
<1>10. CASE TrackerWritten
  BY <1>10 DEF TrackerWritten
<1>11. CASE Crash
  BY <1>11 DEF Crash, memory
<1>12. CASE Restart
  <2>1. restarts' \in 0..MaxRestarts
    BY <1>12 DEF Restart
  <2>2. ASSUME NEW v \in Versions, NEW k \in v..MaxSteps, NEW d \in Nat, StartsAs(v, k, d)
        PROVE  TypeInv'
    <3>1. NoPaths \in [Models -> Seq(Versions)]
      BY EmptySeq DEF NoPaths
    <3>2. 1 \in 1..Len(Order) /\ k \in Versions /\ v <= k
      BY OrderOfSaving
    <3>3. /\ version' = v /\ lastCkpt' = v /\ trained' = k /\ fed' = d /\ localStep' = 1
          /\ prev' = NoPaths /\ phase' = "train" /\ item' = 1 /\ ending' = FALSE
          /\ disk' = disk /\ tracker' = tracker /\ resaved' = resaved
      BY <2>2 DEF StartsAs
    <3>4. TypeOK'
      <4>1. ending' \in BOOLEAN /\ resaved' \in BOOLEAN
        BY <3>3, Zenon
      <4>2. localStep' \in 1..Trigger
        BY <3>3
      <4> QED BY <2>1, <3>1, <3>2, <3>3, <4>1, <4>2
    <3>5. \A m \in Models : \A w \in Versions : disk'[m][w] \in ModelContents(w)
      BY <3>3
    <3>6. version' <= trained' /\ phase' \notin {"register", "tracker", "flush"}
      BY <3>2, <3>3
    <3> HIDE DEF TypeOK
    <3> QED BY <3>4, <3>5, <3>6 DEF TypeInv
  <2>3. CASE tracker = Absent /\ StartsAs(0, 0, 0)
    BY <2>2, <2>3
  <2>4. CASE /\ tracker \in Versions /\ Loads(tracker)
             /\ StartsAs(tracker, disk[Parts[1]][tracker],
                         IF disk["data"][tracker] = Absent THEN 0 ELSE disk["data"][tracker])
    <3>1. Parts[1] \in Models
      BY OrderOfSaving
    <3>2. disk[Parts[1]][tracker] \in tracker..MaxSteps
      <4>1. disk[Parts[1]][tracker] \in ModelContents(tracker)
        BY <2>4, <3>1
      <4>2. disk[Parts[1]][tracker] >= 0
        BY <2>4, <3>1 DEF Loads
      <4> QED BY <4>1, <4>2 DEF ModelContents, Absent, Torn
    <3>3. disk["data"][tracker] \in Contents /\ disk["data"][tracker] # Torn
      BY <2>4, FilesOf DEF Loads
    <3>4. (IF disk["data"][tracker] = Absent THEN 0 ELSE disk["data"][tracker]) \in Nat
      BY <3>3 DEF Contents
    <3> QED BY <2>2, <2>4, <3>2, <3>4
  <2>5. CASE phase' = "failed" /\ UNCHANGED <<memory, item, ending, disk, tracker, resaved>>
    BY <2>1, <2>5 DEF memory
  <2> QED BY <1>12, <2>3, <2>4, <2>5 DEF Restart
<1>13. CASE UNCHANGED vars
  BY <1>13 DEF vars, memory
<1> QED BY <1>1, <1>2, <1>3, <1>4, <1>5, <1>6, <1>7, <1>8, <1>9, <1>10, <1>11, <1>12, <1>13
        DEF Next, Save

LEMMA TrackedKept == TypeInv /\ Tracked /\ [Next]_vars => Tracked'
<1> SUFFICES ASSUME TypeInv, Tracked, [Next]_vars PROVE Tracked'
  OBVIOUS
<1>0. /\ version \in Nat /\ lastCkpt \in Nat /\ SaveFreq \in Nat \ {0}
      /\ version % SaveFreq \in Nat /\ 0 <= version % SaveFreq
      /\ Torn # Absent /\ tracker \in {Absent, Torn} \cup Versions
      /\ \A v \in Versions : v \in Nat /\ v # Torn /\ v # Absent
  BY Bounds DEF TypeInv, TypeOK, Torn, Absent
<1>1. CASE TrainStep
  <2>1. PICK esi \in BOOLEAN : phase' = IF SaveDue(version', esi) THEN "begin" ELSE "train"
    BY <1>1 DEF TrainStep
  <2>2. /\ version' \in {version, version + 1} /\ phase = "train"
        /\ lastCkpt' = lastCkpt /\ tracker' = tracker
    BY <1>1 DEF TrainStep
  <2>3. /\ lastCkpt <= version /\ version - lastCkpt <= version % SaveFreq /\ tracker # Torn
        /\ lastCkpt = (IF tracker = Absent THEN 0 ELSE tracker)
    BY <2>2 DEF Tracked
  <2>4. CASE phase' = "train"
    <3>1. version' # lastCkpt => version' = 0 \/ version' % SaveFreq # 0
      <4>1. ~SaveDue(version', esi)
        BY <2>1, <2>4
      <4>2. version' # lastCkpt => ~(version' > 0 /\ version' % SaveFreq = 0)
        BY <4>1 DEF SaveDue
      <4>3. version' \in Nat
        BY <1>0, <2>2
      <4> QED BY <2>2, <4>2, <4>3
    <3>2. version' - lastCkpt <= version' % SaveFreq
      <4>1. CASE version' = version
        BY <2>3, <4>1
      <4>2. CASE version' = version + 1
        <5>1. (version + 1) % SaveFreq # 0
          <6>1. version + 1 # lastCkpt /\ version + 1 # 0
            <7>1. version \in Nat /\ lastCkpt \in Nat /\ lastCkpt <= version
              BY <1>0, <2>3
            <7> QED BY <7>1
          <6> QED BY <3>1, <4>2, <6>1
        <5>2. (version + 1) % SaveFreq = (version % SaveFreq) + 1
          <6>1. version \in Nat /\ SaveFreq \in Nat /\ SaveFreq > 0
            BY <1>0
          <6> QED BY <5>1, <6>1, NextRemainder
        <5> QED BY <1>0, <2>3, <4>2, <5>2
      <4> QED BY <2>2, <4>1, <4>2
    <3> QED BY <1>0, <2>2, <2>3, <2>4, <3>2 DEF Tracked
  <2>5. CASE phase' = "begin"
    BY <1>0, <2>2, <2>3, <2>5 DEF Tracked
  <2> QED BY <2>1, <2>4, <2>5
<1>2. CASE TrackerWritten
  <2>1. /\ tracker' = version /\ lastCkpt' = version /\ version' = version /\ version \in Versions
        /\ phase' \in {"train", "done"}
    BY <1>2 DEF TrackerWritten, TypeInv, TypeOK
  <2> QED BY <1>0, <2>1 DEF Tracked
<1>3. CASE TrackerOpened
  BY <1>0, <1>3 DEF TrackerOpened, memory, Tracked
<1>4. CASE Restart
  <2>1. ASSUME NEW v \in Versions, StartsAs(v, trained', fed'), v = IF tracker = Absent THEN 0 ELSE tracker,
               tracker # Torn
        PROVE  Tracked'
    <3>1. v % SaveFreq >= 0 /\ v \in Nat
      BY <1>0
    <3> QED BY <1>0, <2>1, <3>1 DEF StartsAs, Tracked
  <2>2. CASE phase' = "failed"
    BY <2>2 DEF Tracked
  <2>3. CASE tracker = Absent /\ StartsAs(0, 0, 0)
    <3>1. StartsAs(0, trained', fed') /\ 0 \in Versions
      BY <2>3, Bounds DEF StartsAs
    <3> QED BY <1>0, <2>1, <2>3, <3>1
  <2>4. CASE tracker \in Versions /\ StartsAs(tracker, trained', fed')
    BY <1>0, <2>1, <2>4
  <2> QED BY <1>4, <2>2, <2>3, <2>4 DEF Restart, StartsAs
<1>5. CASE Feed \/ Finish \/ Crash \/ UNCHANGED vars
  BY <1>0, <1>5 DEF Feed, Finish, Crash, vars, memory, Tracked
<1>6. CASE BeginModel \/ BeginData \/ WriteModel \/ WriteData \/ Register
  BY <1>0, <1>6 DEF BeginModel, BeginData, WriteModel, WriteData, Register, memory, Tracked
<1> QED BY <1>1, <1>2, <1>3, <1>4, <1>5, <1>6 DEF Next, Save
-------------------------------------------------------------------------------
(* What has been saved                                                     *)

LEMMA Kinds ==
    ASSUME TypeInv
    PROVE  /\ version \in Nat /\ trained \in Nat /\ fed \in Nat /\ version \in Versions
           /\ tracker \in {Absent, Torn} \cup Versions /\ Absent \notin Versions /\ Torn \notin Versions
           /\ Absent < 0 /\ Torn < 0 /\ Torn # Absent
           /\ \A v \in Versions : v \in Nat
           /\ \A m \in Models : prev[m] \in Seq(Versions) /\ Len(prev[m]) \in Nat
           /\ \A m \in Models : \A j \in 1..Len(prev[m]) : prev[m][j] \in Nat
           /\ \A f \in Files : \A v \in Versions : disk[f][v] \in Int
           /\ item \in 1..(NumParts + 1)
<1>1. \A m \in Models : prev[m] \in Seq(Versions)
  BY DEF TypeInv, TypeOK
<1>2. ASSUME NEW m \in Models
      PROVE  Len(prev[m]) \in Nat /\ \A j \in 1..Len(prev[m]) : prev[m][j] \in Nat
  <2>1. prev[m] \in Seq(Versions)
    BY <1>1
  <2>2. \A j \in 1..Len(prev[m]) : prev[m][j] \in Versions
    BY <2>1, ElementOfSeq
  <2> QED BY <2>1, <2>2, LenProperties, Bounds
<1>3. ASSUME NEW f \in Files, NEW v \in Versions PROVE disk[f][v] \in Int
  <2>1. disk[f][v] \in Contents
    BY DEF TypeInv, TypeOK
  <2> QED BY <2>1 DEF Contents, Absent, Torn
<1>4. item \in 1..(NumParts + 1)
  BY SavingWhat DEF TypeInv, TypeOK
<1> QED BY <1>1, <1>2, <1>3, <1>4, Bounds DEF TypeInv, TypeOK, Absent, Torn

(* The tracker's version has been passed by, unless it is the current one. *)
LEMMA TrackerBehind ==
    ASSUME TypeInv, Tracked, phase \notin {"flush", "down", "failed"}
    PROVE  tracker # Torn /\ tracker <= version
  BY Kinds DEF Tracked, Absent

(* With the same disk, what could be loaded or resumed still can.          *)
LEMMA SameDisk ==
    ASSUME disk' = disk
    PROVE  \A v \in Versions : (Resumable(v)' <=> Resumable(v)) /\ (Loads(v)' <=> Loads(v))
  BY DEF Resumable, Loads

(* All the models and the data loader are saved: the version is whole.     *)
LEMMA WholeVersion ==
    ASSUME TypeInv, SavedSoFar, DataSaved, phase \in {"tracker", "flush"}
    PROVE  Loads(version) /\ (~resaved => Resumable(version))
<1>1. \A i \in 1..NumParts : disk[Parts[i]][version] = trained
  <2>1. item = NumParts + 1 /\ phase \in SavePhases
    BY DEF TypeInv, SavePhases
  <2> QED BY <2>1, OrderOfSaving DEF SavedSoFar
<1>2. \A m \in Models : disk[m][version] = trained
  BY <1>1, OrderOfSaving
<1>3. Parts[1] \in Models
  BY OrderOfSaving
<1>4. disk["data"][version] \in Int
  BY Kinds, FilesOf
<1> QED BY <1>2, <1>3, <1>4, Kinds DEF Loads, Resumable, DataSaved, Torn

LEMMA InitSaves == Init => SaveInv
<1> SUFFICES ASSUME Init PROVE SaveInv
  OBVIOUS
<1>1. TypeInv
  BY InitTypes
<1>2. phase = "train" /\ tracker = Absent /\ trained = 0 /\ fed = 0
  BY DEF Init
<1>3. \A i \in 1..NumParts : prev[Parts[i]] = <<>>
  BY OrderOfSaving DEF Init, NoPaths
<1>4. PathsInOrder
  <2>1. ASSUME NEW i \in 1..NumParts PROVE InOrder(prev[Parts[i]]) /\ UpTo(prev[Parts[i]], tracker)
    <3>1. \A j \in 1..Len(prev[Parts[i]]) : FALSE
      BY <1>3, EmptySeq
    <3> QED BY <3>1 DEF InOrder, UpTo
  <2> QED BY <1>2, <2>1 DEF PathsInOrder, SavePhases
<1> QED BY <1>1, <1>2, <1>4, Kinds
        DEF SaveInv, SavedSoFar, DataSaved, Room, TrackerWhole, TornLoads, EndsResumable, SavePhases

LEMMA FeedSaves == ASSUME TypeInv, SaveInv, Feed PROVE SaveInv'
<1> USE Kinds DEF Feed
<1>1. SavedSoFar' /\ DataSaved' /\ Room' /\ PathsInOrder'
  BY DEF SaveInv, SavedSoFar, DataSaved, Room, PathsInOrder, InOrder, UpTo
<1>2. TrackerWhole'
  BY SameDisk DEF SaveInv, TrackerWhole
<1>3. TornLoads' /\ EndsResumable'
  BY SameDisk DEF SaveInv, TornLoads, EndsResumable, Alive
<1> QED BY <1>1, <1>2, <1>3 DEF SaveInv

(* A save begins: of a version the tracker does not name, or resaved.      *)
LEMMA SaveBegins ==
    ASSUME TypeInv, Tracked, SaveInv, phase = "train", phase' = "begin", item' = 1,
           UNCHANGED <<prev, disk, tracker, lastCkpt, fed>>,
           resaved => resaved',
           ~resaved' => trained' <= fed,
           version' \in Nat, version <= version',
           ~resaved' => version' # tracker
    PROVE  SaveInv'
<1> USE Kinds
<1>1. SavedSoFar' /\ DataSaved' /\ Room' /\ EndsResumable'
  BY DEF SavedSoFar, DataSaved, Room, EndsResumable
<1>2. PathsInOrder'
  <2>1. ASSUME ~resaved', NEW i \in 1..NumParts
        PROVE  InOrder(prev[Parts[i]]) /\ UpTo(prev[Parts[i]], tracker)
    BY <2>1 DEF SaveInv, PathsInOrder
  <2>2. \A i \in 1..NumParts : ~(i < item')
    BY OrderOfSaving
  <2> QED BY <2>1, <2>2 DEF PathsInOrder, InOrder, UpTo
<1>3. TrackerWhole'
  <2>1. tracker # Torn /\ tracker <= version
    BY TrackerBehind
  <2>2. ~resaved' /\ tracker \in Versions => tracker < version'
    BY <2>1
  <2> QED BY <2>2, SameDisk DEF SaveInv, TrackerWhole
<1>4. TornLoads'
  BY SameDisk DEF SaveInv, TornLoads
<1> QED BY <1>1, <1>2, <1>3, <1>4 DEF SaveInv

LEMMA TrainStepSaves == ASSUME TypeInv, Tracked, SaveInv, TrainStep PROVE SaveInv'
<1> USE Kinds
<1>1. PICK esi \in BOOLEAN : phase' = IF SaveDue(version', esi) THEN "begin" ELSE "train"
  BY DEF TrainStep
<1>2. /\ phase = "train" /\ trained' = trained + 1 /\ trained < fed /\ item' = 1
      /\ version' \in {version, version + 1}
      /\ UNCHANGED <<lastCkpt, prev, fed, disk, tracker, resaved>>
  BY DEF TrainStep
<1>3. trained' <= fed /\ version' \in Nat /\ version <= version'
  BY <1>2
<1>4. CASE SaveDue(version', esi)
  <2>1. version' # lastCkpt
    BY <1>4 DEF SaveDue
  <2>2. tracker \in Versions => lastCkpt = tracker
    BY <1>2 DEF Tracked
  <2>3. version' # tracker
    BY <1>3, <2>1, <2>2
  <2> QED BY <1>1, <1>2, <1>3, <1>4, <2>3, SaveBegins
<1>5. CASE ~SaveDue(version', esi)
  <2>1. phase' = "train"
    BY <1>1, <1>5
  <2>2. SavedSoFar' /\ DataSaved' /\ Room' /\ EndsResumable'
    BY <2>1 DEF SavedSoFar, DataSaved, Room, EndsResumable, SavePhases
  <2>3. PathsInOrder'
    BY <1>2, <2>1 DEF SaveInv, PathsInOrder, InOrder, UpTo, SavePhases
  <2>4. TrackerWhole' /\ TornLoads'
    BY <1>2, <1>3, <2>1, SameDisk DEF SaveInv, TrackerWhole, TornLoads, SavePhases
  <2> QED BY <2>2, <2>3, <2>4 DEF SaveInv
<1> QED BY <1>4, <1>5

LEMMA FinishSaves == ASSUME TypeInv, Tracked, SaveInv, Finish PROVE SaveInv'
<1>1. /\ phase = "train" /\ phase' = "begin" /\ item' = 1
      /\ UNCHANGED <<prev, disk, tracker, lastCkpt, fed, trained, version>>
      /\ resaved' = (resaved \/ version = tracker)
  BY DEF Finish, memory
<1>2. /\ resaved => resaved'
      /\ ~resaved' => version' # tracker
      /\ ~resaved' => ~resaved
  BY <1>1, Zenon
<1>3. ~resaved' => trained' <= fed
  BY <1>1, <1>2 DEF SaveInv, TrackerWhole
<1>4. version' \in Nat /\ version <= version'
  BY <1>1, Kinds
<1> QED BY <1>1, <1>2, <1>3, <1>4, SaveBegins

LEMMA BeginModelSaves == ASSUME KeepsMore, TypeInv, Tracked, SaveInv, BeginModel PROVE SaveInv'
<1> USE Kinds
<1> DEFINE m == Saving
           n == Excess(m)
<1>1. /\ item \in 1..NumParts /\ m = Parts[item] /\ m \in Models
      /\ prev' = [prev EXCEPT ![m] = From(prev[m], n)]
      /\ \A f \in Files : f # m => disk'[f] = disk[f]
      /\ \A v \in Versions :
            v # version /\ (\A i \in 1..n : prev[m][i] # v) => disk'[m][v] = disk[m][v]
  BY BeginModelDoes DEF TypeInv
<1>2. /\ phase = "begin" /\ phase' = "write" /\ item' = item
      /\ UNCHANGED <<version, trained, lastCkpt, fed, tracker, resaved>>
  BY DEF BeginModel
<1>3. /\ n \in 0..Len(prev[m]) /\ Len(prev[m]) \in Nat /\ Keep[m] \in Nat
      /\ n > 0 => n < Len(prev[m])
      /\ Keep[m] > 1 => Len(prev[m]) - n < Keep[m]
  BY <1>1, ExcessOf DEF TypeInv
<1>4. /\ Len(From(prev[m], n)) = Len(prev[m]) - n
      /\ \A j \in 1..(Len(prev[m]) - n) : From(prev[m], n)[j] = prev[m][n + j]
  BY <1>1, <1>3, FromPaths
<1>5. /\ prev \in [Models -> Seq(Versions)]
      /\ prev'[m] = From(prev[m], n) /\ \A k \in Models : k # m => prev'[k] = prev[k]
  BY <1>1 DEF TypeInv, TypeOK
<1> HIDE DEF m, n
<1>6. SavedSoFar'
  <2>1. ASSUME NEW i \in 1..NumParts, i < item PROVE disk'[Parts[i]][version] = trained
    <3>1. Parts[i] # m /\ Parts[i] \in Files
      BY <1>1, <2>1, OrderOfSaving, FilesOf
    <3>2. disk[Parts[i]][version] = trained
      BY <1>2, <2>1 DEF SaveInv, SavedSoFar, SavePhases
    <3> QED BY <1>1, <3>1, <3>2
  <2> QED BY <1>2, <2>1 DEF SavedSoFar
<1>7. DataSaved' /\ EndsResumable'
  BY <1>2 DEF DataSaved, EndsResumable
<1>8. Room'
  BY <1>1, <1>2, <1>3, <1>4, <1>5 DEF Room
<1>9. ASSUME ~resaved PROVE InOrder(prev[m]) /\ UpTo(prev[m], tracker)
  <2>1. ~(item < item)
    BY <1>1
  <2> QED BY <1>1, <1>2, <1>9, <2>1 DEF SaveInv, PathsInOrder, SavePhases
<1>10. PathsInOrder'
  <2> SUFFICES ASSUME ~resaved, NEW i \in 1..NumParts
               PROVE  /\ InOrder(prev'[Parts[i]])
                      /\ UpTo(prev'[Parts[i]], IF i < item THEN version ELSE tracker)
    BY <1>2 DEF PathsInOrder, InOrder, UpTo
  <2>1. CASE i = item
    <3>1. prev'[Parts[i]] = From(prev[m], n) /\ ~(i < item)
      BY <1>1, <1>5, <2>1
    <3>2. InOrder(From(prev[m], n))
      <4> SUFFICES ASSUME NEW j \in 1..(Len(prev[m]) - n), NEW k \in 1..(Len(prev[m]) - n), j < k
                   PROVE  prev[m][n + j] < prev[m][n + k]
        BY <1>4 DEF InOrder
      <4>1. n + j \in 1..Len(prev[m]) /\ n + k \in 1..Len(prev[m]) /\ n + j < n + k
        BY <1>3
      <4> QED BY <1>9, <4>1 DEF InOrder
    <3>3. UpTo(From(prev[m], n), tracker)
      <4> SUFFICES ASSUME NEW j \in 1..(Len(prev[m]) - n) PROVE prev[m][n + j] <= tracker
        BY <1>4 DEF UpTo
      <4>1. n + j \in 1..Len(prev[m])
        BY <1>3
      <4> QED BY <1>9, <4>1 DEF UpTo
    <3> QED BY <3>1, <3>2, <3>3
  <2>2. CASE i # item
    <3>1. prev'[Parts[i]] = prev[Parts[i]]
      BY <1>1, <1>5, <2>2, OrderOfSaving
    <3> QED BY <1>2, <3>1 DEF SaveInv, PathsInOrder, SavePhases
  <2> QED BY <2>1, <2>2
<1>11. TrackerWhole'
  <2>1. ~resaved => trained' <= fed'
    BY <1>2 DEF SaveInv, TrackerWhole
  <2>2. ASSUME ~resaved, tracker \in Versions
        PROVE  Resumable(tracker) /\ tracker < version
    BY <1>2, <2>2 DEF SaveInv, TrackerWhole, SavePhases
  <2>3. ASSUME ~resaved, tracker \in Versions
        PROVE  \A f \in Files : disk'[f][tracker] = disk[f][tracker]
    <3>1. tracker # version
      BY <2>2, <2>3
    <3>2. ASSUME NEW i \in 1..n PROVE prev[m][i] # tracker
      <4>1. n < Len(prev[m]) /\ i \in 1..Len(prev[m]) /\ Len(prev[m]) \in 1..Len(prev[m])
            /\ i < Len(prev[m])
        BY <1>3
      <4>2. prev[m][i] < prev[m][Len(prev[m])]
        BY <1>9, <2>3, <4>1 DEF InOrder
      <4>3. prev[m][Len(prev[m])] <= tracker
        BY <1>9, <2>3, <4>1 DEF UpTo
      <4>4. prev[m][i] \in Nat /\ prev[m][Len(prev[m])] \in Nat /\ tracker \in Nat
        BY <1>1, <2>3, <4>1
      <4> QED BY <4>2, <4>3, <4>4
    <3>3. disk'[m][tracker] = disk[m][tracker]
      BY <1>1, <2>3, <3>1, <3>2
    <3> QED BY <1>1, <3>3
  <2>4. ASSUME ~resaved, tracker \in Versions PROVE Resumable(tracker)'
    BY <1>2, <2>2, <2>3, <2>4, FilesOf, OrderOfSaving DEF Resumable
  <2> QED BY <1>2, <2>1, <2>2, <2>4 DEF TrackerWhole
<1>12. TornLoads'
  BY <1>2, TrackerBehind DEF TornLoads
<1> QED BY <1>6, <1>7, <1>8, <1>10, <1>11, <1>12 DEF SaveInv

(* The versions of a save under way and of the tracker are different ones. *)
LEMMA OtherVersion ==
    ASSUME TypeInv, SaveInv, phase \in SavePhases, ~resaved, tracker \in Versions
    PROVE  Resumable(tracker) /\ tracker < version /\ tracker # version
  BY Kinds DEF SaveInv, TrackerWhole

(* A write to the version that is being saved leaves the tracker's whole.  *)
LEMMA WriteKeepsTracker ==
    ASSUME TypeInv, Tracked, SaveInv, phase \in SavePhases, phase' \in SavePhases,
           \A f \in Files : \A v \in Versions : v # version => disk'[f][v] = disk[f][v],
           UNCHANGED <<version, trained, fed, tracker, resaved>>
    PROVE  TrackerWhole'
<1>1. ASSUME ~resaved, tracker \in Versions PROVE Resumable(tracker)'
  BY <1>1, OtherVersion, FilesOf, OrderOfSaving DEF Resumable
<1>2. ~resaved /\ tracker \in Versions => tracker < version
  BY OtherVersion
<1> QED BY <1>1, <1>2 DEF SaveInv, TrackerWhole

LEMMA PathsUnchanged ==
    ASSUME SaveInv, phase \in SavePhases, phase' \in SavePhases,
           UNCHANGED <<version, item, prev, tracker, resaved>>
    PROVE  PathsInOrder'
  BY DEF SaveInv, PathsInOrder, InOrder, UpTo, SavePhases

LEMMA BeginDataSaves == ASSUME TypeInv, Tracked, SaveInv, BeginData PROVE SaveInv'
<1>1. /\ phase = "begin" /\ phase' = "write" /\ Saving = "data" /\ item' = item
      /\ disk' = [disk EXCEPT !["data"][version] = Torn]
      /\ UNCHANGED <<version, trained, lastCkpt, fed, prev, tracker, resaved>>
  BY DEF BeginData, memory
<1>2. /\ disk \in [Files -> [Versions -> Contents]]
      /\ item = NumParts + 1
  BY <1>1, SavingWhat DEF TypeInv, TypeOK
<1>3. /\ \A f \in Files : \A v \in Versions : v # version => disk'[f][v] = disk[f][v]
      /\ \A k \in Models : disk'[k] = disk[k]
  BY <1>1, <1>2, FilesOf
<1>4. SavedSoFar'
  BY <1>1, <1>2, <1>3, OrderOfSaving DEF SaveInv, SavedSoFar, SavePhases
<1>5. DataSaved' /\ EndsResumable'
  BY <1>1 DEF DataSaved, EndsResumable
<1>6. Room'
  BY <1>1, <1>2, OrderOfSaving DEF Room
<1>7. PathsInOrder'
  BY <1>1, PathsUnchanged DEF SavePhases
<1>8. TrackerWhole'
  BY <1>1, <1>3, WriteKeepsTracker DEF SavePhases
<1>9. TornLoads'
  BY <1>1, TrackerBehind DEF TornLoads
<1> QED BY <1>4, <1>5, <1>6, <1>7, <1>8, <1>9 DEF SaveInv

LEMMA WriteModelSaves == ASSUME TypeInv, Tracked, SaveInv, WriteModel PROVE SaveInv'
<1>1. /\ phase = "write" /\ phase' = "register" /\ Saving # "data" /\ item' = item
      /\ disk' = [disk EXCEPT ![Saving][version] = trained]
      /\ UNCHANGED <<version, trained, lastCkpt, fed, prev, tracker, resaved>>
  BY DEF WriteModel, memory
<1>2. /\ disk \in [Files -> [Versions -> Contents]] /\ version \in Versions
      /\ item \in 1..NumParts /\ Saving = Parts[item] /\ Saving \in Models
  BY <1>1, SavingWhat DEF TypeInv, TypeOK
<1>3. /\ \A f \in Files : \A v \in Versions : v # version => disk'[f][v] = disk[f][v]
      /\ \A f \in Files : f # Saving => disk'[f] = disk[f]
      /\ disk'[Saving][version] = trained
  BY <1>1, <1>2, FilesOf
<1>4. SavedSoFar'
  <2>1. ASSUME NEW i \in 1..NumParts, i < item PROVE disk'[Parts[i]][version] = trained
    <3>1. Parts[i] # Saving /\ Parts[i] \in Files
      BY <1>2, <2>1, OrderOfSaving, FilesOf
    <3>2. disk[Parts[i]][version] = trained
      BY <1>1, <2>1 DEF SaveInv, SavedSoFar, SavePhases
    <3> QED BY <1>3, <3>1, <3>2
  <2> QED BY <1>1, <1>2, <1>3, <2>1 DEF SavedSoFar
<1>5. DataSaved' /\ EndsResumable'
  BY <1>1 DEF DataSaved, EndsResumable
<1>6. Room'
  BY <1>1 DEF SaveInv, Room
<1>7. PathsInOrder'
  BY <1>1, PathsUnchanged DEF SavePhases
<1>8. TrackerWhole'
  BY <1>1, <1>3, WriteKeepsTracker DEF SavePhases
<1>9. TornLoads'
  BY <1>1, TrackerBehind DEF TornLoads
<1> QED BY <1>4, <1>5, <1>6, <1>7, <1>8, <1>9 DEF SaveInv

LEMMA WriteDataSaves == ASSUME TypeInv, Tracked, SaveInv, WriteData PROVE SaveInv'
<1>1. /\ phase = "write" /\ phase' = "tracker" /\ Saving = "data" /\ item' = item
      /\ disk' = [disk EXCEPT !["data"][version] = fed]
      /\ UNCHANGED <<version, trained, lastCkpt, fed, prev, tracker, resaved>>
  BY DEF WriteData, memory
<1>2. /\ disk \in [Files -> [Versions -> Contents]] /\ version \in Versions
      /\ item = NumParts + 1
  BY <1>1, SavingWhat DEF TypeInv, TypeOK
<1>3. /\ \A f \in Files : \A v \in Versions : v # version => disk'[f][v] = disk[f][v]
      /\ \A k \in Models : disk'[k] = disk[k]
      /\ disk'["data"][version] = fed
  BY <1>1, <1>2, FilesOf
<1>4. SavedSoFar'
  BY <1>1, <1>2, <1>3, OrderOfSaving DEF SaveInv, SavedSoFar, SavePhases
<1>5. DataSaved' /\ EndsResumable'
  BY <1>1, <1>3, Kinds DEF SaveInv, TrackerWhole, DataSaved, EndsResumable
<1>6. Room'
  BY <1>1 DEF Room
<1>7. PathsInOrder'
  BY <1>1, PathsUnchanged DEF SavePhases
<1>8. TrackerWhole'
  BY <1>1, <1>3, WriteKeepsTracker DEF SavePhases
<1>9. TornLoads'
  BY <1>1, TrackerBehind DEF TornLoads
<1> QED BY <1>4, <1>5, <1>6, <1>7, <1>8, <1>9 DEF SaveInv

(* With room for the new folder, registering it removes none.              *)
LEMMA RegisterSaves == ASSUME KeepsMore, TypeInv, Tracked, SaveInv, Register PROVE SaveInv'
<1>0. /\ version \in Versions /\ version \in Nat
      /\ tracker \in {Absent, Torn} \cup Versions /\ Absent < 0 /\ Absent \in Int
      /\ \A v \in Versions : v \in Nat
      /\ \A k \in Models : prev[k] \in Seq(Versions)
      /\ \A k \in Models : \A j \in 1..Len(prev[k]) : prev[k][j] \in Nat
  BY Kinds DEF Absent
<1> DEFINE m == Saving
           p == Append(prev[m], version)
<1>1. /\ item \in 1..NumParts /\ m = Parts[item] /\ m \in Models
      /\ p \in Seq(Versions) /\ Len(p) = Len(prev[m]) + 1
      /\ Len(prev[m]) \in Nat /\ Keep[m] \in Nat
      /\ prev' = [prev EXCEPT ![m] = From(p, Surplus(m, p))]
      /\ disk' = [disk EXCEPT ![m] = Without(disk[m], p, Surplus(m, p))]
  BY RegisterDoes
<1>2. /\ phase = "register" /\ phase' = "begin" /\ item' = item + 1
      /\ UNCHANGED <<version, trained, lastCkpt, fed, tracker, resaved>>
  BY DEF Register
<1>3. \A j \in 1..Len(p) : p[j] = IF j = Len(p) THEN version ELSE prev[m][j]
  <2>1. prev[m] \in Seq(Versions) /\ version \in Versions
    BY <1>0, <1>1
  <2> QED BY <1>1, <2>1, AppendProperties
<1> HIDE DEF m, p
<1>4. Surplus(m, p) = 0
  <2>1. Keep[m] > 1 => Len(prev[m]) < Keep[m]
    BY <1>1, <1>2 DEF SaveInv, Room
  <2>2. Keep[m] = 0 \/ Keep[m] > 1
    <3>1. Keep[m] # 1
      BY <1>1 DEF KeepsMore
    <3> QED BY <1>1, <3>1
  <2> QED BY <1>1, <2>1, <2>2 DEF Surplus
<1>5. disk' = disk
  <2>1. disk \in [Files -> [Versions -> Contents]] /\ m \in Files
    BY <1>1, FilesOf DEF TypeInv, TypeOK
  <2>2. disk[m] \in [Versions -> Contents]
    BY <2>1
  <2>3. Without(disk[m], p, 0) = disk[m]
    BY <2>2 DEF Without
  <2> QED BY <1>1, <1>4, <2>1, <2>3
<1>6. /\ Len(prev'[m]) = Len(p) /\ \A j \in 1..Len(p) : prev'[m][j] = p[j]
      /\ \A k \in Models : k # m => prev'[k] = prev[k]
  <2>1. prev'[m] = From(p, 0) /\ \A k \in Models : k # m => prev'[k] = prev[k]
    BY <1>1, <1>4 DEF TypeInv, TypeOK
  <2>2. 0 \in 0..Len(p)
    BY <1>1
  <2>3. Len(From(p, 0)) = Len(p) - 0 /\ \A j \in 1..(Len(p) - 0) : From(p, 0)[j] = p[0 + j]
    BY <1>1, <2>2, FromPaths
  <2> QED BY <1>1, <2>1, <2>3
<1>7. SavedSoFar'
  <2>1. ASSUME NEW i \in 1..NumParts, i < item + 1 PROVE disk[Parts[i]][version] = trained
    <3>1. i < item \/ i = item
      BY <1>1, <2>1
    <3> QED BY <1>2, <3>1 DEF SaveInv, SavedSoFar, SavePhases
  <2> QED BY <1>2, <1>5, <2>1 DEF SavedSoFar
<1>8. DataSaved' /\ EndsResumable' /\ Room'
  BY <1>2 DEF DataSaved, EndsResumable, Room
<1>9. PathsInOrder'
  <2> SUFFICES ASSUME ~resaved, NEW i \in 1..NumParts
               PROVE  /\ InOrder(prev'[Parts[i]])
                      /\ UpTo(prev'[Parts[i]], IF i < item + 1 THEN version ELSE tracker)
    BY <1>2 DEF PathsInOrder, InOrder, UpTo
  <2>1. CASE i = item
    <3>1. InOrder(prev[m]) /\ UpTo(prev[m], tracker)
      <4>1. ~(item < item)
        BY <1>1
      <4> QED BY <1>1, <1>2, <4>1 DEF SaveInv, PathsInOrder, SavePhases
    <3>2. tracker < version
      <4>1. tracker # Torn
        BY <1>2, TrackerBehind
      <4>2. tracker \in Versions => tracker < version
        BY <1>2, OtherVersion DEF SavePhases
      <4> QED BY <1>0, <4>1, <4>2
    <3>3. ASSUME NEW j \in 1..Len(prev[m]) PROVE prev[m][j] < version /\ prev[m][j] \in Nat
      <4>1. prev[m][j] <= tracker /\ prev[m][j] \in Nat
        BY <1>0, <1>1, <3>1 DEF UpTo
      <4>2. tracker \in Int
        BY <1>0, <1>2, TrackerBehind
      <4> QED BY <1>0, <3>2, <4>1, <4>2
    <3>4. InOrder(p)
      <4> SUFFICES ASSUME NEW j \in 1..Len(p), NEW k \in 1..Len(p), j < k PROVE p[j] < p[k]
        BY DEF InOrder
      <4>1. j \in 1..Len(prev[m]) /\ p[j] = prev[m][j]
        <5>1. j # Len(p) /\ j \in 1..Len(prev[m])
          BY <1>1
        <5> QED BY <1>3, <5>1
      <4>2. CASE k = Len(p)
        BY <1>3, <3>3, <4>1, <4>2
      <4>3. CASE k # Len(p)
        <5>1. k \in 1..Len(prev[m]) /\ p[k] = prev[m][k]
          <6>1. k \in 1..Len(prev[m])
            BY <1>1, <4>3
          <6> QED BY <1>3, <4>3, <6>1
        <5> QED BY <3>1, <4>1, <5>1 DEF InOrder
      <4> QED BY <4>2, <4>3
    <3>5. UpTo(p, version)
      <4> SUFFICES ASSUME NEW j \in 1..Len(p) PROVE p[j] <= version
        BY DEF UpTo
      <4>1. CASE j = Len(p)
        BY <1>0, <1>3, <4>1
      <4>2. CASE j # Len(p)
        <5>1. j \in 1..Len(prev[m]) /\ p[j] = prev[m][j]
          <6>1. j \in 1..Len(prev[m])
            BY <1>1, <4>2
          <6> QED BY <1>3, <4>2, <6>1
        <5> QED BY <1>0, <3>3, <5>1
      <4> QED BY <4>1, <4>2
    <3>6. InOrder(prev'[m]) /\ UpTo(prev'[m], version)
      BY <1>6, <3>4, <3>5 DEF InOrder, UpTo
    <3>7. i < item + 1
      BY <2>1
    <3> QED BY <1>1, <2>1, <3>6, <3>7
  <2>2. CASE i # item
    <3>1. prev'[Parts[i]] = prev[Parts[i]]
      BY <1>1, <1>6, <2>2, OrderOfSaving
    <3>2. i < item + 1 <=> i < item
      BY <1>1, <2>2
    <3>3. /\ InOrder(prev[Parts[i]])
          /\ UpTo(prev[Parts[i]], IF i < item THEN version ELSE tracker)
      BY <1>2 DEF SaveInv, PathsInOrder, SavePhases
    <3> QED BY <3>1, <3>2, <3>3
  <2> QED BY <2>1, <2>2
<1>10. TrackerWhole'
  BY <1>2, <1>5, SameDisk DEF SaveInv, TrackerWhole, SavePhases
<1>11. TornLoads'
  BY <1>2, TrackerBehind DEF TornLoads
<1> QED BY <1>7, <1>8, <1>9, <1>10, <1>11 DEF SaveInv

LEMMA TrackerOpenedSaves == ASSUME TypeInv, Tracked, SaveInv, TrackerOpened PROVE SaveInv'
<1> USE Kinds
<1>1. /\ phase = "tracker" /\ phase' = "flush" /\ item' = item /\ tracker' = Torn
      /\ UNCHANGED <<version, trained, lastCkpt, fed, prev, disk, resaved>>
      /\ item = NumParts + 1
  BY DEF TrackerOpened, memory, TypeInv
<1>2. SavedSoFar' /\ DataSaved' /\ Room' /\ EndsResumable'
  BY <1>1 DEF SaveInv, SavedSoFar, DataSaved, Room, EndsResumable, SavePhases
<1>3. PathsInOrder'
  <2>1. \A i \in 1..NumParts : i < item
    BY <1>1, OrderOfSaving
  <2> QED BY <1>1, <2>1 DEF SaveInv, PathsInOrder, InOrder, UpTo, SavePhases
<1>4. TrackerWhole'
  BY <1>1 DEF SaveInv, TrackerWhole
<1>5. TornLoads'
  <2>1. Loads(version)
    BY <1>1, WholeVersion DEF SaveInv
  <2>2. Loads(version)'
    BY <1>1, <2>1 DEF Loads
  <2> QED BY <1>1, <2>2, SameDisk DEF TornLoads
<1> QED BY <1>2, <1>3, <1>4, <1>5 DEF SaveInv

LEMMA TrackerWrittenSaves == ASSUME TypeInv, Tracked, SaveInv, TrackerWritten PROVE SaveInv'
<1> USE Kinds
<1>1. /\ phase = "flush" /\ phase' \in {"done", "train"} /\ tracker' = version
      /\ UNCHANGED <<version, trained, fed, prev, item, disk, resaved>>
      /\ item = NumParts + 1
  BY DEF TrackerWritten, TypeInv
<1>2. Loads(version) /\ (~resaved => Resumable(version))
  BY <1>1, WholeVersion DEF SaveInv
<1>3. SavedSoFar' /\ DataSaved' /\ Room' /\ TornLoads'
  BY <1>1 DEF SavedSoFar, DataSaved, Room, TornLoads, SavePhases
<1>4. EndsResumable'
  BY <1>1, <1>2, SameDisk DEF EndsResumable
<1>5. PathsInOrder'
  <2>1. \A i \in 1..NumParts : i < item
    BY <1>1, OrderOfSaving
  <2> QED BY <1>1, <2>1 DEF SaveInv, PathsInOrder, InOrder, UpTo, SavePhases
<1>6. TrackerWhole'
  BY <1>1, <1>2, SameDisk DEF SaveInv, TrackerWhole, SavePhases
<1> QED BY <1>3, <1>4, <1>5, <1>6 DEF SaveInv

(* A crash, or a run that cannot be resumed, changes no file.              *)
LEMMA StopSaves ==
    ASSUME TypeInv, SaveInv, phase' \in {"down", "failed"},
           UNCHANGED <<memory, item, ending, disk, tracker, resaved>>
    PROVE  SaveInv'
<1> USE DEF memory
<1>1. SavedSoFar' /\ DataSaved' /\ Room' /\ EndsResumable'
  BY DEF SavedSoFar, DataSaved, Room, EndsResumable, SavePhases
<1>2. PathsInOrder'
  BY DEF SaveInv, PathsInOrder, InOrder, UpTo, SavePhases
<1>3. TrackerWhole' /\ TornLoads'
  BY SameDisk DEF SaveInv, TrackerWhole, TornLoads, SavePhases
<1> QED BY <1>1, <1>2, <1>3 DEF SaveInv

(* What is resumed from a checkpoint is what it holds.                     *)
LEMMA StartSaves ==
    ASSUME TypeInv, SaveInv, NEW v, NEW k, NEW d, StartsAs(v, k, d),
           tracker # Torn, ~resaved => k <= d
    PROVE  SaveInv'
<1>1. /\ phase' = "train" /\ prev' = NoPaths /\ trained' = k /\ fed' = d
      /\ disk' = disk /\ tracker' = tracker /\ resaved' = resaved
  BY DEF StartsAs
<1>2. SavedSoFar' /\ DataSaved' /\ Room' /\ EndsResumable' /\ TornLoads'
  BY <1>1 DEF SavedSoFar, DataSaved, Room, EndsResumable, TornLoads, SavePhases
<1>3. PathsInOrder'
  <2>1. ASSUME NEW i \in 1..NumParts PROVE \A j \in 1..Len(prev'[Parts[i]]) : FALSE
    <3>1. prev'[Parts[i]] = <<>>
      BY <1>1, OrderOfSaving DEF NoPaths
    <3> QED BY <3>1
  <2> QED BY <1>1, <2>1 DEF PathsInOrder, InOrder, UpTo, SavePhases
<1>4. TrackerWhole'
  BY <1>1, SameDisk DEF SaveInv, TrackerWhole, SavePhases
<1> QED BY <1>2, <1>3, <1>4 DEF SaveInv

LEMMA RestartSaves == ASSUME TypeInv, Tracked, SaveInv, Restart PROVE SaveInv'
<1> USE Kinds
<1>1. CASE tracker = Absent /\ StartsAs(0, 0, 0)
  BY <1>1, StartSaves
<1>2. CASE /\ tracker \in Versions /\ Loads(tracker)
           /\ StartsAs(tracker, disk[Parts[1]][tracker],
                       IF disk["data"][tracker] = Absent THEN 0 ELSE disk["data"][tracker])
  <2> DEFINE k == disk[Parts[1]][tracker]
             d == disk["data"][tracker]
  <2>1. ~resaved => k <= d /\ d # Absent
    <3>1. ASSUME ~resaved PROVE Resumable(tracker)
      BY <1>2, <3>1 DEF SaveInv, TrackerWhole
    <3>2. Parts[1] \in Models /\ k \in Int /\ d \in Int
      BY <1>2, OrderOfSaving, FilesOf
    <3> QED BY <3>1, <3>2 DEF Resumable
  <2>2. tracker # Torn /\ StartsAs(tracker, k, IF d = Absent THEN 0 ELSE d)
    BY <1>2
  <2> HIDE DEF k, d
  <2> QED BY <2>1, <2>2, StartSaves
<1>3. CASE phase' = "failed" /\ UNCHANGED <<memory, item, ending, disk, tracker, resaved>>
  BY <1>3, StopSaves
<1> QED BY <1>1, <1>2, <1>3 DEF Restart

LEMMA SaveInvKept == KeepsMore /\ TypeInv /\ Tracked /\ SaveInv /\ [Next]_vars => SaveInv'
<1> SUFFICES ASSUME KeepsMore, TypeInv, Tracked, SaveInv, [Next]_vars PROVE SaveInv'
  OBVIOUS
<1>1. CASE UNCHANGED vars
  <2>1. SavedSoFar' /\ DataSaved' /\ Room' /\ PathsInOrder'
    BY <1>1 DEF vars, memory, SaveInv, SavedSoFar, DataSaved, Room, PathsInOrder, InOrder, UpTo
  <2>2. TrackerWhole' /\ TornLoads'
    BY <1>1, SameDisk DEF vars, memory, SaveInv, TrackerWhole, TornLoads
  <2>3. EndsResumable'
    BY <1>1 DEF vars, memory, SaveInv, EndsResumable, Loads
  <2> QED BY <2>1, <2>2, <2>3 DEF SaveInv
<1>2. CASE Crash
  BY <1>2, StopSaves DEF Crash
<1> QED BY <1>1, <1>2, FeedSaves, TrainStepSaves, FinishSaves, BeginModelSaves, BeginDataSaves,
           WriteModelSaves, WriteDataSaves, RegisterSaves, TrackerOpenedSaves,
           TrackerWrittenSaves, RestartSaves DEF Next, Save
-------------------------------------------------------------------------------
(* The theorems                                                            *)

(* Memory, files and tracker agree, whatever is kept and whenever a crash  *)
(* comes (_save_checkpoint, load_checkpoint, BaseCheckpointManager).       *)
THEOREM CheckpointInvariance == Spec => []CheckpointInv
<1>1. Init => CheckpointInv
  BY InitTypes, InitSaves DEF CheckpointInv
<1>2. CheckpointInv /\ [Next]_vars => CheckpointInv'
  BY TypeInvKept, TrackedKept, SaveInvKept DEF CheckpointInv, KeepsMore
<1> QED BY <1>1, <1>2, PTL DEF Spec

(* Every variable stays in its type.                                       *)
THEOREM TypeCorrect == Spec => []TypeOK
<1>1. CheckpointInv => TypeOK
  BY DEF CheckpointInv, TypeInv
<1> QED BY <1>1, CheckpointInvariance, PTL

(* A crash while training costs fewer than save_freq parameter versions,   *)
(* even with limits that lose checkpoints (_fit_save_checkpoint).          *)
THEOREM LossBoundHolds == Spec => []LossBound
<1>1. CheckpointInv => LossBound
  <2> SUFFICES ASSUME CheckpointInv, phase = "train"
               PROVE  version - (IF tracker \in Versions THEN tracker ELSE 0) < SaveFreq
    BY DEF LossBound
  <2>1. TypeInv /\ Tracked
    BY DEF CheckpointInv
  <2>2. /\ version - lastCkpt <= version % SaveFreq /\ tracker # Torn
        /\ lastCkpt = IF tracker = Absent THEN 0 ELSE tracker
    BY <2>1 DEF Tracked
  <2>3. lastCkpt = IF tracker \in Versions THEN tracker ELSE 0
    BY <2>1, <2>2, Kinds
  <2>4. version \in Nat /\ lastCkpt \in Nat /\ SaveFreq \in Nat \ {0}
    BY <2>1, Bounds DEF TypeInv, TypeOK
  <2>5. version % SaveFreq \in 0..(SaveFreq - 1)
    BY <2>4
  <2> QED BY <2>2, <2>3, <2>4, <2>5
<1> QED BY <1>1, CheckpointInvariance, PTL

(* When no model is limited to a single checkpoint, the version the        *)
(* tracker names can be resumed from, through rotations, half-written      *)
(* saves and crashes, until a final save begins to overwrite it.           *)
THEOREM NothingSavedIsLostHolds == KeepsMore => (Spec => []NothingSavedIsLost)
<1> SUFFICES ASSUME KeepsMore PROVE Spec => []NothingSavedIsLost
  OBVIOUS
<1>1. CheckpointInv => NothingSavedIsLost
  BY DEF CheckpointInv, SaveInv, TrackerWhole, TornLoads, NothingSavedIsLost
<1> QED BY <1>1, CheckpointInvariance, PTL

(* ... and after the final save the run can be resumed: the limit of one   *)
(* under which it cannot is the only one (register_checkpoint).            *)
THEOREM EndsResumableHolds == KeepsMore => (Spec => []EndsResumable)
<1> SUFFICES ASSUME KeepsMore PROVE Spec => []EndsResumable
  OBVIOUS
<1>1. CheckpointInv => EndsResumable
  BY DEF CheckpointInv, SaveInv
<1> QED BY <1>1, CheckpointInvariance, PTL
===============================================================================
