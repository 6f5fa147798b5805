--------------------------- MODULE SharedRunProofs ---------------------------
(* Proofs about SharedRun, for any number of controllers, moderators and saves *)
(* and any roster: types; while calls take turns the state file is the saves   *)
(* that were completed; and it implements SharedFile.                          *)
EXTENDS SharedRun, FiniteSetTheorems, TLAPS

\* A file that can be read.
Whole(f) == half[f][1] = half[f][2] /\ half[f][1] # 0

Saving == {"opened", "half", "written"}

\* Where a call is, and what it holds open.
WriterFits(w) ==
  /\ w.at = "idle" => w = Idle
  /\ w.at \in {"reading", "opened", "half"} <=> w.fd # NoFile
  /\ w.save <= Len(log)
  /\ w.at \in Saving => w.save # 0

Shapes ==
  /\ \A c \in Controllers : WriterFits(writer[c])
  /\ \A m \in Moderators : Reading(page[m]) <=> page[m].fd # NoFile
  /\ \A f \in Files : half[f][1] <= Len(log) /\ half[f][2] <= Len(log)

\* The rest holds while calls take turns.
OneCall ==
  \A c, d \in Controllers : c # d => writer[c].at = "idle" \/ writer[d].at = "idle"

StateIsDone ==
  /\ done = Content(name["state"])
  /\ name["state"] # NoFile => Whole(name["state"]) /\ done # {} /\ name["tmp"] # name["state"]

\* A call works on what is done, and its save adds itself to that.
CallFits(w) ==
  /\ w.at = "reading" => w.fd = name["state"]
  /\ w.at = "working" => w.memory = done
  /\ w.at \in Saving =>
       /\ w.memory = done \cup {w.save} /\ w.save \notin done /\ log[w.save] = w.memory
       /\ name["tmp"] # NoFile
  /\ w.at \in {"opened", "half"} => w.fd = name["tmp"]
  /\ w.at = "half" => half[name["tmp"]][1] = w.save
  /\ w.at = "written" => half[name["tmp"]][1] = w.save /\ half[name["tmp"]][2] = w.save

CallsFit == \A c \in Controllers : CallFits(writer[c])

\* A file that is open for reading is complete, and nobody writes to it.
ReadersHold ==
  \A m \in Moderators :
    Reading(page[m]) => Whole(page[m].fd) /\ Content(page[m].fd) # {} /\ page[m].fd # name["tmp"]

InTurn == OneCall /\ StateIsDone /\ CallsFit /\ ReadersHold

RInv == TypeOK /\ Shapes /\ (~overlapped => InTurn)

-------------------------------------------------------------------------------
(* Facts about files and records.                                            *)

LEMMA Counts ==
  /\ Cardinality(Controllers) \in Nat /\ Cardinality(Moderators) \in Nat
  /\ IsFiniteSet(Files) /\ Cardinality(Files) = Cardinality(Controllers) + Cardinality(Moderators) + 2
  /\ NoFile \notin Files
<1>1. Cardinality(Controllers) \in Nat /\ Cardinality(Moderators) \in Nat
  BY RunAssumption, FS_CardinalityType
<1>2. NoFile \notin Files
  BY <1>1 DEF Files, NoFile
<1>3. IsFiniteSet(Files) /\ Cardinality(Files) = Cardinality(Controllers) + Cardinality(Moderators) + 2
  <2> DEFINE n == Cardinality(Controllers) + Cardinality(Moderators) + 2
  <2>1. n \in Nat /\ n > 0
    BY <1>1
  <2> HIDE DEF n
  <2>2. IsFiniteSet(1 .. n) /\ Cardinality(1 .. n) = n
    BY <2>1, FS_Interval
  <2> QED BY <2>2 DEF n, Files
<1> QED BY <1>1, <1>2, <1>3

\* The image of a finite set is no larger.
LEMMA ImageCount ==
  ASSUME NEW S, IsFiniteSet(S), NEW f, DOMAIN f = S
  PROVE  /\ IsFiniteSet({f[x] : x \in S})
         /\ Cardinality({f[x] : x \in S}) \in Nat
         /\ Cardinality({f[x] : x \in S}) <= Cardinality(S)
<1> DEFINE T == {f[x] : x \in S}
           g == [x \in S |-> f[x]]
<1>1. g \in Surjection(S, T)
  BY DEF Surjection
<1> HIDE DEF g, T
<1>2. IsFiniteSet(T) /\ Cardinality(T) <= Cardinality(S)
  BY <1>1, FS_Surjection
<1>3. Cardinality(T) \in Nat
  BY <1>2, FS_CardinalityType
<1> QED BY <1>2, <1>3 DEF T

LEMMA UnionCount ==
  ASSUME NEW S, NEW T, IsFiniteSet(S), IsFiniteSet(T)
  PROVE  /\ IsFiniteSet(S \cup T) /\ Cardinality(S \cup T) \in Nat
         /\ Cardinality(S \cup T) <= Cardinality(S) + Cardinality(T)
<1>1. IsFiniteSet(S \cup T) /\ Cardinality(S \cup T) = Cardinality(S) + Cardinality(T) - Cardinality(S \cap T)
  BY FS_Union
<1>2. IsFiniteSet(S \cap T)
  BY FS_Intersection
<1>3. /\ Cardinality(S \cup T) \in Nat /\ Cardinality(S) \in Nat
      /\ Cardinality(T) \in Nat /\ Cardinality(S \cap T) \in Nat
  BY <1>1, <1>2, FS_CardinalityType
<1> QED BY <1>1, <1>3

\* There is a file for whoever opens one: the others can hold one each.
LEMMA UnusedIsFree ==
  ASSUME TypeOK, NEW c \in Controllers, writer[c].fd = NoFile
  PROVE  /\ Unused \in Files
         /\ Unused # name["state"] /\ Unused # name["tmp"]
         /\ \A d \in Controllers : writer[d].fd # Unused
         /\ \A m \in Moderators : page[m].fd # Unused
<1> DEFINE P == {[n \in Moderators |-> page[n].fd][m] : m \in Moderators}
           N == {name["state"]} \cup {name["tmp"]}
           Others == Controllers \ {c}
           V == {[e \in Others |-> writer[e].fd][d] : d \in Others}
           Taken == V \cup (P \cup N)
<1>1. IsFiniteSet(P) /\ Cardinality(P) \in Nat /\ Cardinality(P) <= Cardinality(Moderators)
  BY RunAssumption, ImageCount
<1>2. IsFiniteSet(Others) /\ Cardinality(Others) = Cardinality(Controllers) - 1
  BY RunAssumption, FS_RemoveElement
<1>3. IsFiniteSet(V) /\ Cardinality(V) \in Nat /\ Cardinality(V) <= Cardinality(Others)
  <2> HIDE DEF Others
  <2> QED BY <1>2, ImageCount
<1>4. IsFiniteSet(N) /\ Cardinality(N) \in Nat /\ Cardinality(N) <= 2
  <2>1. \A x : IsFiniteSet({x}) /\ Cardinality({x}) = 1
    BY FS_Singleton
  <2>2. Cardinality(N) \in Nat /\ Cardinality(N) <= Cardinality({name["state"]}) + Cardinality({name["tmp"]})
    BY <2>1, UnionCount
  <2>3. IsFiniteSet(N)
    BY <2>1, UnionCount
  <2>4. Cardinality({name["state"]}) = 1 /\ Cardinality({name["tmp"]}) = 1
    BY <2>1
  <2> HIDE DEF N
  <2> QED BY <2>2, <2>3, <2>4
<1> HIDE DEF V, P, N, Others
<1>5. IsFiniteSet(P \cup N) /\ Cardinality(P \cup N) \in Nat /\ Cardinality(P \cup N) <= Cardinality(P) + Cardinality(N)
  BY <1>1, <1>4, UnionCount
<1>6. IsFiniteSet(Taken) /\ Cardinality(Taken) \in Nat /\ Cardinality(Taken) <= Cardinality(V) + Cardinality(P \cup N)
  BY <1>3, <1>5, UnionCount
<1>7. Cardinality(Taken) < Cardinality(Files)
  BY <1>1, <1>2, <1>3, <1>4, <1>5, <1>6, Counts
<1>8. PICK f \in Files : f \notin Taken
  <2>1. ~(Files \subseteq Taken)
    BY <1>6, <1>7, FS_Subset, Counts
  <2> QED BY <2>1
<1>9. /\ \A n \in DOMAIN name : name[n] # f
      /\ \A d \in Controllers : writer[d].fd # f
      /\ \A m \in Moderators : page[m].fd # f
  <2>1. DOMAIN name = {"state", "tmp"}
    BY DEF TypeOK
  <2>2. \A n \in DOMAIN name : name[n] # f
    BY <1>8, <2>1 DEF N
  <2>3. \A m \in Moderators : page[m].fd # f
    BY <1>8 DEF P
  <2>4. \A d \in Controllers : writer[d].fd # f
    BY <1>8, Counts DEF V, Others
  <2> QED BY <2>2, <2>3, <2>4
<1>10. /\ Unused \in Files
       /\ \A n \in DOMAIN name : name[n] # Unused
       /\ \A d \in Controllers : writer[d].fd # Unused
       /\ \A m \in Moderators : page[m].fd # Unused
  <2> HIDE DEF Taken
  <2> QED BY <1>9 DEF Unused
<1> QED BY <1>10 DEF TypeOK

\* What a file holds are saves.
LEMMA ContentType ==
  ASSUME TypeOK, Shapes, NEW f \in Files \cup {NoFile}
  PROVE  Content(f) \in (SUBSET Saves) \cup {Unread}
<1>1. CASE f = NoFile
  BY <1>1 DEF Content
<1>2. CASE f # NoFile
  <2>1. half[f][1] \in 0 .. MaxSaves /\ half[f][1] <= Len(log)
    BY <1>2 DEF TypeOK, Shapes
  <2>2. half[f][1] # 0 => log[half[f][1]] \in SUBSET Saves
    BY <2>1 DEF TypeOK
  <2> QED BY <2>2 DEF Content
<1> QED BY <1>1, <1>2

LEMMA SetWriter ==
  ASSUME writer \in [Controllers -> Writers], NEW c \in Controllers, NEW w \in Writers,
         writer' = [writer EXCEPT ![c] = w]
  PROVE  /\ writer' \in [Controllers -> Writers] /\ writer'[c] = w
         /\ \A d \in Controllers \ {c} : writer'[d] = writer[d]
  OBVIOUS

LEMMA SetPage ==
  ASSUME page \in [Moderators -> Pages], NEW m \in Moderators, NEW p \in Pages,
         page' = [page EXCEPT ![m] = p]
  PROVE  /\ page' \in [Moderators -> Pages] /\ page'[m] = p
         /\ \A o \in Moderators \ {m} : page'[o] = page[o]
  OBVIOUS

LEMMA IdleFits == Idle \in Writers /\ Idle.at = "idle" /\ (TypeOK => WriterFits(Idle)) /\ CallFits(Idle)
  BY RunAssumption DEF Idle, Writers, WriterFits, CallFits, Saving, NoFile, TypeOK

-------------------------------------------------------------------------------
(* The invariant holds, action by action.                                    *)

LEMMA InitRInv == Init => RInv
<1> SUFFICES ASSUME Init PROVE RInv
  OBVIOUS
<1>1. \A c \in Controllers : writer[c] = Idle
  BY DEF Init
<1>2. \A m \in Moderators : page[m] = Fresh /\ ~Reading(page[m]) /\ page[m].fd = NoFile
  BY DEF Init, Fresh, Reading
<1>3. Fresh \in Pages
  BY DEF Fresh, Pages
<1>4. name["state"] = NoFile /\ name["tmp"] = NoFile /\ log = <<>> /\ done = {} /\ ~overlapped
  BY DEF Init
<1>5. TypeOK
  <2>1. name \in [{"state", "tmp"} -> Files \cup {NoFile}] /\ half \in [Files -> (0 .. MaxSaves) \X (0 .. MaxSaves)]
    BY RunAssumption DEF Init
  <2>2. log \in Seq(SUBSET Saves) /\ Len(log) <= MaxSaves /\ done \subseteq 1 .. Len(log)
    BY <1>4, RunAssumption
  <2>3. writer \in [Controllers -> Writers] /\ page \in [Moderators -> Pages]
    BY <1>3, IdleFits DEF Init
  <2>4. overlapped \in BOOLEAN
    BY DEF Init
  <2> QED BY <1>2, <2>1, <2>2, <2>3, <2>4 DEF TypeOK
<1>6. Shapes
  <2>1. \A f \in Files : half[f][1] = 0 /\ half[f][2] = 0
    BY DEF Init
  <2> QED BY <1>1, <1>2, <1>4, <1>5, <2>1, IdleFits DEF Shapes
<1>7. InTurn
  BY <1>1, <1>2, <1>4, IdleFits DEF InTurn, OneCall, StateIsDone, CallsFit, ReadersHold, Content
<1> QED BY <1>5, <1>6, <1>7 DEF RInv

\* A step that changes nothing but what one controller is doing.
LEMMA WriterStep ==
  ASSUME RInv, NEW c \in Controllers, NEW w \in Writers, WriterFits(w),
         writer' = [writer EXCEPT ![c] = w], UNCHANGED <<name, half, log, page, done>>,
         overlapped' \in BOOLEAN, overlapped => overlapped',
         ~overlapped' => CallFits(w) /\ (w.at # "idle" => \A d \in Controllers \ {c} : writer[d].at = "idle")
  PROVE  RInv'
<1>1. /\ writer' \in [Controllers -> Writers] /\ writer'[c] = w
      /\ \A d \in Controllers \ {c} : writer'[d] = writer[d]
  <2> HIDE DEF Writers
  <2> QED BY SetWriter DEF RInv, TypeOK
<1>2. TypeOK'
  BY <1>1 DEF RInv, TypeOK
<1>3. Shapes'
  <2>1. \A v : WriterFits(v) => WriterFits(v)'
    BY DEF WriterFits
  <2>2. \A d \in Controllers : WriterFits(writer'[d])
    BY <1>1 DEF RInv, Shapes
  <2>3. \A d \in Controllers : WriterFits(writer[d])'
    BY <2>2 DEF WriterFits
  <2> QED BY <2>3 DEF RInv, Shapes
<1>4. ASSUME ~overlapped' PROVE InTurn'
  <2>1. InTurn
    BY <1>4 DEF RInv
  <2>2. OneCall'
    BY <1>1, <1>4, <2>1 DEF InTurn, OneCall
  <2>3. StateIsDone' /\ ReadersHold'
    <3>1. \A f : Content(f)' = Content(f) /\ Whole(f)' = Whole(f)
      BY DEF Content, Whole
    <3>2. StateIsDone'
      BY <2>1 DEF InTurn, StateIsDone, Content, Whole
    <3>3. ReadersHold'
      BY <2>1 DEF InTurn, ReadersHold, Content, Whole
    <3> QED BY <3>2, <3>3
  <2>4. \A d \in Controllers : CallFits(writer'[d])
    BY <1>1, <1>4, <2>1 DEF InTurn, CallsFit
  <2>5. CallsFit'
    BY <2>4 DEF CallsFit, CallFits
  <2> QED BY <2>2, <2>3, <2>5 DEF InTurn
<1> QED BY <1>2, <1>3, <1>4 DEF RInv

LEMMA EnterRInv ==
  ASSUME RInv, NEW c \in Controllers, Start(c) \/ Load(c)
  PROVE  RInv'
<1>1. /\ UNCHANGED <<name, half, log, page, done>>
      /\ overlapped' = (overlapped \/ \E d \in Controllers \ {c} : writer[d].at # "idle")
      /\ writer[c].at = "idle"
  BY DEF Start, Load, EnterCall
<1>2. overlapped' \in BOOLEAN /\ (overlapped => overlapped')
  BY <1>1 DEF RInv, TypeOK
<1>3. ~overlapped' => ~overlapped /\ \A d \in Controllers \ {c} : writer[d].at = "idle"
  BY <1>1
<1>4. CASE Start(c)
  <2> DEFINE w == [Idle EXCEPT !.at = "working"]
  <2>1. writer[c] = Idle /\ log = <<>> /\ writer' = [writer EXCEPT ![c].at = "working"]
    BY <1>1, <1>4 DEF RInv, Shapes, WriterFits, Start
  <2>2. writer' = [writer EXCEPT ![c] = w]
    BY <2>1
  <2>3. /\ w \in Writers /\ w.at = "working" /\ w.fd = NoFile /\ w.memory = {} /\ w.save = 0
    BY RunAssumption DEF Idle, Writers
  <2> HIDE DEF w
  <2>4. WriterFits(w)
    BY <2>1, <2>3 DEF WriterFits, Saving
  <2>5. done = {}
    BY <2>1 DEF RInv, TypeOK
  <2>6. CallFits(w)
    BY <2>3, <2>5 DEF CallFits, Saving
  <2> QED BY <1>1, <1>2, <1>3, <2>2, <2>3, <2>4, <2>6, WriterStep
<1>5. CASE Load(c)
  <2> DEFINE w == [Idle EXCEPT !.at = "reading", !.fd = name["state"]]
  <2>1. writer' = [writer EXCEPT ![c] = w] /\ name["state"] \in Files /\ name["state"] # NoFile
    BY <1>5, Counts DEF Load, RInv, TypeOK
  <2>2. w \in Writers /\ w.at = "reading" /\ w.fd = name["state"] /\ w.save = 0
    <3>1. Idle \in Writers /\ Idle.save = 0
      BY IdleFits DEF Idle
    <3> HIDE DEF Idle
    <3> QED BY <2>1, <3>1 DEF Writers
  <2> HIDE DEF w
  <2>3. WriterFits(w) /\ CallFits(w)
    BY <2>1, <2>2 DEF WriterFits, CallFits, Saving, RInv, TypeOK
  <2> QED BY <1>1, <1>2, <1>3, <2>1, <2>2, <2>3, WriterStep
<1> QED BY <1>4, <1>5

\* Without an overlap, whoever is in a call is alone.
LEMMA AloneInCall ==
  ASSUME RInv, ~overlapped, NEW c \in Controllers, writer[c].at # "idle"
  PROVE  \A d \in Controllers \ {c} : writer[d].at = "idle"
  BY DEF RInv, InTurn, OneCall

\* Return, a failed save, a crash and a failed rename put the controller to rest.
LEMMA LeaveRInv ==
  ASSUME RInv, NEW c \in Controllers, writer' = [writer EXCEPT ![c] = Idle],
         UNCHANGED <<name, half, log, page, done, overlapped>>
  PROVE  RInv'
<1>1. Idle \in Writers /\ Idle.at = "idle" /\ WriterFits(Idle) /\ CallFits(Idle)
  BY IdleFits DEF RInv
<1>2. overlapped' \in BOOLEAN
  BY DEF RInv, TypeOK
<1> HIDE DEF Idle
<1> QED BY <1>1, <1>2, WriterStep

LEMMA LoadedRInv ==
  ASSUME RInv, NEW c \in Controllers, Loaded(c)
  PROVE  RInv'
<1> DEFINE content == Content(writer[c].fd)
           w == [Idle EXCEPT !.at = "working", !.memory = content]
<1>1. CASE content = Unread
  BY <1>1, LeaveRInv DEF Loaded
<1>2. CASE content # Unread
  <2>1. writer[c] \in Writers /\ writer[c].at = "reading"
    BY DEF Loaded, Reading, RInv, TypeOK
  <2>2. content \in SUBSET Saves
    <3>1. writer[c].fd \in Files \cup {NoFile}
      BY <2>1 DEF Writers
    <3> QED BY <1>2, <3>1, ContentType DEF RInv
  <2>3. writer' = [writer EXCEPT ![c] = w] /\ UNCHANGED <<name, half, log, page, done, overlapped>>
    BY <1>2 DEF Loaded
  <2>4. ~overlapped => content = done
    BY <2>1 DEF RInv, InTurn, CallsFit, CallFits, StateIsDone
  <2> HIDE DEF content
  <2>5. w \in Writers /\ w.at = "working" /\ w.fd = NoFile /\ w.memory = content /\ w.save = 0
    <3>1. Idle \in Writers /\ Idle.save = 0 /\ Idle.fd = NoFile
      BY IdleFits DEF Idle
    <3> HIDE DEF Idle
    <3> QED BY <2>2, <3>1 DEF Writers
  <2> HIDE DEF w
  <2>6. WriterFits(w)
    BY <2>5 DEF WriterFits, Saving, RInv, TypeOK
  <2>7. ~overlapped => CallFits(w)
    BY <2>4, <2>5 DEF CallFits, Saving
  <2>8. overlapped' \in BOOLEAN
    BY <2>3 DEF RInv, TypeOK
  <2>9. ~overlapped => \A d \in Controllers \ {c} : writer[d].at = "idle"
    BY <2>1, AloneInCall
  <2> QED BY <2>3, <2>5, <2>6, <2>7, <2>8, <2>9, WriterStep
<1> QED BY <1>1, <1>2

\* A step of a save writes to a file that no reader has open and that is not the state.
LEMMA TargetApart ==
  ASSUME RInv, ~overlapped, NEW f \in Files,
         f = name["tmp"] \/ (f # name["state"] /\ \A m \in Moderators : page[m].fd # f)
  PROVE  f # name["state"] /\ \A m \in Moderators : Reading(page[m]) => page[m].fd # f
<1>1. f # NoFile
  BY Counts
<1> QED BY <1>1 DEF RInv, InTurn, StateIsDone, ReadersHold

\* What a step of a save leaves of the state file and of the files in readers' hands.
LEMMA OthersUntouched ==
  ASSUME RInv, ~overlapped, NEW f \in Files, f # name["state"],
         \A m \in Moderators : Reading(page[m]) => page[m].fd # f,
         \A g \in Files \ {f} : half'[g] = half[g],
         \A k \in 1 .. Len(log) : log'[k] = log[k],
         UNCHANGED <<page, done>>, name'["state"] = name["state"], name'["tmp"] = f
  PROVE  StateIsDone' /\ ReadersHold'
<1>1. InTurn /\ TypeOK /\ Shapes
  BY DEF RInv
<1>2. name["state"] \in Files \cup {NoFile}
  BY <1>1 DEF TypeOK
<1>3. StateIsDone'
  <2>1. CASE name["state"] = NoFile
    BY <1>1, <2>1 DEF InTurn, StateIsDone, Content
  <2>2. CASE name["state"] # NoFile
    <3>1. half'[name["state"]] = half[name["state"]] /\ name["state"] \in Files
      BY <1>2, <2>2
    <3>2. half[name["state"]][1] \in 1 .. Len(log)
      BY <1>1, <2>2, <3>1 DEF TypeOK, Shapes, InTurn, StateIsDone, Whole
    <3> QED BY <1>1, <2>2, <3>1, <3>2 DEF InTurn, StateIsDone, Content, Whole
  <2> QED BY <2>1, <2>2
<1>4. ReadersHold'
  <2> SUFFICES ASSUME NEW m \in Moderators, Reading(page[m])
               PROVE  Whole(page[m].fd)' /\ Content(page[m].fd)' # {} /\ page[m].fd # f
    BY DEF ReadersHold
  <2>1. page[m].fd \in Files \ {f}
    <3>1. page[m] \in Pages /\ page[m].fd # NoFile
      BY <1>1 DEF TypeOK, Shapes
    <3> QED BY <3>1 DEF Pages
  <2>2. half'[page[m].fd] = half[page[m].fd]
    BY <2>1
  <2>3. Whole(page[m].fd) /\ Content(page[m].fd) # {} /\ page[m].fd # NoFile
    BY <1>1 DEF InTurn, ReadersHold, Shapes
  <2>4. half[page[m].fd][1] \in 1 .. Len(log)
    BY <1>1, <2>1, <2>3 DEF TypeOK, Shapes, Whole
  <2> QED BY <2>1, <2>2, <2>3, <2>4 DEF Whole, Content
<1> QED BY <1>3, <1>4

\* A call that is alone stays alone, and its neighbours fit whatever it does.
LEMMA CallAfter ==
  ASSUME RInv, ~overlapped, NEW c \in Controllers, writer[c].at # "idle",
         \A d \in Controllers \ {c} : writer'[d] = writer[d], CallFits(writer[c])'
  PROVE  OneCall' /\ CallsFit'
<1>1. \A d \in Controllers \ {c} : writer[d].at = "idle"
  BY AloneInCall
<1>2. OneCall'
  BY <1>1 DEF OneCall
<1>3. CallsFit'
  <2> SUFFICES ASSUME NEW d \in Controllers PROVE CallFits(writer[d])'
    BY DEF CallsFit
  <2>1. CASE d = c
    BY <2>1
  <2>2. CASE d # c
    BY <1>1, <2>2 DEF CallFits, Saving
  <2> QED BY <2>1, <2>2
<1> QED BY <1>2, <1>3

LEMMA OpenRInv ==
  ASSUME RInv, NEW c \in Controllers, OpenTemporary(c)
  PROVE  RInv'
<1> DEFINE f == IF name["tmp"] = NoFile THEN Unused ELSE name["tmp"]
           s == Len(log) + 1
           memory == writer[c].memory \cup {s}
           w == [at |-> "opened", fd |-> f, memory |-> memory, save |-> s]
<1>1. /\ writer[c].at = "working" /\ s <= MaxSaves
      /\ log' = Append(log, memory) /\ name' = [name EXCEPT !["tmp"] = f]
      /\ half' = [half EXCEPT ![f] = <<0, 0>>] /\ writer' = [writer EXCEPT ![c] = w]
      /\ UNCHANGED <<page, done, overlapped>>
  BY DEF OpenTemporary
<1>2. writer[c] \in Writers /\ writer[c].fd = NoFile
  BY <1>1 DEF RInv, TypeOK, Shapes, WriterFits
<1>3. /\ f \in Files
      /\ f = name["tmp"] \/ (f # name["state"] /\ \A m \in Moderators : page[m].fd # f)
  <2>1. name["tmp"] \in Files \cup {NoFile}
    BY DEF RInv, TypeOK
  <2> QED BY <1>2, <2>1, UnusedIsFree DEF RInv
<1>4. s \in Saves /\ memory \in SUBSET Saves
  BY <1>1, <1>2 DEF Saves, Writers, RInv, TypeOK
<1> HIDE DEF f, memory
<1>5. /\ log' \in Seq(SUBSET Saves) /\ Len(log') = s /\ log'[s] = memory
      /\ \A k \in 1 .. Len(log) : log'[k] = log[k]
  <2>1. log \in Seq(SUBSET Saves)
    BY DEF RInv, TypeOK
  <2> QED BY <1>1, <1>4, <2>1
<1>6. w \in Writers /\ w.at = "opened" /\ w.fd = f /\ w.memory = memory /\ w.save = s
  BY <1>3, <1>4, RunAssumption DEF Writers, Saves
<1> HIDE DEF w
<1>7. /\ writer' \in [Controllers -> Writers] /\ writer'[c] = w
      /\ \A d \in Controllers \ {c} : writer'[d] = writer[d]
  BY <1>1, <1>6, SetWriter DEF RInv, TypeOK
<1>8. /\ half' \in [Files -> (0 .. MaxSaves) \X (0 .. MaxSaves)]
      /\ half'[f] = <<0, 0>> /\ \A g \in Files \ {f} : half'[g] = half[g]
  BY <1>1, <1>3, RunAssumption DEF RInv, TypeOK
<1>9. /\ name' \in [{"state", "tmp"} -> Files \cup {NoFile}]
      /\ name'["tmp"] = f /\ name'["state"] = name["state"]
  BY <1>1, <1>3 DEF RInv, TypeOK
<1>10. TypeOK'
  BY <1>1, <1>4, <1>5, <1>7, <1>8, <1>9 DEF RInv, TypeOK, Saves
<1>11. Shapes'
  <2>1. \A d \in Controllers : WriterFits(writer[d])'
    <3>1. WriterFits(writer[c])'
      BY <1>3, <1>5, <1>6, <1>7, Counts DEF WriterFits, Saving, RInv, TypeOK
    <3>2. \A d \in Controllers \ {c} : WriterFits(writer[d])'
      <4> SUFFICES ASSUME NEW d \in Controllers \ {c} PROVE WriterFits(writer[d])'
        OBVIOUS
      <4>1. WriterFits(writer[d]) /\ writer[d] \in Writers /\ Len(log) \in Nat
        BY DEF RInv, Shapes, TypeOK
      <4>2. writer[d].save \in Nat
        BY <4>1, RunAssumption DEF Writers
      <4> QED BY <1>5, <1>7, <4>1, <4>2 DEF WriterFits
    <3> QED BY <3>1, <3>2
  <2>2. \A g \in Files : half'[g][1] <= Len(log') /\ half'[g][2] <= Len(log')
    <3>1. Len(log) \in Nat /\ \A g \in Files : /\ half[g][1] \in Nat /\ half[g][2] \in Nat
                                               /\ half[g][1] <= Len(log) /\ half[g][2] <= Len(log)
      BY RunAssumption DEF RInv, Shapes, TypeOK
    <3> QED BY <1>5, <1>8, <3>1
  <2>3. \A m \in Moderators : Reading(page'[m]) <=> page'[m].fd # NoFile
    BY <1>1 DEF RInv, Shapes
  <2> QED BY <2>1, <2>2, <2>3 DEF Shapes
<1>12. ASSUME ~overlapped' PROVE InTurn'
  <2>1. ~overlapped
    BY <1>1, <1>12
  <2>2. f # name["state"] /\ \A m \in Moderators : Reading(page[m]) => page[m].fd # f
    BY <1>3, <2>1, TargetApart
  <2>3. StateIsDone' /\ ReadersHold'
    BY <1>1, <1>3, <1>5, <1>8, <1>9, <2>1, <2>2, OthersUntouched
  <2>4. writer[c].memory = done /\ s \notin done
    BY <1>1, <2>1 DEF RInv, InTurn, CallsFit, CallFits, TypeOK
  <2>5. CallFits(writer[c])'
    <3>1. f # NoFile
      BY <1>3, Counts
    <3>2. memory = done \cup {s}
      BY <2>4 DEF memory
    <3> QED BY <1>1, <1>5, <1>6, <1>7, <1>9, <2>4, <3>1, <3>2 DEF CallFits, Saving
  <2>6. OneCall' /\ CallsFit'
    BY <1>1, <1>7, <2>1, <2>5, CallAfter
  <2> QED BY <2>3, <2>6 DEF InTurn
<1> QED BY <1>10, <1>11, <1>12 DEF RInv

LEMMA WriteRInv ==
  ASSUME RInv, NEW c \in Controllers, Write(c)
  PROVE  RInv'
<1> DEFINE piece == IF writer[c].at = "opened" THEN 1 ELSE 2
           f == writer[c].fd
           s == writer[c].save
           h == [half[f] EXCEPT ![piece] = s]
           w == [writer[c] EXCEPT !.at = IF piece = 1 THEN "half" ELSE "written",
                                  !.fd = IF piece = 1 THEN @ ELSE NoFile]
<1>1. /\ writer[c].at \in {"opened", "half"}
      /\ half' = [half EXCEPT ![f] = h] /\ writer' = [writer EXCEPT ![c] = w]
      /\ UNCHANGED <<name, log, page, done, overlapped>>
  BY DEF Write
<1>2. writer[c] \in Writers /\ f \in Files /\ s \in 1 .. MaxSaves /\ s <= Len(log)
  <2>1. writer[c] \in Writers /\ WriterFits(writer[c])
    BY DEF RInv, TypeOK, Shapes
  <2> QED BY <1>1, <2>1, RunAssumption DEF WriterFits, Writers, Saving
<1>3. /\ half[f] \in (0 .. MaxSaves) \X (0 .. MaxSaves)
      /\ half[f][1] <= Len(log) /\ half[f][2] <= Len(log)
  BY <1>2 DEF RInv, TypeOK, Shapes
<1>4. /\ h \in (0 .. MaxSaves) \X (0 .. MaxSaves)
      /\ piece = 1 => h[1] = s /\ h[2] = half[f][2]
      /\ piece = 2 => h[1] = half[f][1] /\ h[2] = s
  BY <1>2, <1>3
<1>5. /\ w \in Writers /\ w.memory = writer[c].memory /\ w.save = s
      /\ writer[c].at = "opened" => w.at = "half" /\ w.fd = f
      /\ writer[c].at = "half" => w.at = "written" /\ w.fd = NoFile
  <2> DEFINE at == IF piece = 1 THEN "half" ELSE "written"
             fd == IF piece = 1 THEN f ELSE NoFile
  <2>1. w = [writer[c] EXCEPT !.at = at, !.fd = fd]
    OBVIOUS
  <2>2. /\ at \in {"half", "written"} /\ fd \in Files \cup {NoFile}
        /\ writer[c].at = "opened" => at = "half" /\ fd = f
        /\ writer[c].at = "half" => at = "written" /\ fd = NoFile
    BY <1>2
  <2>3. at \in {"idle", "reading", "working", "opened", "half", "written"}
    BY <2>2
  <2> HIDE DEF at, fd
  <2> DEFINE r == writer[c]
  <2>4. r \in Writers /\ w = [r EXCEPT !.at = at, !.fd = fd]
    BY <1>2, <2>1
  <2> HIDE DEF w, r
  <2>5. w \in Writers /\ w.at = at /\ w.fd = fd /\ w.memory = r.memory /\ w.save = r.save
    BY <2>2, <2>3, <2>4 DEF Writers
  <2> QED BY <2>2, <2>5 DEF r
<1>6. piece = IF writer[c].at = "opened" THEN 1 ELSE 2
  OBVIOUS
<1> HIDE DEF w, h, piece
<1>7. /\ writer' \in [Controllers -> Writers] /\ writer'[c] = w
      /\ \A d \in Controllers \ {c} : writer'[d] = writer[d]
  BY <1>1, <1>5, SetWriter DEF RInv, TypeOK
<1>8. /\ half' \in [Files -> (0 .. MaxSaves) \X (0 .. MaxSaves)]
      /\ half'[f] = h /\ \A g \in Files \ {f} : half'[g] = half[g]
  BY <1>1, <1>2, <1>4 DEF RInv, TypeOK
<1>9. TypeOK'
  BY <1>1, <1>7, <1>8 DEF RInv, TypeOK
<1>10. Shapes'
  <2>1. \A d \in Controllers : WriterFits(writer[d])'
    <3>1. WriterFits(writer[c])'
      BY <1>1, <1>2, <1>5, <1>7, Counts DEF WriterFits, Saving
    <3>2. \A d \in Controllers \ {c} : WriterFits(writer[d])'
      BY <1>1, <1>7 DEF WriterFits, RInv, Shapes
    <3> QED BY <3>1, <3>2
  <2>2. \A g \in Files : half'[g][1] <= Len(log') /\ half'[g][2] <= Len(log')
    <3>1. \A g \in Files : half[g][1] <= Len(log) /\ half[g][2] <= Len(log)
      BY DEF RInv, Shapes
    <3>2. h[1] <= Len(log) /\ h[2] <= Len(log)
      BY <1>2, <1>3, <1>4, <1>6
    <3> QED BY <1>1, <1>8, <3>1, <3>2
  <2>3. \A m \in Moderators : Reading(page'[m]) <=> page'[m].fd # NoFile
    BY <1>1 DEF RInv, Shapes
  <2> QED BY <2>1, <2>2, <2>3 DEF Shapes
<1>11. ASSUME ~overlapped' PROVE InTurn'
  <2>1. ~overlapped /\ CallFits(writer[c])
    BY <1>1, <1>11 DEF RInv, InTurn, CallsFit
  <2>2. f = name["tmp"]
    BY <1>1, <2>1 DEF CallFits
  <2>3. f # name["state"] /\ \A m \in Moderators : Reading(page[m]) => page[m].fd # f
    BY <1>2, <2>1, <2>2, TargetApart
  <2>4. StateIsDone' /\ ReadersHold'
    BY <1>1, <1>2, <1>8, <2>1, <2>2, <2>3, OthersUntouched
  <2>5. CallFits(writer[c])'
    BY <1>1, <1>4, <1>5, <1>6, <1>7, <1>8, <2>1, <2>2 DEF CallFits, Saving
  <2>6. OneCall' /\ CallsFit'
    BY <1>1, <1>7, <2>1, <2>5, CallAfter
  <2> QED BY <2>4, <2>6 DEF InTurn
<1> QED BY <1>9, <1>10, <1>11 DEF RInv

\* The rename makes the save the state: it holds what was done, and itself.
LEMMA ReplaceRInv ==
  ASSUME RInv, NEW c \in Controllers, Replace(c)
  PROVE  RInv'
<1>1. CASE name["tmp"] = NoFile
  BY <1>1, LeaveRInv DEF Replace
<1>2. CASE name["tmp"] # NoFile
  <2> DEFINE s == writer[c].save
             w == [writer[c] EXCEPT !.at = "working", !.save = 0]
  <2>1. /\ writer[c].at = "written" /\ name' = [state |-> name["tmp"], tmp |-> NoFile]
        /\ done' = done \cup {s} /\ writer' = [writer EXCEPT ![c] = w]
        /\ UNCHANGED <<half, log, page, overlapped>>
    BY <1>2 DEF Replace
  <2>2. writer[c] \in Writers /\ writer[c].fd = NoFile /\ s \in 1 .. Len(log)
    <3>1. writer[c] \in Writers /\ WriterFits(writer[c]) /\ Len(log) \in Nat
      BY DEF RInv, TypeOK, Shapes
    <3> QED BY <2>1, <3>1, RunAssumption DEF WriterFits, Writers, Saving
  <2>3. w \in Writers /\ w.at = "working" /\ w.fd = NoFile /\ w.memory = writer[c].memory /\ w.save = 0
    <3>1. 0 \in 0 .. MaxSaves
      BY RunAssumption
    <3>2. w = [writer[c] EXCEPT !.at = "working", !.save = 0]
      OBVIOUS
    <3> DEFINE r == writer[c]
    <3>3. r \in Writers /\ w = [r EXCEPT !.at = "working", !.save = 0]
      BY <2>2, <3>2
    <3> HIDE DEF w, r
    <3>4. w \in Writers /\ w.at = "working" /\ w.fd = r.fd /\ w.memory = r.memory /\ w.save = 0
      BY <3>1, <3>3 DEF Writers
    <3> QED BY <2>2, <3>4 DEF r
  <2> HIDE DEF w
  <2>4. /\ writer' \in [Controllers -> Writers] /\ writer'[c] = w
        /\ \A d \in Controllers \ {c} : writer'[d] = writer[d]
    BY <2>1, <2>3, SetWriter DEF RInv, TypeOK
  <2>5. /\ name' \in [{"state", "tmp"} -> Files \cup {NoFile}]
        /\ name'["state"] = name["tmp"] /\ name'["tmp"] = NoFile
    BY <2>1 DEF RInv, TypeOK
  <2>6. TypeOK'
    BY <2>1, <2>2, <2>4, <2>5 DEF RInv, TypeOK
  <2>7. Shapes'
    <3>1. WriterFits(writer[c])'
      BY <2>1, <2>3, <2>4 DEF WriterFits, Saving, RInv, TypeOK
    <3>2. \A d \in Controllers \ {c} : WriterFits(writer[d])'
      BY <2>1, <2>4 DEF WriterFits, RInv, Shapes
    <3> QED BY <2>1, <3>1, <3>2 DEF RInv, Shapes
  <2>8. ASSUME ~overlapped' PROVE InTurn'
    <3>1. ~overlapped /\ InTurn /\ CallFits(writer[c])
      BY <2>1, <2>8 DEF RInv, InTurn, CallsFit
    <3>2. /\ writer[c].memory = done' /\ log[s] = done'
          /\ half[name["tmp"]][1] = s /\ half[name["tmp"]][2] = s /\ s # 0
      BY <2>1, <2>2, <3>1 DEF CallFits, Saving
    <3>3. StateIsDone'
      BY <1>2, <2>1, <2>5, <3>2 DEF StateIsDone, Content, Whole
    <3>4. CallFits(writer[c])'
      BY <2>3, <2>4, <3>2 DEF CallFits, Saving
    <3>5. OneCall' /\ CallsFit'
      BY <2>1, <2>4, <3>1, <3>4, CallAfter
    <3>6. ReadersHold'
      BY <2>1, <2>5, <3>1 DEF InTurn, ReadersHold, RInv, Shapes, Whole, Content
    <3> QED BY <3>3, <3>5, <3>6 DEF InTurn
  <2> QED BY <2>6, <2>7, <2>8 DEF RInv
<1> QED BY <1>1, <1>2

-------------------------------------------------------------------------------
(* Moderators.                                                               *)

LEMMA PageStep ==
  ASSUME RInv, NEW m \in Moderators, NEW p \in Pages, page' = [page EXCEPT ![m] = p],
         UNCHANGED <<name, half, log, writer, done, overlapped>>,
         Reading(p) <=> p.fd # NoFile, Reading(p) => p.offset # End,
         Reading(p) => p.fd = name["state"]
  PROVE  RInv'
<1>1. /\ page' \in [Moderators -> Pages] /\ page'[m] = p
      /\ \A o \in Moderators \ {m} : page'[o] = page[o]
  <2> HIDE DEF Pages
  <2> QED BY SetPage DEF RInv, TypeOK
<1>2. TypeOK'
  BY <1>1 DEF RInv, TypeOK
<1>3. Shapes'
  BY <1>1 DEF RInv, Shapes, WriterFits
<1>4. ASSUME ~overlapped' PROVE InTurn'
  <2>1. InTurn
    BY <1>4 DEF RInv
  <2>2. OneCall' /\ StateIsDone' /\ CallsFit'
    BY <2>1 DEF InTurn, OneCall, StateIsDone, CallsFit, CallFits, Content, Whole
  <2>3. ReadersHold'
    <3> SUFFICES ASSUME NEW o \in Moderators, Reading(page'[o])
                 PROVE  /\ Whole(page'[o].fd) /\ Content(page'[o].fd) # {}
                        /\ page'[o].fd # name["tmp"]
      BY DEF ReadersHold, Whole, Content
    <3>1. CASE o # m
      BY <1>1, <2>1, <3>1 DEF InTurn, ReadersHold
    <3>2. CASE o = m
      BY <1>1, <2>1, <3>2 DEF InTurn, StateIsDone
    <3> QED BY <3>1, <3>2
  <2> QED BY <2>2, <2>3 DEF InTurn
<1> QED BY <1>2, <1>3, <1>4 DEF RInv

LEMMA AskForRInv ==
  ASSUME RInv, NEW m \in Moderators, NEW offset \in Int, NEW limit \in Int, AskFor(m, offset, limit)
  PROVE  RInv'
<1> DEFINE p == [page[m] EXCEPT !.at = "reading", !.fd = name["state"], !.limit = ClampedLimit(limit),
                                !.offset = ClampedOffset(offset)]
<1>1. /\ page' = [page EXCEPT ![m] = p] /\ name["state"] # NoFile
      /\ UNCHANGED <<name, half, log, writer, done, overlapped>>
  BY DEF AskFor
<1>2. page[m] \in Pages /\ name["state"] \in Files \cup {NoFile}
  BY DEF RInv, TypeOK
<1>3. ClampedLimit(limit) \in Int /\ ClampedOffset(offset) \in Nat /\ ClampedOffset(offset) # End
  BY DEF ClampedLimit, ClampedOffset, MaxPage, End
<1>4. p \in Pages /\ p.at = "reading" /\ p.fd = name["state"] /\ p.offset # End
  BY <1>2, <1>3 DEF Pages
<1> HIDE DEF p
<1> QED BY <1>1, <1>4, PageStep DEF Reading

LEMMA CollectRInv ==
  ASSUME RInv, NEW m \in Moderators, Collect(m)
  PROVE  RInv'
<1> DEFINE p == page[m]
           content == Content(p.fd)
           slice == Slice(p.offset, p.limit)
           next == NextOffset(p.offset, p.limit)
<1>1. /\ Reading(p) /\ UNCHANGED <<name, half, log, writer, done, overlapped>>
      /\ p \in Pages /\ p.offset # End
  BY DEF Collect, RInv, TypeOK
<1>2. p.fd \in Files \cup {NoFile} /\ p.offset \in Nat /\ p.limit \in Int /\ p.shown \in Seq(Range(Roster))
  BY <1>1 DEF Pages
<1>3. CASE content = Unread
  <2> DEFINE q == [p EXCEPT !.at = "idle", !.fd = NoFile]
  <2>1. page' = [page EXCEPT ![m] = q]
    BY <1>3 DEF Collect
  <2>2. q \in Pages /\ q.at = "idle" /\ q.fd = NoFile
    BY <1>1 DEF Pages
  <2> HIDE DEF q
  <2> QED BY <1>1, <2>1, <2>2, PageStep DEF Reading
<1>4. CASE content # Unread
  <2> DEFINE q == [p EXCEPT !.at = "idle", !.fd = NoFile, !.got = content,
                            !.shown = @ \o slice, !.offset = next]
  <2>1. page' = [page EXCEPT ![m] = q]
    BY <1>4 DEF Collect
  <2>2. content \in (SUBSET Saves) \cup {Unread}
    BY <1>2, ContentType DEF RInv
  <2>3. slice \in Seq(Range(Roster))
    BY <1>2, RosterAssumption DEF Slice
  <2>4. next \in Nat \cup {End}
    BY <1>2, <2>3 DEF NextOffset
  <2>5. p.shown \o slice \in Seq(Range(Roster))
    BY <1>2, <2>3
  <2> HIDE DEF content, slice, next
  <2>6. q \in Pages /\ q.at = "idle" /\ q.fd = NoFile
    BY <1>1, <2>2, <2>4, <2>5 DEF Pages
  <2> HIDE DEF q
  <2> QED BY <1>1, <2>1, <2>6, PageStep DEF Reading
<1> QED BY <1>3, <1>4

LEMMA StepRInv == RInv /\ [Next]_vars => RInv'
<1> SUFFICES ASSUME RInv, [Next]_vars PROVE RInv'
  OBVIOUS
<1>1. ASSUME NEW c \in Controllers, Start(c) \/ Load(c) \/ Loaded(c) PROVE RInv'
  BY <1>1, EnterRInv, LoadedRInv
<1>2. ASSUME NEW c \in Controllers, OpenTemporary(c) \/ Write(c) \/ Replace(c) PROVE RInv'
  BY <1>2, OpenRInv, WriteRInv, ReplaceRInv
<1>3. ASSUME NEW c \in Controllers, SaveFails(c) \/ Return(c) \/ Crash(c) PROVE RInv'
  BY <1>3, LeaveRInv DEF SaveFails, Return, Crash
<1>4. ASSUME NEW m \in Moderators, FirstPage(m) PROVE RInv'
  BY <1>4, AskForRInv, RunAssumption DEF FirstPage
<1>5. ASSUME NEW m \in Moderators, NextPage(m) PROVE RInv'
  <2>1. page[m].offset \in Int
    BY DEF RInv, TypeOK, Pages, End
  <2> QED BY <1>5, <2>1, AskForRInv, RunAssumption DEF NextPage
<1>6. ASSUME NEW m \in Moderators, Collect(m) PROVE RInv'
  BY <1>6, CollectRInv
<1>7. CASE UNCHANGED vars
  BY <1>7 DEF vars, RInv, TypeOK, Shapes, WriterFits, InTurn, OneCall, StateIsDone, CallsFit, CallFits,
    ReadersHold, Whole, Content
<1> QED BY <1>1, <1>2, <1>3, <1>4, <1>5, <1>6, <1>7 DEF Next

LEMMA RInductive == Spec => []RInv
<1>1. Init => RInv
  BY InitRInv
<1>2. RInv /\ [Next]_vars => RInv'
  BY StepRInv
<1> QED BY <1>1, <1>2, PTL DEF Spec

-------------------------------------------------------------------------------
\* Types of names, files, calls and pages, also while calls overlap.
THEOREM RunTypes == Spec => []TypeOK
<1>1. RInv => TypeOK
  BY DEF RInv
<1> QED BY <1>1, RInductive, PTL

\* As long as calls take turns no completed save is lost, whatever saves fail and
\* whichever processes die.
THEOREM NothingIsLost == Spec => []SerialLosesNothing
<1>1. RInv => SerialLosesNothing
  BY DEF RInv, InTurn, StateIsDone, SerialLosesNothing
<1> QED BY <1>1, RInductive, PTL
-------------------------------------------------------------------------------
(* The files implement SharedFile.                                           *)

\* A step that writes to a file which is neither the state nor in a reader's hands is
\* not seen.
LEMMA Unseen ==
  ASSUME RInv, ~overlapped, NEW f \in Files, f # name["state"],
         \A m \in Moderators : Reading(page[m]) => page[m].fd # f,
         \A g \in Files \ {f} : half'[g] = half[g],
         \A k \in 1 .. Len(log) : log'[k] = log[k],
         page' = page, name'["state"] = name["state"]
  PROVE  Content(name["state"])' = Content(name["state"]) /\ Seen' = Seen
<1>1. InTurn /\ TypeOK /\ Shapes
  BY DEF RInv
<1>2. ASSUME NEW g \in Files, g # f, Whole(g)
      PROVE  Content(g)' = Content(g)
  <2>1. half'[g] = half[g] /\ half[g][1] \in 1 .. Len(log)
    BY <1>1, <1>2 DEF TypeOK, Shapes, Whole
  <2> QED BY <2>1 DEF Content
<1>3. Content(name["state"])' = Content(name["state"])
  <2>1. CASE name["state"] = NoFile
    BY <2>1 DEF Content
  <2>2. CASE name["state"] # NoFile
    <3>1. name["state"] \in Files /\ Whole(name["state"])
      BY <1>1, <2>2 DEF TypeOK, InTurn, StateIsDone
    <3>2. half'[name["state"]] = half[name["state"]] /\ half[name["state"]][1] \in 1 .. Len(log)
      BY <1>1, <3>1 DEF TypeOK, Shapes, Whole
    <3> QED BY <3>2 DEF Content
  <2> QED BY <2>1, <2>2
<1>4. Seen' = Seen
  <2>1. ASSUME NEW m \in Moderators, Reading(page[m])
        PROVE  Content(page[m].fd)' = Content(page[m].fd)
    <3>1. page[m].fd \in Files /\ Whole(page[m].fd) /\ page[m].fd # f
      <4>1. page[m] \in Pages /\ page[m].fd # NoFile
        BY <1>1, <2>1 DEF TypeOK, Shapes
      <4> QED BY <1>1, <2>1, <4>1 DEF Pages, InTurn, ReadersHold
    <3>2. half'[page[m].fd] = half[page[m].fd] /\ half[page[m].fd][1] \in 1 .. Len(log)
      BY <1>1, <3>1 DEF TypeOK, Shapes, Whole
    <3> QED BY <3>2 DEF Content
  <2> QED BY <2>1 DEF Seen
<1> QED BY <1>3, <1>4

\* So is one that touches no file and no page.
LEMMA Elsewhere ==
  ASSUME UNCHANGED <<name, half, log, page>>
  PROVE  Content(name["state"])' = Content(name["state"]) /\ Seen' = Seen
  BY DEF Content, Seen, Reading

LEMMA SaveUnseen ==
  ASSUME RInv, ~overlapped, NEW c \in Controllers, OpenTemporary(c) \/ Write(c)
  PROVE  Content(name["state"])' = Content(name["state"]) /\ Seen' = Seen
<1>1. CASE OpenTemporary(c)
  <2> DEFINE f == IF name["tmp"] = NoFile THEN Unused ELSE name["tmp"]
  <2>1. /\ writer[c].at = "working" /\ half' = [half EXCEPT ![f] = <<0, 0>>] /\ page' = page
        /\ name' = [name EXCEPT !["tmp"] = f] /\ log' = Append(log, writer[c].memory \cup {Len(log) + 1})
    BY <1>1 DEF OpenTemporary
  <2>2. writer[c].fd = NoFile
    BY <2>1 DEF RInv, Shapes, WriterFits
  <2>3. /\ f \in Files
        /\ f = name["tmp"] \/ (f # name["state"] /\ \A m \in Moderators : page[m].fd # f)
    <3>1. name["tmp"] \in Files \cup {NoFile}
      BY DEF RInv, TypeOK
    <3> QED BY <2>2, <3>1, UnusedIsFree DEF RInv
  <2> HIDE DEF f
  <2>4. f # name["state"] /\ \A m \in Moderators : Reading(page[m]) => page[m].fd # f
    BY <2>3, TargetApart
  <2>5. /\ \A g \in Files \ {f} : half'[g] = half[g]
        /\ \A k \in 1 .. Len(log) : log'[k] = log[k]
        /\ name'["state"] = name["state"]
    BY <2>1 DEF RInv, TypeOK
  <2> QED BY <2>1, <2>3, <2>4, <2>5, Unseen
<1>2. CASE Write(c)
  <2> DEFINE f == writer[c].fd
  <2>1. /\ writer[c].at \in {"opened", "half"} /\ UNCHANGED <<name, log, page>>
        /\ \A g \in Files \ {f} : half'[g] = half[g]
    BY <1>2 DEF Write, RInv, TypeOK
  <2>2. f \in Files /\ f = name["tmp"]
    <3>1. writer[c] \in Writers /\ WriterFits(writer[c]) /\ CallFits(writer[c])
      BY DEF RInv, TypeOK, Shapes, InTurn, CallsFit
    <3> QED BY <2>1, <3>1 DEF WriterFits, Writers, CallFits
  <2> HIDE DEF f
  <2>3. f # name["state"] /\ \A m \in Moderators : Reading(page[m]) => page[m].fd # f
    BY <2>2, TargetApart
  <2> QED BY <2>1, <2>2, <2>3, Unseen
<1> QED BY <1>1, <1>2

\* The rename publishes the save, or fails and changes nothing that is seen.
LEMMA ReplacePublishes ==
  ASSUME RInv, RInv', ~overlapped, NEW c \in Controllers, Replace(c)
  PROVE  ImplementsSharedFile!Publish \/ UNCHANGED ImplementsSharedFile!vars
<1>1. CASE name["tmp"] = NoFile
  BY <1>1, Elsewhere DEF Replace, ImplementsSharedFile!vars
<1>2. CASE name["tmp"] # NoFile
  <2>1. /\ done' = done \cup {writer[c].save} /\ writer[c].at = "written"
        /\ UNCHANGED <<half, log, page, overlapped>>
    BY <1>2 DEF Replace
  <2>2. writer[c].save \notin done
    BY <2>1 DEF RInv, InTurn, CallsFit, CallFits, Saving
  <2>3. Content(name["state"]) = done /\ Content(name["state"])' = done'
    BY <2>1 DEF RInv, InTurn, StateIsDone
  <2>4. Seen' = Seen
    BY <2>1 DEF Seen, Content, Reading
  <2> QED BY <2>1, <2>2, <2>3, <2>4 DEF ImplementsSharedFile!Publish
<1> QED BY <1>1, <1>2

\* A moderator that opens the file looks at it.
LEMMA AskForLooks ==
  ASSUME RInv, ~overlapped, NEW m \in Moderators, NEW offset, NEW limit, AskFor(m, offset, limit)
  PROVE  ImplementsSharedFile!Look(m)
<1>1. /\ name["state"] # NoFile /\ UNCHANGED <<name, half, log, overlapped>>
      /\ \A o \in Moderators \ {m} : page'[o] = page[o]
      /\ page'[m].at = "reading" /\ page'[m].fd = name["state"]
  <2> DEFINE p == [page[m] EXCEPT !.at = "reading", !.fd = name["state"], !.limit = ClampedLimit(limit),
                                  !.offset = ClampedOffset(offset)]
  <2>1. page' = [page EXCEPT ![m] = p] /\ page \in [Moderators -> Pages]
    BY DEF AskFor, RInv, TypeOK
  <2>2. page[m] \in Pages
    BY <2>1
  <2>3. p.at = "reading" /\ p.fd = name["state"]
    BY <2>2 DEF Pages
  <2> HIDE DEF p
  <2> QED BY <2>1, <2>3 DEF AskFor
<1>2. Content(name["state"]) # {}
  BY <1>1 DEF RInv, InTurn, StateIsDone
<1>3. Content(name["state"])' = Content(name["state"])
  BY <1>1 DEF Content
<1>4. Seen' = [Seen EXCEPT ![m] = Content(name["state"])]
  <2>1. \A o \in Moderators : Seen'[o] = [Seen EXCEPT ![m] = Content(name["state"])][o]
    <3>1. Seen'[m] = Content(name["state"])
      BY <1>1 DEF Seen, Reading, Content
    <3>2. \A o \in Moderators \ {m} : Seen'[o] = Seen[o]
      BY <1>1 DEF Seen, Reading, Content
    <3>3. m \in DOMAIN Seen
      BY DEF Seen
    <3> QED BY <3>1, <3>2, <3>3
  <2>2. Seen = [o \in Moderators |-> Seen[o]] /\ Seen' = [o \in Moderators |-> Seen'[o]]
    BY DEF Seen
  <2> QED BY <2>1, <2>2
<1> QED BY <1>1, <1>2, <1>3, <1>4 DEF ImplementsSharedFile!Look

\* What it then gets is what it looked at.
LEMMA CollectUnseen ==
  ASSUME RInv, ~overlapped, NEW m \in Moderators, Collect(m)
  PROVE  Content(name["state"])' = Content(name["state"]) /\ Seen' = Seen
<1>1. Reading(page[m]) /\ UNCHANGED <<name, half, log>>
  BY DEF Collect
<1>2. Content(page[m].fd) # Unread
  <2>1. page[m].fd \in Files
    <3>1. page[m] \in Pages /\ page[m].fd # NoFile
      BY <1>1 DEF RInv, TypeOK, Shapes
    <3> QED BY <3>1 DEF Pages
  <2>2. half[page[m].fd][1] \in 1 .. Len(log) /\ Content(page[m].fd) = log[half[page[m].fd][1]]
    <3>1. Whole(page[m].fd) /\ page[m].fd # NoFile
      BY <1>1, <2>1, Counts DEF RInv, InTurn, ReadersHold
    <3> QED BY <2>1, <3>1 DEF RInv, TypeOK, Shapes, Whole, Content
  <2>3. Content(page[m].fd) \subseteq Saves
    BY <2>2 DEF RInv, TypeOK
  <2> QED BY <2>3, RunAssumption DEF Unread, Saves
<1>3. /\ \A o \in Moderators \ {m} : page'[o] = page[o]
      /\ page'[m].at = "idle" /\ page'[m].got = Content(page[m].fd)
  <2> DEFINE p == [page[m] EXCEPT !.at = "idle", !.fd = NoFile, !.got = Content(page[m].fd),
                         !.shown = @ \o Slice(page[m].offset, page[m].limit),
                         !.offset = NextOffset(page[m].offset, page[m].limit)]
  <2>1. page' = [page EXCEPT ![m] = p] /\ page \in [Moderators -> Pages]
    BY <1>2 DEF Collect, RInv, TypeOK
  <2>2. page[m] \in Pages
    BY <2>1
  <2>3. p.at = "idle" /\ p.got = Content(page[m].fd)
    BY <2>2 DEF Pages
  <2> HIDE DEF p
  <2> QED BY <2>1, <2>3
<1>4. \A f : Content(f)' = Content(f)
  BY <1>1 DEF Content
<1>5. Content(name["state"])' = Content(name["state"])
  BY <1>1 DEF Content
<1>6. Seen' = Seen
  BY <1>1, <1>3 DEF Seen, Reading, Content
<1> QED BY <1>5, <1>6

LEMMA StepImplements ==
  ASSUME RInv, RInv', [Next]_vars
  PROVE  [ImplementsSharedFile!Next]_(ImplementsSharedFile!vars)
<1>1. CASE overlapped'
  BY <1>1 DEF ImplementsSharedFile!Next, ImplementsSharedFile!Overlap
<1>2. CASE ~overlapped'
  <2>1. ~overlapped /\ overlapped' = overlapped
    BY <1>2 DEF Next, vars, Start, Load, EnterCall, Loaded, OpenTemporary, Write, Replace, SaveFails,
      Return, Crash, FirstPage, NextPage, AskFor, Collect, RInv, TypeOK
  <2>2. ASSUME NEW c \in Controllers,
               Start(c) \/ Load(c) \/ Loaded(c) \/ SaveFails(c) \/ Return(c) \/ Crash(c)
        PROVE  UNCHANGED ImplementsSharedFile!vars
    <3>1. UNCHANGED <<name, half, log, page>>
      BY <2>2 DEF Start, Load, Loaded, SaveFails, Return, Crash
    <3> QED BY <2>1, <3>1, Elsewhere DEF ImplementsSharedFile!vars
  <2>3. ASSUME NEW c \in Controllers, OpenTemporary(c) \/ Write(c)
        PROVE  UNCHANGED ImplementsSharedFile!vars
    BY <2>1, <2>3, SaveUnseen DEF ImplementsSharedFile!vars
  <2>4. ASSUME NEW c \in Controllers, Replace(c)
        PROVE  ImplementsSharedFile!Publish \/ UNCHANGED ImplementsSharedFile!vars
    BY <2>1, <2>4, ReplacePublishes
  <2>5. ASSUME NEW m \in Moderators, FirstPage(m) \/ NextPage(m)
        PROVE  ImplementsSharedFile!Look(m)
    BY <2>1, <2>5, AskForLooks DEF FirstPage, NextPage
  <2>6. ASSUME NEW m \in Moderators, Collect(m)
        PROVE  UNCHANGED ImplementsSharedFile!vars
    BY <2>1, <2>6, CollectUnseen DEF ImplementsSharedFile!vars
  <2>7. CASE UNCHANGED vars
    <3>1. UNCHANGED <<name, half, log, page>>
      BY <2>7 DEF vars
    <3> QED BY <2>1, <3>1, Elsewhere DEF ImplementsSharedFile!vars
  <2> QED
    BY <2>1, <2>2, <2>3, <2>4, <2>5, <2>6, <2>7 DEF Next, ImplementsSharedFile!Next
<1> QED BY <1>1, <1>2 DEF RInv, TypeOK

LEMMA InitImplements == Init => ImplementsSharedFile!Init
<1> SUFFICES ASSUME Init PROVE ImplementsSharedFile!Init
  OBVIOUS
<1>1. Content(name["state"]) = {} /\ overlapped = FALSE
  BY DEF Init, Content
<1>2. \A m \in Moderators : page[m].at = "idle" /\ page[m].got = Unread
  BY DEF Init, Fresh
<1>3. Seen = [m \in Moderators |-> Unread]
  BY <1>2 DEF Seen, Reading
<1> QED BY <1>1, <1>3 DEF ImplementsSharedFile!Init

\* The temporary file, the two pieces and the rename implement the file that passes from
\* one complete save to the next: no reader sees less than a save, nor an older one.
THEOREM FilesImplementOne == Spec => AtomicForReaders
<1>1. RInv /\ RInv' /\ [Next]_vars => [ImplementsSharedFile!Next]_(ImplementsSharedFile!vars)
  BY StepImplements
<1> QED
  BY <1>1, InitImplements, RInductive, PTL DEF Spec, AtomicForReaders, ImplementsSharedFile!Spec
===============================================================================
