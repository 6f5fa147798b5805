------------------------------ MODULE SharedRun ------------------------------
(* The state file of one run, at the granularity of file operations            *)
(* (orchestrator/debate_controller.py: read_json, atomic_write_json,           *)
(* _load_state, _save_state), with the controllers that load, change and save  *)
(* it, and moderators that read it page by page (collect).                     *)
(*                                                                             *)
(* A save is written to state.json.tmp and renamed over state.json.  The name  *)
(* of the temporary file is fixed, and an open file stays with its reader or   *)
(* writer whatever becomes of its name: `name' maps names to files, `half'     *)
(* files to what is in them.  A file is written in two pieces and is readable  *)
(* if both are from one save.  The content of a save is abstracted to the set  *)
(* of saves it builds upon (`log'), each of which added an entry of its own.   *)
EXTENDS Integers, Sequences, FiniteSets, SequencesExt

CONSTANTS
  Controllers,  \* processes of the server that work on the run
  Moderators,   \* those who read it through collect
  Roster,       \* the panelists, in the order of the configuration
  Offsets,      \* where a moderator may start to read
  Limits,       \* page lengths it may ask for
  MaxSaves      \* bound: saves begun

Files == 1 .. Cardinality(Controllers) + Cardinality(Moderators) + 2
Saves == 1 .. MaxSaves
MaxPage == 50
NoFile == 0
Unread == {0}  \* what cannot be parsed, and what has not been read
End == -1      \* next_offset is None

ASSUME RunAssumption ==
  /\ IsFiniteSet(Controllers) /\ IsFiniteSet(Moderators) /\ MaxSaves \in Nat
  /\ Offsets \subseteq Int /\ Limits \subseteq Int
ASSUME RosterAssumption == Roster \in Seq(Range(Roster)) /\ IsInjective(Roster) /\ Roster # <<>>

VARIABLES
  name,    \* "state" and "tmp" to the files of these names
  half,    \* the save that each piece of a file is from, 0 if it is missing
  log,     \* for each save begun, the saves it reflects
  writer,  \* each controller: where its call is, its open file, what it holds in memory
  page,    \* each moderator: where it is, what it asked for, what it has seen
  done,    \* history: saves that were renamed
  overlapped  \* history: two controllers were in a call at the same time

vars == <<name, half, log, writer, page, done, overlapped>>

Reading(p) == p.at = "reading"
Content(f) == IF f = NoFile THEN {} ELSE IF half[f][1] = half[f][2] /\ half[f][1] # 0
              THEN log[half[f][1]] ELSE Unread
Idle == [at |-> "idle", fd |-> NoFile, memory |-> {}, save |-> 0]
Fresh == [at |-> "idle", fd |-> NoFile, offset |-> 0, limit |-> 1, shown |-> <<>>, got |-> Unread]

Init ==
  /\ name = [n \in {"state", "tmp"} |-> NoFile]
  /\ half = [f \in Files |-> <<0, 0>>]
  /\ log = <<>>
  /\ writer = [c \in Controllers |-> Idle]
  /\ page = [m \in Moderators |-> Fresh]
  /\ done = {}
  /\ overlapped = FALSE

\* A file that has no name and that nobody holds open.
Unused ==
  CHOOSE f \in Files :
    /\ \A n \in DOMAIN name : name[n] # f
    /\ \A c \in Controllers : writer[c].fd # f
    /\ \A m \in Moderators : page[m].fd # f

EnterCall(c) ==
  /\ writer[c].at = "idle"
  /\ overlapped' = (overlapped \/ \E d \in Controllers \ {c} : writer[d].at # "idle")

\* start names a run of its own and saves it without having read it.
Start(c) ==
  /\ EnterCall(c)
  /\ log = <<>>
  /\ writer' = [writer EXCEPT ![c].at = "working"]
  /\ UNCHANGED <<name, half, log, page, done>>

\* reply, retry and finalize load the state first.
Load(c) ==
  /\ EnterCall(c)
  /\ name["state"] # NoFile
  /\ writer' = [writer EXCEPT ![c] = [Idle EXCEPT !.at = "reading", !.fd = name["state"]]]
  /\ UNCHANGED <<name, half, log, page, done>>

\* A state that cannot be parsed ends the call.
Loaded(c) ==
  LET content == Content(writer[c].fd)
  IN /\ Reading(writer[c])
     /\ writer' = [writer EXCEPT ![c] =
          IF content = Unread THEN Idle ELSE [Idle EXCEPT !.at = "working", !.memory = content]]
     /\ UNCHANGED <<name, half, log, page, done, overlapped>>

\* Mutant of OpenTemporary: the save goes straight into the state file.
OpenInPlace(c) ==
  LET f == IF name["state"] = NoFile THEN Unused ELSE name["state"]
      s == Len(log) + 1
  IN /\ writer[c].at = "working" /\ s <= MaxSaves
     /\ log' = Append(log, writer[c].memory \cup {s})
     /\ name' = [name EXCEPT !["state"] = f]
     /\ half' = [half EXCEPT ![f] = <<0, 0>>]
     /\ writer' = [writer EXCEPT ![c] =
          [at |-> "opened", fd |-> f, memory |-> writer[c].memory \cup {s}, save |-> s]]
     /\ UNCHANGED <<page, done, overlapped>>

\* A save, with a new entry in the state: opening the temporary file for writing
\* makes it, or empties the one that has the name.
OpenTemporary(c) ==
  LET f == IF name["tmp"] = NoFile THEN Unused ELSE name["tmp"]
      s == Len(log) + 1
  IN /\ writer[c].at = "working" /\ s <= MaxSaves
     /\ log' = Append(log, writer[c].memory \cup {s})
     /\ name' = [name EXCEPT !["tmp"] = f]
     /\ half' = [half EXCEPT ![f] = <<0, 0>>]
     /\ writer' = [writer EXCEPT ![c] =
          [at |-> "opened", fd |-> f, memory |-> writer[c].memory \cup {s}, save |-> s]]
     /\ UNCHANGED <<page, done, overlapped>>

\* json.dump through the open file: first one piece, then the other and close.
Write(c) ==
  /\ writer[c].at \in {"opened", "half"}
  /\ LET piece == IF writer[c].at = "opened" THEN 1 ELSE 2
     IN /\ half' = [half EXCEPT ![writer[c].fd][piece] = writer[c].save]
        /\ writer' = [writer EXCEPT ![c].at = IF piece = 1 THEN "half" ELSE "written",
                                    ![c].fd = IF piece = 1 THEN @ ELSE NoFile]
  /\ UNCHANGED <<name, log, page, done, overlapped>>

\* os.replace renames what has the name, or fails and ends the call.
Replace(c) ==
  /\ writer[c].at = "written"
  /\ IF name["tmp"] = NoFile
     THEN /\ writer' = [writer EXCEPT ![c] = Idle]
          /\ UNCHANGED <<name, done>>
     ELSE /\ name' = [state |-> name["tmp"], tmp |-> NoFile]
          /\ done' = done \cup {writer[c].save}
          /\ writer' = [writer EXCEPT ![c] = [@ EXCEPT !.at = "working", !.save = 0]]
  /\ UNCHANGED <<half, log, page, overlapped>>

\* Mutant of SaveFails: the rename is in the finally block.
SaveFailsButRenames(c) ==
  /\ writer[c].at \in {"opened", "half"}
  /\ writer' = [writer EXCEPT ![c] = Idle]
  /\ name' = [state |-> name["tmp"], tmp |-> NoFile]
  /\ UNCHANGED <<half, log, page, done, overlapped>>

\* An error while writing ends the call and leaves the temporary file.
SaveFails(c) ==
  /\ writer[c].at \in {"opened", "half"}
  /\ writer' = [writer EXCEPT ![c] = Idle]
  /\ UNCHANGED <<name, half, log, page, done, overlapped>>

Return(c) ==
  /\ writer[c].at = "working"
  /\ writer' = [writer EXCEPT ![c] = Idle]
  /\ UNCHANGED <<name, half, log, page, done, overlapped>>

\* The process dies, with what it holds in memory; another takes its place.
Crash(c) ==
  /\ writer[c].at # "idle"
  /\ writer' = [writer EXCEPT ![c] = Idle]
  /\ UNCHANGED <<name, half, log, page, done, overlapped>>

------------------------------------------------------------------------------
\* Mutant of ClampedLimit: a page may be empty.
UnclampedLimit(limit) == IF limit < MaxPage THEN limit ELSE MaxPage

\* At least one panelist, at most fifty.
ClampedLimit(limit) == IF limit < 1 THEN 1 ELSE IF limit < MaxPage THEN limit ELSE MaxPage

\* The roster slice of a page; it is empty from the end of the roster on.
Slice(offset, limit) ==
  LET last == offset + limit
  IN SubSeq(Roster, offset + 1, IF last < Len(Roster) THEN last ELSE Len(Roster))

NextOffset(offset, limit) ==
  LET next == offset + Len(Slice(offset, limit)) IN IF next < Len(Roster) THEN next ELSE End

\* Mutant of ClampedOffset: it is taken as it comes.
UnclampedOffset(offset) == offset

ClampedOffset(offset) == IF offset < 0 THEN 0 ELSE offset

\* collect(offset, limit) loads the state.
AskFor(m, offset, limit) ==
  /\ page[m].at = "idle"
  /\ name["state"] # NoFile
  /\ page' = [page EXCEPT ![m] =
       [@ EXCEPT !.at = "reading", !.fd = name["state"], !.limit = ClampedLimit(limit),
                 !.offset = ClampedOffset(offset)]]
  /\ UNCHANGED <<name, half, log, writer, done, overlapped>>

FirstPage(m) == \E o \in Offsets, l \in Limits : page[m].shown = <<>> /\ AskFor(m, o, l)
NextPage(m) == \E l \in Limits : page[m].shown # <<>> /\ page[m].offset # End /\ AskFor(m, page[m].offset, l)

\* A page that cannot be read is asked for again.
Collect(m) ==
  LET p == page[m]
  IN /\ Reading(p)
     /\ page' = [page EXCEPT ![m] =
          IF Content(p.fd) = Unread THEN [p EXCEPT !.at = "idle", !.fd = NoFile]
          ELSE [p EXCEPT !.at = "idle", !.fd = NoFile, !.got = Content(p.fd),
                         !.shown = @ \o Slice(p.offset, p.limit),
                         !.offset = NextOffset(p.offset, p.limit)]]
     /\ UNCHANGED <<name, half, log, writer, done, overlapped>>

Next ==
  \/ \E c \in Controllers :
       \/ Start(c) \/ Load(c) \/ Loaded(c)
       \/ OpenTemporary(c) \/ Write(c) \/ Replace(c) \/ SaveFails(c)
       \/ Return(c) \/ Crash(c)
  \/ \E m \in Moderators : FirstPage(m) \/ NextPage(m) \/ Collect(m)

\* Moderators go on asking; nothing is assumed of the controllers.
Fairness == \A m \in Moderators : WF_vars(NextPage(m)) /\ WF_vars(Collect(m))

Spec == Init /\ [][Next]_vars /\ Fairness

------------------------------------------------------------------------------
Writers ==
  [at : {"idle", "reading", "working", "opened", "half", "written"},
   fd : Files \cup {NoFile}, memory : SUBSET Saves, save : 0 .. MaxSaves]
Pages ==
  [at : {"idle", "reading"}, fd : Files \cup {NoFile}, offset : Nat \cup {End}, limit : Int,
   shown : Seq(Range(Roster)), got : (SUBSET Saves) \cup {Unread}]

\* Types; a page is only ever asked for at an offset that is not negative.
TypeOK ==
  /\ name \in [{"state", "tmp"} -> Files \cup {NoFile}]
  /\ half \in [Files -> (0 .. MaxSaves) \X (0 .. MaxSaves)]
  /\ log \in Seq(SUBSET Saves) /\ Len(log) <= MaxSaves /\ done \subseteq 1 .. Len(log)
  /\ writer \in [Controllers -> Writers]
  /\ page \in [Moderators -> Pages]
  /\ \A m \in Moderators : Reading(page[m]) => page[m].offset # End
  /\ overlapped \in BOOLEAN

\* As long as calls on the run take turns, in whichever processes and with whatever
\* failed saves and crashes between them, the state file can be read and reflects
\* every save that was ever completed: none of the answers in them is lost.
SerialLosesNothing ==
  ~overlapped => done \subseteq Content(name["state"])

\* What a moderator got of the file, from the moment it opened it.
Seen == [m \in Moderators |-> IF Reading(page[m]) THEN Content(page[m].fd) ELSE page[m].got]

\* The file with its temporary, its pieces and its rename implements the file that
\* passes from one complete save to the next, and every page is of one such save, not
\* older than that of the page before it.
ImplementsSharedFile ==
  INSTANCE SharedFile WITH
    Readers <- Moderators, file <- Content(name["state"]), seen <- Seen, shared <- overlapped
AtomicForReaders == ImplementsSharedFile!Spec

\* A moderator that follows next_offset, with whatever limits, sees each panelist
\* once in the order of the roster, whatever is saved between the pages.
PagingCovers ==
  \A m \in Moderators :
    (page[m].shown # <<>>) ~> (overlapped \/ page[m].shown = Roster)
===============================================================================
