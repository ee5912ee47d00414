----------------------------- MODULE IndexFiles -----------------------------
(***************************************************************************)
(* The index of mcp_server/bridge_mcp: write_index, which replaces two     *)
(* files one after the other, load_index and IndexCache, which read them   *)
(* meanwhile, and bridge_search, which reads the index twice with an embed *)
(* job in between.  Nothing keeps two builds into one directory apart, and *)
(* they share the names of their temporary files.                          *)
(*                                                                         *)
(* A file is named for the build that created it.  What it holds is the    *)
(* build it is the whole output of, or Part: an unfinished file, or one    *)
(* two builds wrote into, which is taken not to parse or match.            *)
(***************************************************************************)
EXTENDS Integers, FiniteSets

CONSTANTS
  Builds, Part, None,
  Calls,               \* calls of bridge_search
  Models,              \* embedding models
  ModelOf(_),          \* the model a build was made with
  NoModel

ASSUME IndexAssumption ==
  /\ Builds \cap {Part, None} = {} /\ Part # None /\ None \notin Calls
  /\ NoModel \notin Models /\ \A b \in Builds : ModelOf(b) \in Models

VARIABLES
  build,               \* where each build is
  vfile, sfile,        \* the files it has opened as vectors.f32.tmp and index.json.tmp
  vtmp, stmp, vec, side,   \* the file under each of the four names
  vdata, sdata,        \* what each file holds
  vtime, stime         \* how often each file was changed: its st_mtime_ns

VARIABLES
  holder, at,          \* the call in IndexCache.get, by the cache's lock, and where in it
  pinned,              \* the index a call works with until it lets go of index_step
  again,               \* whether get() has already tried once
  sread, sstamp, vread, vstamp,   \* read so far by load_index, and the stamps of the open files
  cached,              \* IndexCache._items: None, or the index with its stamps
  call, model, query   \* where each call is; the index's model at facts(); the query vector's

(* For the properties: the builds whose sidecar, whose vectors and whose   *)
(* pair were there at some moment of this index step, the index a call     *)
(* scored, whether two builds overlapped, and whether three did.           *)
VARIABLES during, scored, overlapped, crowded

files  == <<build, vfile, sfile, vtmp, stmp, vec, side, vdata, sdata, vtime, stime, overlapped, crowded>>
load   == <<again, sread, sstamp, vread, vstamp>>
calls  == <<call, model, query, scored, pinned>>
vars   == <<files, holder, at, load, cached, calls, during>>

Contents == Builds \cup {Part}
Nothing  == [of |-> None, holds |-> None, stamps |-> <<>>]
SideHas(b) == side # None /\ sdata[side] = b
VecHas(b)  == vec # None /\ vdata[vec] = b
Whole(b)   == SideHas(b) /\ VecHas(b)
Never    == [side |-> {}, vec |-> {}, both |-> {}]
Present  == [side |-> {b \in Builds : SideHas(b)}, vec |-> {b \in Builds : VecHas(b)},
             both |-> {b \in Builds : Whole(b)}]
Running  == {b \in Builds : build[b] \notin {"none", "done", "failed", "dead"}}

Init ==
  /\ build = [b \in Builds |-> "none"] /\ vfile = [b \in Builds |-> None] /\ sfile = [b \in Builds |-> None]
  /\ vtmp = None /\ stmp = None /\ vec = None /\ side = None
  /\ vdata = [b \in Builds |-> Part] /\ sdata = [b \in Builds |-> Part] /\ vtime = [b \in Builds |-> 0]
  /\ stime = vtime
  /\ holder = None /\ at = "idle" /\ again = FALSE
  /\ sread = Part /\ sstamp = <<>> /\ vread = Part /\ vstamp = <<>> /\ cached = Nothing
  /\ pinned = [c \in Calls |-> Nothing]
  /\ call = [c \in Calls |-> "facts"] /\ model = [c \in Calls |-> NoModel] /\ query = [c \in Calls |-> NoModel]
  /\ during = Never /\ scored = [c \in Calls |-> NoModel] /\ overlapped = FALSE /\ crowded = FALSE

(* Every step of a build, and what it makes of what was there.             *)
Moves(b, from, to) == build[b] = from /\ build' = [build EXCEPT ![b] = to]
And(d, e) == [side |-> d.side \cup e.side, vec |-> d.vec \cup e.vec, both |-> d.both \cup e.both]
Seen == during' = IF holder = None THEN Never ELSE And(during, Present')
Elsewhere == <<holder, at, load, cached, calls>>
-----------------------------------------------------------------------------
(* open("wb"): a temporary file that is there is emptied, not replaced.    *)
OpenVectors(b) ==
  LET f == IF vtmp = None THEN b ELSE vtmp IN
  /\ Moves(b, "none", "vectors") /\ vtmp' = f /\ vfile' = [vfile EXCEPT ![b] = f]
  /\ vdata' = [vdata EXCEPT ![f] = Part] /\ vtime' = [vtime EXCEPT ![f] = @ + 1]
  /\ overlapped' = (overlapped \/ Running # {}) /\ crowded' = (crowded \/ \E c, d \in Running : c # d)
  /\ UNCHANGED <<sfile, stmp, vec, side, sdata, stime, Elsewhere>> /\ Seen

(* What is in a file once b has written it: if another build has it open   *)
(* or wrote to it since b opened it, b's whole output or a mixture.        *)
After(b, file, place, data) ==
  IF data[file[b]] = Part /\ \A c \in Builds \ {b} : ~(build[c] = place /\ file[c] = file[b]) THEN {b} ELSE {b, Part}
WriteVectors(b) ==
  /\ Moves(b, "vectors", "opens")
  /\ \E d \in After(b, vfile, "vectors", vdata) : vdata' = [vdata EXCEPT ![vfile[b]] = d]
  /\ vtime' = [vtime EXCEPT ![vfile[b]] = @ + 1]
  /\ UNCHANGED <<vfile, sfile, vtmp, stmp, vec, side, sdata, stime, overlapped, crowded, Elsewhere>> /\ Seen

OpenSidecar(b) ==
  LET f == IF stmp = None THEN b ELSE stmp IN
  /\ Moves(b, "opens", "sidecar") /\ stmp' = f /\ sfile' = [sfile EXCEPT ![b] = f]
  /\ sdata' = [sdata EXCEPT ![f] = Part] /\ stime' = [stime EXCEPT ![f] = @ + 1]
  /\ UNCHANGED <<vfile, vtmp, vec, side, vdata, vtime, overlapped, crowded, Elsewhere>> /\ Seen

WriteSidecar(b) ==
  /\ Moves(b, "sidecar", "vectors written")
  /\ \E d \in After(b, sfile, "sidecar", sdata) : sdata' = [sdata EXCEPT ![sfile[b]] = d]
  /\ stime' = [stime EXCEPT ![sfile[b]] = @ + 1]
  /\ UNCHANGED <<vfile, sfile, vtmp, stmp, vec, side, vdata, vtime, overlapped, crowded, Elsewhere>> /\ Seen

(* os.replace, which fails when another build has taken the file away.     *)
(* Mutant of BothWritten: the vectors are replaced once they are written.  *)
OneWritten  == "opens"
BothWritten == "vectors written"
ReplaceVectors(b) ==
  /\ Moves(b, BothWritten, IF vtmp = None THEN "cleans" ELSE "sidecar written")
  /\ IF vtmp = None THEN UNCHANGED <<vec, vtmp>> ELSE vec' = vtmp /\ vtmp' = None
  /\ UNCHANGED <<vfile, sfile, stmp, side, vdata, sdata, vtime, stime, overlapped, crowded, Elsewhere>> /\ Seen
ReplaceSidecar(b) ==
  /\ Moves(b, "sidecar written", IF stmp = None THEN "cleans" ELSE "cleans up")
  /\ IF stmp = None THEN UNCHANGED <<side, stmp>> ELSE side' = stmp /\ stmp' = None
  /\ UNCHANGED <<vfile, sfile, vtmp, vec, vdata, sdata, vtime, stime, overlapped, crowded, Elsewhere>> /\ Seen

(* An error: of a file, which a failed open leaves as if it had been       *)
(* opened, of the guard on the written sidecar, or of either rename.  And  *)
(* the finally clause, by which one build also removes what another is     *)
(* writing.                                                                *)
Fails(b) ==
  /\ build[b] \in {"vectors", "opens", "sidecar", "vectors written", "sidecar written"}
  /\ build' = [build EXCEPT ![b] = "cleans"]
  /\ UNCHANGED <<vfile, sfile, vtmp, stmp, vec, side, vdata, sdata, vtime, stime, overlapped, crowded, Elsewhere>> /\ Seen
Cleans(b) ==
  /\ Moves(b, "cleans", "failed") \/ Moves(b, "cleans up", "done")
  /\ vtmp' = None /\ stmp' = None
  /\ UNCHANGED <<vfile, sfile, vec, side, vdata, sdata, vtime, stime, overlapped, crowded, Elsewhere>> /\ Seen
Dies(b) ==
  /\ b \in Running /\ build' = [build EXCEPT ![b] = "dead"]
  /\ UNCHANGED <<vfile, sfile, vtmp, stmp, vec, side, vdata, sdata, vtime, stime, overlapped, crowded, Elsewhere>> /\ Seen
-----------------------------------------------------------------------------
(* An index step of a call, facts() or select(), once it has the lock.     *)
(* Mutant: there is no lock.                                               *)
FreeAlways == TRUE
Free       == \A c \in Calls : pinned[c] = Nothing
Enter(c) ==
  /\ call[c] \in {"facts", "select"} /\ pinned[c] = Nothing /\ Free /\ holder = None
  /\ holder' = c /\ at' = "stat" /\ again' = FALSE /\ during' = Present
  /\ UNCHANGED <<files, sread, sstamp, vread, vstamp, cached, calls>>

Goes(from, to) == holder # None /\ at = from /\ at' = to /\ UNCHANGED <<files, holder>> /\ Seen
Stamp(name, time) == <<name, IF name = None THEN 0 ELSE time[name]>>

(* _cached: the sidecar's stamp, then the vectors'.                        *)
StatSidecar ==
  /\ Goes("stat", IF cached # Nothing /\ cached.stamps[1] = Stamp(side, stime) THEN "stat vectors" ELSE "clear")
  /\ UNCHANGED <<load, cached, calls>>
StatVectors ==
  /\ Goes("stat vectors", IF cached.stamps[2] = Stamp(vec, vtime) THEN "got" ELSE "clear")
  /\ UNCHANGED <<load, cached, calls>>

Cleared    == Nothing
Clear == Goes("clear", "open") /\ cached' = Cleared /\ UNCHANGED <<load, calls>>

(* What load_index has read is its own, and gone when it ends.             *)
Afresh == sread' = Part /\ vread' = Part /\ sstamp' = <<>> /\ vstamp' = <<>>

(* load_index.  A file that is not there, or another I/O error, is tried   *)
(* once more; what is read and invalid is not.                             *)
Errs ==
  /\ at \in {"open", "read sidecar", "open vectors", "read vectors"}
  /\ Goes(at, IF again THEN "error" ELSE "open") /\ again' = TRUE /\ Afresh
  /\ UNCHANGED <<cached, calls>>
OpenIndexJson ==
  /\ side # None /\ Goes("open", "read sidecar") /\ sstamp' = Stamp(side, stime)
  /\ UNCHANGED <<again, sread, vread, vstamp, cached, calls>>
ReadSidecar ==
  /\ Goes("read sidecar", "parsed") /\ sread' = sdata[sstamp[1]]
  /\ UNCHANGED <<again, sstamp, vread, vstamp, cached, calls>>
Parse ==
  \/ sread = Part /\ Goes("parsed", "error") /\ Afresh /\ UNCHANGED <<again, cached, calls>>
  \/ sread # Part /\ Goes("parsed", "open vectors") /\ UNCHANGED <<load, cached, calls>>

(* The stamp is that of the open file, whatever its name stands for later. *)
(* Mutant: the name's, once the file is read.                              *)
StampLate(open) == Stamp(vec, vtime)
StampOpen(open) == open
OpenIndexed ==
  /\ vec # None /\ Goes("open vectors", "read vectors") /\ vstamp' = Stamp(vec, vtime)
  /\ UNCHANGED <<again, sread, sstamp, vread, cached, calls>>
ReadVectors ==
  /\ Goes("read vectors", "check") /\ vread' = vdata[vstamp[1]]
  /\ UNCHANGED <<again, sread, sstamp, vstamp, cached, calls>>

(* The size, the checksum and the unit vectors.                            *)
Matches == vread = sread
Store ==
  /\ Goes("check", IF Matches THEN "got" ELSE "error")
  /\ cached' = IF Matches THEN [of |-> sread, holds |-> vread, stamps |-> <<sstamp, StampOpen(vstamp)>>] ELSE cached
  /\ Afresh /\ UNCHANGED <<again, calls>>

Return(c) ==
  /\ holder = c /\ at \in {"got", "error"} /\ holder' = None /\ at' = "idle" /\ again' = FALSE /\ during' = Never
  /\ pinned' = [pinned EXCEPT ![c] = IF at = "got" THEN cached ELSE Nothing]
  /\ call' = [call EXCEPT ![c] = IF at = "got" THEN @ ELSE "over"]
  /\ UNCHANGED <<files, sread, sstamp, vread, vstamp, cached, model, query, scored>>

(* The step ends, within the deadline or not.  facts() returns the model,  *)
(* which is compared with the backend's; select() compares it with the     *)
(* query's.  Mutant: it does not look again.                               *)
AgreesAlways(c) == TRUE
Agrees(c)       == ModelOf(pinned[c].of) = query[c]
Leave(c) ==
  /\ pinned[c] # Nothing /\ pinned' = [pinned EXCEPT ![c] = Nothing]
  /\ \/ call' = [call EXCEPT ![c] = "over"] /\ UNCHANGED <<model, scored>>
     \/ /\ call[c] = "facts" /\ call' = [call EXCEPT ![c] = "embed"]
        /\ model' = [model EXCEPT ![c] = ModelOf(pinned[c].of)] /\ UNCHANGED scored
     \/ /\ call[c] = "select" /\ Agrees(c) /\ call' = [call EXCEPT ![c] = "over"]
        /\ scored' = [scored EXCEPT ![c] = ModelOf(pinned[c].of)] /\ UNCHANGED model
  /\ UNCHANGED <<files, holder, at, load, cached, query, during>>

(* The embed job, by the worker as it is now; the host calls the tool      *)
(* again.                                                                  *)
Embed(c) ==
  /\ call[c] = "embed"
  /\ \E m \in Models :
       /\ query' = [query EXCEPT ![c] = m]
       /\ call' = [call EXCEPT ![c] = IF m = model[c] THEN "select" ELSE "over"]
  /\ UNCHANGED <<files, holder, at, load, cached, model, scored, pinned, during>>
CallAgain(c) ==
  /\ call[c] = "over" /\ call' = [call EXCEPT ![c] = "facts"]
  /\ model' = [model EXCEPT ![c] = NoModel] /\ query' = [query EXCEPT ![c] = NoModel]
  /\ scored' = [scored EXCEPT ![c] = NoModel]
  /\ UNCHANGED <<files, holder, at, load, cached, pinned, during>>

Build(b) ==
  \/ OpenVectors(b) \/ WriteVectors(b) \/ OpenSidecar(b) \/ WriteSidecar(b)
  \/ ReplaceVectors(b) \/ ReplaceSidecar(b) \/ Fails(b) \/ Cleans(b) \/ Dies(b)
Get ==
  \/ StatSidecar \/ StatVectors \/ Clear \/ Errs
  \/ OpenIndexJson \/ ReadSidecar \/ Parse \/ OpenIndexed \/ ReadVectors \/ Store

Next ==
  \/ \E b \in Builds : Build(b)
  \/ Get \/ \E c \in Calls : Enter(c) \/ Return(c) \/ Leave(c) \/ Embed(c) \/ CallAgain(c)

Spec == Init /\ [][Next]_vars
-----------------------------------------------------------------------------
TypeOK ==
  /\ build \in [Builds -> {"none", "vectors", "opens", "sidecar", "vectors written", "sidecar written",
                           "cleans", "cleans up", "done", "failed", "dead"}]
  /\ vfile \in [Builds -> Builds \cup {None}] /\ sfile \in [Builds -> Builds \cup {None}]
  /\ {vtmp, stmp, vec, side} \subseteq Builds \cup {None}
  /\ vdata \in [Builds -> Contents] /\ sdata \in [Builds -> Contents] /\ {vtime, stime} \subseteq [Builds -> Nat]
  /\ holder \in Calls \cup {None} /\ {sread, vread} \subseteq Contents
  /\ {again, overlapped, crowded} \subseteq BOOLEAN
  /\ during \in [side : SUBSET Builds, vec : SUBSET Builds, both : SUBSET Builds]
  /\ {model, query, scored} \subseteq [Calls -> Models \cup {NoModel}]
  /\ call \in [Calls -> {"facts", "embed", "select", "over"}]

(* What an index step gets is one build's output, whole, and its vectors   *)
(* were in place during the step: never half of a rebuild, and never one   *)
(* replaced before the step began.  Its two files were even in place at    *)
(* one moment, unless three builds have run at once: then its sidecar may  *)
(* have been finished, by its writer, in a file that was index.json only   *)
(* before.                                                                 *)
GotIsCurrent ==
  at = "got" =>
    /\ cached.holds = cached.of
    /\ cached.of \in during.vec
    /\ ~crowded => cached.of \in during.both

(* However many calls load, work with and drop indexes, one is in memory:  *)
(* the one cached, one that a call still works with, or one being loaded.  *)
OneIndexInMemory ==
  Cardinality({c \in Calls : pinned[c] \notin {Nothing, cached}}) + (IF cached # Nothing THEN 1 ELSE 0)
    + (IF at \in {"read sidecar", "parsed", "open vectors", "read vectors", "check"} THEN 1 ELSE 0) <= 1

(* Builds that do not overlap, whatever died or failed before them: the    *)
(* vectors are replaced only by a build's that has written its sidecar     *)
(* too, which waits to follow; the sidecar only by the one that describes  *)
(* the vectors in place; no file in place is written to; and a build that  *)
(* ends well leaves its own two files.                                     *)
Replaces ==
  /\ vec' # vec => \E b \in Builds : vdata'[vec'] = b /\ stmp' # None /\ sdata'[stmp'] = b
  /\ side' # side => \E b \in Builds : Whole(b)'
  /\ vec' = vec /\ vec # None => vdata'[vec] = vdata[vec]
  /\ side' = side /\ side # None => sdata'[side] = sdata[side]
  /\ \A b \in Builds : build[b] # "done" /\ build'[b] = "done" => Whole(b)'
BuildsReplaceWhole == [][~overlapped' => Replaces]_vars

(* The query vector and the vectors it is compared with are of one model,  *)
(* though the index may have been rebuilt, or the worker changed, between  *)
(* the two index steps.                                                    *)
OneModel == \A c \in Calls : scored[c] # NoModel => scored[c] = query[c]
=============================================================================
