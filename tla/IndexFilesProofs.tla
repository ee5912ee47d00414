-------------------------- MODULE IndexFilesProofs --------------------------
(***************************************************************************)
(* IndexFiles for any builds, searches and models: the memory, the models  *)
(* and the files, each by an invariant of its own.                         *)
(***************************************************************************)
EXTENDS IndexFiles, FiniteSetTheorems, TLAPS

(* What is worked with is the cached index, and none is loaded before the  *)
(* last one is forgotten.                                                  *)
MemoryInv ==
  /\ holder = None <=> at = "idle"
  /\ pinned \in [Calls -> {Nothing, cached}]
  /\ holder # None => \A c \in Calls : pinned[c] = Nothing
  /\ at \in {"open", "read sidecar", "parsed", "open vectors", "read vectors", "check"} => cached = Nothing

(* A call has scored an index only when it is over.                        *)
ModelsInv ==
  /\ DOMAIN call = Calls /\ DOMAIN query = Calls /\ DOMAIN scored = Calls
  /\ OneModel
  /\ \A c \in Calls : scored[c] # NoModel => call[c] = "over"

(* Builds that do not overlap: each has the temporary files to itself,     *)
(* which no one else put in place, and they hold what it wrote.            *)
Named(f, g, early) ==
  /\ f # None => build[f] \notin early /\ f # g
  /\ g # None => build[g] \notin early
Written(b, tmp, file, data) == file[b] \in Builds /\ tmp = file[b] /\ data[file[b]] = b
Phases(b) ==
  /\ build[b] = "vectors" => vfile[b] \in Builds /\ vtmp = vfile[b] /\ vdata[vfile[b]] = Part
  /\ build[b] \in {"opens", "sidecar", "vectors written"} => Written(b, vtmp, vfile, vdata)
  /\ build[b] = "sidecar" => sfile[b] \in Builds /\ stmp = sfile[b] /\ sdata[sfile[b]] = Part
  /\ build[b] \in {"vectors written", "sidecar written"} => Written(b, stmp, sfile, sdata)
  /\ build[b] \in {"sidecar written", "cleans up"} => vec # None /\ vdata[vec] = b
  /\ build[b] = "cleans up" => side # None /\ sdata[side] = b
Apart ==
  /\ \A b, c \in Running : b = c
  /\ Named(vtmp, vec, {"none"}) /\ Named(stmp, side, {"none", "vectors", "opens"})
  /\ \A b \in Builds : Phases(b)

States == {"none", "vectors", "opens", "sidecar", "vectors written", "sidecar written",
           "cleans", "cleans up", "done", "failed", "dead"}
FilesInv ==
  /\ build \in [Builds -> States]
  /\ vfile \in [Builds -> Builds \cup {None}] /\ sfile \in [Builds -> Builds \cup {None}]
  /\ {vtmp, stmp, vec, side} \subseteq Builds \cup {None}
  /\ vdata \in [Builds -> Contents] /\ sdata \in [Builds -> Contents]
  /\ overlapped \in BOOLEAN
  /\ ~overlapped => Apart
-----------------------------------------------------------------------------
(* The steps of the cache and of the searches keep one index.              *)
LEMMA MemoryStep == ASSUME MemoryInv, [Next]_vars PROVE MemoryInv'
<1> USE IndexAssumption DEF MemoryInv
<1>1. CASE \E b \in Builds : Build(b)
  <2>1. UNCHANGED Elsewhere
    BY <1>1 DEF Build, OpenVectors, WriteVectors, OpenSidecar, WriteSidecar, ReplaceVectors, ReplaceSidecar,
                Fails, Cleans, Dies
  <2> QED BY <2>1 DEF Elsewhere, calls
<1>2. CASE Get
  <2>1. holder # None /\ holder' = holder /\ at' # "idle" /\ pinned' = pinned
    BY <1>2 DEF Get, StatSidecar, StatVectors, Clear, Errs, OpenIndexJson, ReadSidecar, Parse, OpenIndexed, ReadVectors, Store,
                Goes, calls
  <2>2. at' \in {"open", "read sidecar", "parsed", "open vectors", "read vectors", "check"} => cached' = Nothing
    BY <1>2 DEF Get, StatSidecar, StatVectors, Clear, Errs, OpenIndexJson, ReadSidecar, Parse, OpenIndexed, ReadVectors, Store,
                Goes, Cleared
  <2>3. pinned' \in [Calls -> {Nothing, cached'}]
    BY <2>1
  <2> QED BY <2>1, <2>2, <2>3
<1>3. ASSUME NEW c \in Calls, Enter(c) PROVE MemoryInv'
  BY <1>3 DEF Enter, Free, calls
<1>4. ASSUME NEW c \in Calls, Return(c) PROVE MemoryInv'
  BY <1>4 DEF Return
<1>5. ASSUME NEW c \in Calls, Leave(c) PROVE MemoryInv'
  BY <1>5 DEF Leave
<1>6. ASSUME NEW c \in Calls, Embed(c) \/ CallAgain(c) PROVE MemoryInv'
  BY <1>6 DEF Embed, CallAgain
<1>7. CASE UNCHANGED vars
  BY <1>7 DEF vars, calls
<1> QED BY <1>1, <1>2, <1>3, <1>4, <1>5, <1>6, <1>7 DEF Next

(* However many calls load, work with and drop indexes, one is in memory.  *)
THEOREM OneIndexAtATime == Spec => []OneIndexInMemory
<1>1. Init => MemoryInv
  BY IndexAssumption DEF Init, MemoryInv
<1>2. MemoryInv => OneIndexInMemory
  <2> SUFFICES ASSUME MemoryInv PROVE OneIndexInMemory
    OBVIOUS
  <2>1. {c \in Calls : pinned[c] \notin {Nothing, cached}} = {}
    BY DEF MemoryInv
  <2>2. Cardinality({c \in Calls : pinned[c] \notin {Nothing, cached}}) = 0
    BY <2>1, FS_EmptySet
  <2>3. at \in {"read sidecar", "parsed", "open vectors", "read vectors", "check"} => cached = Nothing
    BY DEF MemoryInv
  <2> DEFINE worked == Cardinality({c \in Calls : pinned[c] \notin {Nothing, cached}})
             loading == at \in {"read sidecar", "parsed", "open vectors", "read vectors", "check"}
             kept == cached # Nothing
  <2>4. worked = 0 /\ (loading => ~kept)
    BY <2>2, <2>3
  <2> HIDE DEF worked, loading, kept
  <2>5. worked + (IF kept THEN 1 ELSE 0) + (IF loading THEN 1 ELSE 0) <= 1
    BY <2>4
  <2> QED BY <2>5 DEF OneIndexInMemory, worked, loading, kept
<1> QED BY <1>1, <1>2, MemoryStep, PTL DEF Spec
-----------------------------------------------------------------------------
(* A query vector is made before anything is compared with it.             *)
LEMMA ModelsStep == ASSUME ModelsInv, [Next]_vars PROVE ModelsInv'
<1> USE IndexAssumption DEF ModelsInv, OneModel
<1>1. CASE (\E b \in Builds : Build(b)) \/ Get \/ UNCHANGED vars \/ \E c \in Calls : Enter(c)
  <2>1. UNCHANGED <<call, query, scored>>
    BY <1>1 DEF Build, OpenVectors, WriteVectors, OpenSidecar, WriteSidecar, ReplaceVectors, ReplaceSidecar,
                Fails, Cleans, Dies, Elsewhere, Get, StatSidecar, StatVectors, Clear, Errs, OpenIndexJson, ReadSidecar, Parse,
                OpenIndexed, ReadVectors, Store, Enter, vars, calls
  <2> QED BY <2>1
<1>2. ASSUME NEW c \in Calls, Return(c) PROVE ModelsInv'
  BY <1>2 DEF Return
<1>3. ASSUME NEW c \in Calls, Leave(c) PROVE ModelsInv'
  BY <1>3 DEF Leave, Agrees
<1>4. ASSUME NEW c \in Calls, Embed(c) PROVE ModelsInv'
  BY <1>4 DEF Embed
<1>5. ASSUME NEW c \in Calls, CallAgain(c) PROVE ModelsInv'
  BY <1>5 DEF CallAgain
<1> QED BY <1>1, <1>2, <1>3, <1>4, <1>5 DEF Next

(* No search compares vectors of two models, whatever is rebuilt or        *)
(* restarted between its index steps.                                      *)
THEOREM ModelsAgree == Spec => []OneModel
<1>1. Init => ModelsInv
  BY DEF Init, ModelsInv, OneModel
<1>2. ModelsInv => OneModel
  BY DEF ModelsInv
<1> QED BY <1>1, <1>2, ModelsStep, PTL DEF Spec
-----------------------------------------------------------------------------
(* While one build runs, all others are at rest, and what rests has        *)
(* nothing to say about the files: it is enough to look at the one.        *)
Resting == {"none", "done", "failed", "dead"}

LEMMA OthersRest ==
  ASSUME FilesInv, ~overlapped, NEW b \in Builds, build[b] \notin Resting
  PROVE  Apart /\ Phases(b) /\ \A c \in Builds : c # b => build[c] \in Resting
BY DEF FilesInv, Apart, Running, Resting, States

LEMMA OnlyOne ==
  ASSUME NEW b \in Builds, Phases(b)', \A c \in Builds : c # b => build'[c] \in Resting
  PROVE  (\A c \in Builds : Phases(c)') /\ \A c, d \in Running' : c = d
<1>1. ASSUME NEW c \in Builds PROVE Phases(c)'
  <2>1. CASE c = b
    BY <2>1
  <2>2. CASE c # b
    BY <2>2 DEF Phases, Resting
  <2> QED BY <2>1, <2>2
<1>2. \A c, d \in Running' : c = d
  BY DEF Running, Resting
<1> QED BY <1>1, <1>2

(* The steps of a build change the files as FilesInv says, one by one.     *)
LEMMA OpenVectorsKeeps == ASSUME FilesInv, NEW b \in Builds, OpenVectors(b) PROVE FilesInv'
<1> USE IndexAssumption DEF FilesInv, OpenVectors, Moves, States, Contents
<1>1. ~overlapped' => Apart'
  <2> SUFFICES ASSUME ~overlapped' PROVE Apart'
    OBVIOUS
  <2>1. Apart /\ \A c \in Builds : c # b => build'[c] = build[c] /\ build[c] \in Resting
    BY DEF Running, Resting
  <2>2. vtmp' \in Builds /\ vtmp' # vec /\ vdata'[vtmp'] = Part /\ vfile'[b] = vtmp' /\ build'[b] = "vectors"
    BY <2>1 DEF Apart, Named
  <2>3. \A x \in Builds : x # vtmp' => vdata'[x] = vdata[x]
    OBVIOUS
  <2>4. Phases(b)'
    BY <2>2 DEF Phases
  <2>6. (\A c \in Builds : Phases(c)') /\ \A c, d \in Running' : c = d
    BY <2>1, <2>4, OnlyOne
  <2> QED BY <2>1, <2>2, <2>3, <2>6 DEF Apart, Named
<1> QED BY <1>1

LEMMA WriteVectorsKeeps == ASSUME FilesInv, NEW b \in Builds, WriteVectors(b) PROVE FilesInv'
<1> USE IndexAssumption DEF FilesInv, WriteVectors, Moves, States, Contents
<1>1. PICK d \in After(b, vfile, "vectors", vdata) : vdata' = [vdata EXCEPT ![vfile[b]] = d]
  OBVIOUS
<1>2. d \in Contents
  BY DEF After
<1>3. ~overlapped => Apart'
  <2> SUFFICES ASSUME ~overlapped PROVE Apart'
    OBVIOUS
  <2>1. Apart /\ Phases(b) /\ \A c \in Builds : c # b => build[c] \in Resting
    BY OthersRest DEF Resting
  <2>2. vtmp = vfile[b] /\ vtmp # vec /\ vtmp \in Builds /\ vdata[vtmp] = Part
    <3>1. vtmp = vfile[b] /\ vtmp \in Builds /\ vtmp # None /\ vdata[vtmp] = Part
      BY <2>1 DEF Phases
    <3> QED BY <2>1, <3>1 DEF Apart, Named
  <2>3. d = b
    BY <2>1, <2>2 DEF After, Resting
  <2>4. vdata'[vtmp] = b /\ \A x \in Builds : x # vtmp => vdata'[x] = vdata[x]
    BY <1>1, <2>2, <2>3
  <2>5. Phases(b)'
    BY <2>2, <2>4 DEF Phases, Written
  <2>7. (\A c \in Builds : Phases(c)') /\ \A c, e \in Running' : c = e
    BY <2>1, <2>5, OnlyOne
  <2> QED BY <2>1, <2>2, <2>4, <2>7 DEF Apart, Named
<1> QED BY <1>1, <1>2, <1>3

LEMMA OpenSidecarKeeps == ASSUME FilesInv, NEW b \in Builds, OpenSidecar(b) PROVE FilesInv'
<1> USE IndexAssumption DEF FilesInv, OpenSidecar, Moves, States, Contents
<1>1. ~overlapped => Apart'
  <2> SUFFICES ASSUME ~overlapped PROVE Apart'
    OBVIOUS
  <2>1. Apart /\ Phases(b) /\ \A c \in Builds : c # b => build[c] \in Resting
    BY OthersRest DEF Resting
  <2>2. stmp' \in Builds /\ stmp' # side /\ sdata'[stmp'] = Part /\ sfile'[b] = stmp' /\ build'[b] = "sidecar"
    BY <2>1 DEF Apart, Named
  <2>3. \A x \in Builds : x # stmp' => sdata'[x] = sdata[x]
    OBVIOUS
  <2>4. Phases(b)'
    BY <2>1, <2>2 DEF Phases, Written
  <2>6. (\A c \in Builds : Phases(c)') /\ \A c, d \in Running' : c = d
    BY <2>1, <2>4, OnlyOne
  <2> QED BY <2>1, <2>2, <2>3, <2>6 DEF Apart, Named
<1> QED BY <1>1

LEMMA WriteSidecarKeeps == ASSUME FilesInv, NEW b \in Builds, WriteSidecar(b) PROVE FilesInv'
<1> USE IndexAssumption DEF FilesInv, WriteSidecar, Moves, States, Contents
<1>1. PICK d \in After(b, sfile, "sidecar", sdata) : sdata' = [sdata EXCEPT ![sfile[b]] = d]
  OBVIOUS
<1>2. d \in Contents
  BY DEF After
<1>3. ~overlapped => Apart'
  <2> SUFFICES ASSUME ~overlapped PROVE Apart'
    OBVIOUS
  <2>1. Apart /\ Phases(b) /\ \A c \in Builds : c # b => build[c] \in Resting
    BY OthersRest DEF Resting
  <2>2. stmp = sfile[b] /\ stmp # side /\ stmp \in Builds /\ sdata[stmp] = Part
    <3>1. stmp = sfile[b] /\ stmp \in Builds /\ stmp # None /\ sdata[stmp] = Part
      BY <2>1 DEF Phases
    <3> QED BY <2>1, <3>1 DEF Apart, Named
  <2>3. d = b
    BY <2>1, <2>2 DEF After, Resting
  <2>4. sdata'[stmp] = b /\ \A x \in Builds : x # stmp => sdata'[x] = sdata[x]
    BY <1>1, <2>2, <2>3
  <2>5. Phases(b)'
    BY <2>1, <2>2, <2>4 DEF Phases, Written
  <2>7. (\A c \in Builds : Phases(c)') /\ \A c, e \in Running' : c = e
    BY <2>1, <2>5, OnlyOne
  <2> QED BY <2>1, <2>2, <2>4, <2>7 DEF Apart, Named
<1> QED BY <1>1, <1>2, <1>3

(* A rename finds the file this build wrote, under the name it gave it.    *)
LEMMA ReplaceVectorsKeeps == ASSUME FilesInv, NEW b \in Builds, ReplaceVectors(b) PROVE FilesInv'
<1> USE IndexAssumption DEF FilesInv, ReplaceVectors, BothWritten, Moves, States, Contents
<1>1. ~overlapped => Apart'
  <2> SUFFICES ASSUME ~overlapped PROVE Apart'
    OBVIOUS
  <2>1. Apart /\ Phases(b) /\ \A c \in Builds : c # b => build[c] \in Resting
    BY OthersRest DEF Resting
  <2>2. vtmp \in Builds /\ vdata[vtmp] = b /\ Written(b, stmp, sfile, sdata)
    BY <2>1 DEF Phases, Written
  <2>3. vec' = vtmp /\ vtmp' = None /\ build'[b] = "sidecar written"
    BY <2>2
  <2>4. Phases(b)'
    BY <2>2, <2>3 DEF Phases, Written
  <2>5. (\A c \in Builds : Phases(c)') /\ \A c, d \in Running' : c = d
    BY <2>1, <2>4, OnlyOne
  <2>6. Named(vtmp, vec, {"none"})' /\ Named(stmp, side, {"none", "vectors", "opens"})'
    BY <2>1, <2>2, <2>3 DEF Apart, Named
  <2> QED BY <2>1, <2>2, <2>3, <2>5, <2>6 DEF Apart
<1> QED BY <1>1

LEMMA ReplaceSidecarKeeps == ASSUME FilesInv, NEW b \in Builds, ReplaceSidecar(b) PROVE FilesInv'
<1> USE IndexAssumption DEF FilesInv, ReplaceSidecar, Moves, States, Contents
<1>1. ~overlapped => Apart'
  <2> SUFFICES ASSUME ~overlapped PROVE Apart'
    OBVIOUS
  <2>1. Apart /\ Phases(b) /\ \A c \in Builds : c # b => build[c] \in Resting
    BY OthersRest DEF Resting
  <2>2. stmp \in Builds /\ sdata[stmp] = b /\ vec # None /\ vdata[vec] = b
    BY <2>1 DEF Phases, Written
  <2>3. side' = stmp /\ stmp' = None /\ build'[b] = "cleans up"
    BY <2>2
  <2>4. Phases(b)'
    BY <2>2, <2>3 DEF Phases, Written
  <2>5. (\A c \in Builds : Phases(c)') /\ \A c, d \in Running' : c = d
    BY <2>1, <2>4, OnlyOne
  <2>6. Named(vtmp, vec, {"none"})' /\ Named(stmp, side, {"none", "vectors", "opens"})'
    BY <2>1, <2>2, <2>3 DEF Apart, Named
  <2> QED BY <2>1, <2>2, <2>3, <2>4, <2>5, <2>6 DEF Apart
<1> QED BY <1>1

(* A build that ends leaves the names it has not put in place to no one.   *)
LEMMA EndsKeep == ASSUME FilesInv, NEW b \in Builds, Fails(b) \/ Cleans(b) \/ Dies(b) PROVE FilesInv'
<1> USE IndexAssumption DEF FilesInv, Moves, States, Contents
<1>1. build' \in [Builds -> States] /\ \A c \in Builds : c # b => build'[c] = build[c]
  BY DEF Fails, Cleans, Dies
<1>2. UNCHANGED <<vfile, sfile, vec, side, vdata, sdata, overlapped>> /\ vtmp' \in {vtmp, None} /\ stmp' \in {stmp, None}
  BY DEF Fails, Cleans, Dies
<1>3. build[b] \notin Resting /\ build[b] # "none" /\ build'[b] \in {"cleans", "failed", "done", "dead"}
  BY DEF Fails, Cleans, Dies, Running, Resting
<1>4. ~overlapped => Apart'
  <2> SUFFICES ASSUME ~overlapped PROVE Apart'
    OBVIOUS
  <2>1. Apart /\ Phases(b) /\ \A c \in Builds : c # b => build[c] \in Resting
    BY <1>3, OthersRest
  <2>3. Phases(b)'
    BY <1>3 DEF Phases
  <2>4. (\A c \in Builds : Phases(c)') /\ \A c, d \in Running' : c = d
    BY <1>1, <2>1, <2>3, OnlyOne
  <2>7. Named(vtmp, vec, {"none"})' /\ Named(stmp, side, {"none", "vectors", "opens"})'
    <3>1. \A c \in Builds : build'[c] = build[c] \/ (build[c] \notin Resting /\ build'[c] \notin {"none", "vectors", "opens"})
      BY <1>1, <1>3
    <3>2. {vec, side, vtmp, stmp} \subseteq Builds \cup {None}
      OBVIOUS
    <3> QED BY <1>2, <2>1, <3>1, <3>2 DEF Apart, Named
  <2> QED BY <1>2, <2>1, <2>4, <2>7 DEF Apart
<1>5. {vtmp', stmp', vec', side'} \subseteq Builds \cup {None}
  BY <1>2
<1>6. vfile' = vfile /\ sfile' = sfile /\ vdata' = vdata /\ sdata' = sdata /\ overlapped' = overlapped
  BY <1>2
<1> HIDE DEF Moves
<1> QED BY <1>1, <1>4, <1>5, <1>6

LEMMA FilesStep == ASSUME FilesInv, [Next]_vars PROVE FilesInv'
<1>1. ASSUME NEW b \in Builds, Build(b) PROVE FilesInv'
  BY <1>1, OpenVectorsKeeps, WriteVectorsKeeps, OpenSidecarKeeps, WriteSidecarKeeps,
     ReplaceVectorsKeeps, ReplaceSidecarKeeps, EndsKeep DEF Build
<1>2. CASE UNCHANGED files
  <2>1. UNCHANGED <<build, vfile, sfile, vtmp, stmp, vec, side, vdata, sdata, overlapped>>
    BY <1>2 DEF files
  <2>2. UNCHANGED Apart
    BY <2>1 DEF Apart, Named, Phases, Written, Running, Whole, SideHas, VecHas
  <2> QED BY <2>1, <2>2 DEF FilesInv
<1>3. CASE Get \/ \E c \in Calls : Enter(c) \/ Return(c) \/ Leave(c) \/ Embed(c) \/ CallAgain(c)
  BY <1>2, <1>3 DEF Get, StatSidecar, StatVectors, Clear, Errs, OpenIndexJson, ReadSidecar, Parse, OpenIndexed, ReadVectors, Store,
                    Goes, Enter, Return, Leave, Embed, CallAgain
<1> QED BY <1>1, <1>2, <1>3 DEF Next, vars

LEMMA FilesInit == ASSUME Init PROVE FilesInv
<1>1. Running = {} /\ (\A b \in Builds : build[b] = "none")
  BY DEF Init, Running
<1>2. \A b \in Builds : Phases(b)
  BY <1>1 DEF Phases
<1>3. Apart
  BY <1>1, <1>2 DEF Init, Apart, Named
<1> QED BY <1>3 DEF Init, FilesInv, States, Contents

(* What FilesInv says of a step of one build, for each of its files.       *)
LEMMA VectorsReplaced ==
  ASSUME FilesInv, ~overlapped', NEW b \in Builds, Build(b)
  PROVE  /\ vec' # vec => \E c \in Builds : vdata'[vec'] = c /\ stmp' # None /\ sdata'[stmp'] = c
         /\ vec' = vec /\ vec # None => vdata'[vec] = vdata[vec]
<1> USE IndexAssumption DEF Moves
<1>1. Apart
  BY DEF FilesInv, Build, OpenVectors, WriteVectors, OpenSidecar, WriteSidecar, ReplaceVectors, ReplaceSidecar,
         Fails, Cleans, Dies
<1>2. CASE OpenVectors(b)
  BY <1>1, <1>2 DEF OpenVectors, Apart, Named, FilesInv
<1>3. CASE WriteVectors(b)
  <2>1. vfile[b] = vtmp /\ vtmp # None /\ vec' = vec
    BY <1>1, <1>3 DEF WriteVectors, Apart, Phases
  <2>2. PICK d : vdata' = [vdata EXCEPT ![vfile[b]] = d]
    BY <1>3 DEF WriteVectors
  <2> QED BY <1>1, <2>1, <2>2 DEF Apart, Named, FilesInv
<1>4. CASE ReplaceVectors(b)
  <2>1. Written(b, vtmp, vfile, vdata) /\ Written(b, stmp, sfile, sdata)
    BY <1>1, <1>4 DEF ReplaceVectors, BothWritten, Apart, Phases
  <2>2. vec' = vtmp /\ UNCHANGED <<vdata, sdata, stmp>>
    BY <1>4, <2>1 DEF ReplaceVectors, Written
  <2> QED BY <2>1, <2>2 DEF Written
<1>5. CASE OpenSidecar(b) \/ WriteSidecar(b) \/ ReplaceSidecar(b) \/ Fails(b) \/ Cleans(b) \/ Dies(b)
  BY <1>5 DEF OpenSidecar, WriteSidecar, ReplaceSidecar, Fails, Cleans, Dies
<1> QED BY <1>2, <1>3, <1>4, <1>5 DEF Build

LEMMA SidecarReplaced ==
  ASSUME FilesInv, ~overlapped', NEW b \in Builds, Build(b)
  PROVE  /\ side' # side => \E c \in Builds : Whole(c)'
         /\ side' = side /\ side # None => sdata'[side] = sdata[side]
<1> USE IndexAssumption DEF Moves
<1>1. Apart
  BY DEF FilesInv, Build, OpenVectors, WriteVectors, OpenSidecar, WriteSidecar, ReplaceVectors, ReplaceSidecar,
         Fails, Cleans, Dies
<1>2. CASE OpenSidecar(b)
  BY <1>1, <1>2 DEF OpenSidecar, Apart, Named, FilesInv
<1>3. CASE WriteSidecar(b)
  <2>1. sfile[b] = stmp /\ stmp # None /\ side' = side
    BY <1>1, <1>3 DEF WriteSidecar, Apart, Phases
  <2>2. PICK d : sdata' = [sdata EXCEPT ![sfile[b]] = d]
    BY <1>3 DEF WriteSidecar
  <2> QED BY <1>1, <2>1, <2>2 DEF Apart, Named, FilesInv
<1>4. CASE ReplaceSidecar(b)
  <2>1. Written(b, stmp, sfile, sdata) /\ vec # None /\ vdata[vec] = b
    BY <1>1, <1>4 DEF ReplaceSidecar, Apart, Phases
  <2>2. side' = stmp /\ UNCHANGED <<vdata, sdata, vec>>
    BY <1>4, <2>1 DEF ReplaceSidecar, Written
  <2> QED BY <2>1, <2>2 DEF Written, Whole, SideHas, VecHas
<1>5. CASE OpenVectors(b) \/ WriteVectors(b) \/ ReplaceVectors(b) \/ Fails(b) \/ Cleans(b) \/ Dies(b)
  BY <1>5 DEF OpenVectors, WriteVectors, ReplaceVectors, Fails, Cleans, Dies
<1> QED BY <1>2, <1>3, <1>4, <1>5 DEF Build

LEMMA BuildReplaces == ASSUME FilesInv, [Next]_vars, ~overlapped' PROVE Replaces
<1>1. ASSUME NEW b \in Builds, Build(b) PROVE Replaces
  <2>1. ASSUME NEW c \in Builds, build[c] # "done", build'[c] = "done" PROVE Whole(c)'
    <3>1. Cleans(b) /\ b = c /\ build[b] = "cleans up"
      BY <1>1, <2>1 DEF FilesInv, States, Build, Moves, OpenVectors, WriteVectors, OpenSidecar, WriteSidecar,
                        ReplaceVectors, ReplaceSidecar, BothWritten, Fails, Cleans, Dies
    <3>2. ~overlapped /\ UNCHANGED <<vec, side, vdata, sdata>>
      BY <3>1 DEF Cleans
    <3> QED BY <3>1, <3>2 DEF FilesInv, Apart, Phases, Whole, SideHas, VecHas
  <2> QED BY <1>1, <2>1, VectorsReplaced, SidecarReplaced DEF Replaces
<1>2. CASE UNCHANGED files
  BY <1>2 DEF files, Replaces
<1>3. CASE Get \/ \E c \in Calls : Enter(c) \/ Return(c) \/ Leave(c) \/ Embed(c) \/ CallAgain(c)
  BY <1>2, <1>3 DEF Get, StatSidecar, StatVectors, Clear, Errs, OpenIndexJson, ReadSidecar, Parse, OpenIndexed, ReadVectors,
                    Store, Goes, Enter, Return, Leave, Embed, CallAgain
<1> QED BY <1>1, <1>2, <1>3 DEF Next, vars

(* Any number of builds one after the other, with any deaths and errors:   *)
(* none touches a file in place but by a rename, the vectors' only once    *)
(* both files are written, the sidecar's only onto its own vectors, and    *)
(* one that ends well leaves its two files.                                *)
THEOREM BuildsAreWhole == Spec => BuildsReplaceWhole
<1>1. Init => FilesInv
  BY FilesInit
<1>2. FilesInv /\ [Next]_vars => [~overlapped' => Replaces]_vars
  BY BuildReplaces
<1> QED BY <1>1, <1>2, FilesStep, PTL DEF Spec, BuildsReplaceWhole
-----------------------------------------------------------------------------
(* What an index step reads: a build that has written both files changes   *)
(* none any more, so what is in a file of vectors was there when the       *)
(* sidecar was read; and a file whose stamp has not changed holds what it  *)
(* held.                                                                   *)
Wrote(b) == build[b] \notin {"none", "vectors", "opens", "sidecar"}

(* The cached index and what its stamps say of the two files.              *)
Stamped(b, f, t, g, u) ==
  /\ cached = [of |-> b, holds |-> b, stamps |-> <<<<f, t>>, <<g, u>>>>]
  /\ Wrote(b)
  /\ t <= stime[f] /\ (t = stime[f] => sdata[f] = b)
  /\ u <= vtime[g] /\ (u = vtime[g] => vdata[g] = b)
Kept == cached # Nothing => \E b, f, g \in Builds, t, u \in Nat : Stamped(b, f, t, g, u)

(* What load_index has open and has read so far.                           *)
Opened(f, t) == sstamp = <<f, t>> /\ t <= stime[f]
Sidecar(f, t) ==
  /\ Opened(f, t) /\ (t = stime[f] => sdata[f] = sread)
  /\ sread \in Contents /\ (at # "parsed" => sread # Part)
  /\ sread \in Builds => Wrote(sread)
Vectors(g, u) ==
  /\ vstamp = <<g, u>> /\ u <= vtime[g]
  /\ at = "read vectors" /\ vdata[g] = sread => sread \in during.vec
  /\ at = "check" => (u = vtime[g] => vdata[g] = vread) /\ (vread = sread => sread \in during.vec)
Loading ==
  /\ at = "read sidecar" => \E f \in Builds, t \in Nat : Opened(f, t)
  /\ at \in {"parsed", "open vectors", "read vectors", "check"} => \E f \in Builds, t \in Nat : Sidecar(f, t)
  /\ at \in {"read vectors", "check"} => \E g \in Builds, u \in Nat : Vectors(g, u)
  /\ at \in {"stat vectors", "got"} => cached # Nothing
  /\ at = "got" => cached.of \in during.vec

(* Whatever is there during an index step is seen.                         *)
Sees == holder # None => \A b \in Builds :
  (SideHas(b) => b \in during.side) /\ (VecHas(b) => b \in during.vec) /\ (Whole(b) => b \in during.both)

Stamps   == vtime \in [Builds -> Nat] /\ stime \in [Builds -> Nat]
Complete == \A f \in Builds : sdata[f] \in Builds => Wrote(sdata[f])
CurrentInv == Stamps /\ Complete /\ Sees /\ Kept /\ Loading

(* A build changes the stamp with the file, and a file never becomes what  *)
(* a build that has written both would have in it.                         *)
FileStep ==
  /\ Stamps' /\ UNCHANGED Elsewhere /\ Seen
  /\ \A c \in Builds : Wrote(c) => Wrote(c)'
  /\ \A f \in Builds : \/ vdata'[f] = vdata[f] /\ vtime'[f] = vtime[f]
                       \/ vtime'[f] = vtime[f] + 1 /\ \A c \in Builds : Wrote(c) => vdata'[f] # c
  /\ \A f \in Builds : \/ sdata'[f] = sdata[f] /\ stime'[f] = stime[f]
                       \/ stime'[f] = stime[f] + 1 /\ \A c \in Builds : sdata'[f] = c => ~Wrote(c) /\ Wrote(c)'

LEMMA VectorsChange ==
  ASSUME FilesInv, Stamps, NEW h, NEW d, d = Part \/ (d \in Builds /\ ~Wrote(d)),
         vdata' = [vdata EXCEPT ![h] = d], vtime' = [vtime EXCEPT ![h] = @ + 1]
  PROVE  /\ vtime' \in [Builds -> Nat]
         /\ \A f \in Builds : \/ vdata'[f] = vdata[f] /\ vtime'[f] = vtime[f]
                              \/ vtime'[f] = vtime[f] + 1 /\ \A c \in Builds : Wrote(c) => vdata'[f] # c
<1>1. vdata \in [Builds -> Contents] /\ vtime \in [Builds -> Nat] /\ Part \notin Builds
  BY IndexAssumption DEF FilesInv, Stamps
<1>2. vtime' \in [Builds -> Nat]
  <2>1. \A f \in Builds : vtime'[f] \in {vtime[f], vtime[f] + 1}
    BY <1>1
  <2>2. \A f \in Builds : vtime'[f] \in Nat
    BY <1>1, <2>1
  <2> QED BY <1>1, <2>2
<1>3. ASSUME NEW f \in Builds, f # h PROVE vdata'[f] = vdata[f] /\ vtime'[f] = vtime[f]
  BY <1>1, <1>3
<1>4. ASSUME NEW f \in Builds, f = h PROVE vtime'[f] = vtime[f] + 1 /\ vdata'[f] = d
  BY <1>1, <1>4
<1> QED BY <1>1, <1>2, <1>3, <1>4 DEF Wrote

LEMMA SidecarChange ==
  ASSUME FilesInv, Stamps, NEW h, NEW d, d = Part \/ (d \in Builds /\ ~Wrote(d) /\ Wrote(d)'),
         sdata' = [sdata EXCEPT ![h] = d], stime' = [stime EXCEPT ![h] = @ + 1]
  PROVE  /\ stime' \in [Builds -> Nat]
         /\ \A f \in Builds : \/ sdata'[f] = sdata[f] /\ stime'[f] = stime[f]
                              \/ stime'[f] = stime[f] + 1 /\ \A c \in Builds : sdata'[f] = c => ~Wrote(c) /\ Wrote(c)'
<1>1. sdata \in [Builds -> Contents] /\ stime \in [Builds -> Nat] /\ Part \notin Builds
  BY IndexAssumption DEF FilesInv, Stamps
<1>2. stime' \in [Builds -> Nat]
  <2>1. \A f \in Builds : stime'[f] \in {stime[f], stime[f] + 1}
    BY <1>1
  <2>2. \A f \in Builds : stime'[f] \in Nat
    BY <1>1, <2>1
  <2> QED BY <1>1, <2>2
<1>3. ASSUME NEW f \in Builds, f # h PROVE sdata'[f] = sdata[f] /\ stime'[f] = stime[f]
  BY <1>1, <1>3
<1>4. ASSUME NEW f \in Builds, f = h PROVE stime'[f] = stime[f] + 1 /\ sdata'[f] = d
  BY <1>1, <1>4
<1> QED BY <1>1, <1>2, <1>3, <1>4 DEF Wrote

LEMMA BuildFileStep == ASSUME FilesInv, Stamps, NEW b \in Builds, Build(b) PROVE FileStep
<1>1. UNCHANGED Elsewhere /\ Seen
  BY DEF Build, OpenVectors, WriteVectors, OpenSidecar, WriteSidecar, ReplaceVectors, ReplaceSidecar, Fails, Cleans, Dies
<1>2. \A c \in Builds : Wrote(c) => Wrote(c)'
  BY DEF FilesInv, Wrote, Build, Moves, OpenVectors, WriteVectors, OpenSidecar, WriteSidecar, ReplaceVectors,
         ReplaceSidecar, BothWritten, Fails, Cleans, Dies
<1>3. CASE OpenVectors(b)
  <2>1. PICK h : vdata' = [vdata EXCEPT ![h] = Part] /\ vtime' = [vtime EXCEPT ![h] = @ + 1]
    BY <1>3 DEF OpenVectors
  <2> QED BY <1>1, <1>2, <1>3, <2>1, VectorsChange DEF OpenVectors, FileStep, Stamps
<1>4. CASE WriteVectors(b)
  <2>1. PICK d \in After(b, vfile, "vectors", vdata) : vdata' = [vdata EXCEPT ![vfile[b]] = d]
    BY <1>4 DEF WriteVectors
  <2>2. d = Part \/ (d \in Builds /\ ~Wrote(d))
    BY <1>4 DEF WriteVectors, After, Wrote, Moves
  <2> QED BY <1>1, <1>2, <1>4, <2>1, <2>2, VectorsChange DEF WriteVectors, FileStep, Stamps
<1>5. CASE OpenSidecar(b)
  <2>1. PICK h : sdata' = [sdata EXCEPT ![h] = Part] /\ stime' = [stime EXCEPT ![h] = @ + 1]
    BY <1>5 DEF OpenSidecar
  <2> QED BY <1>1, <1>2, <1>5, <2>1, SidecarChange DEF OpenSidecar, FileStep, Stamps
<1>6. CASE WriteSidecar(b)
  <2>1. PICK d \in After(b, sfile, "sidecar", sdata) : sdata' = [sdata EXCEPT ![sfile[b]] = d]
    BY <1>6 DEF WriteSidecar
  <2>2. d = Part \/ (d \in Builds /\ ~Wrote(d) /\ Wrote(d)')
    BY <1>6 DEF WriteSidecar, After, Wrote, Moves, FilesInv
  <2> QED BY <1>1, <1>2, <1>6, <2>1, <2>2, SidecarChange DEF WriteSidecar, FileStep, Stamps
<1>7. CASE ReplaceVectors(b) \/ ReplaceSidecar(b) \/ Fails(b) \/ Cleans(b) \/ Dies(b)
  <2>1. UNCHANGED <<vdata, sdata, vtime, stime>>
    BY <1>7 DEF ReplaceVectors, ReplaceSidecar, Fails, Cleans, Dies
  <2> QED BY <1>1, <1>2, <2>1 DEF FileStep, Stamps
<1> QED BY <1>3, <1>4, <1>5, <1>6, <1>7 DEF Build

LEMMA SeenSees == ASSUME Seen, holder' = holder, holder # None PROVE Sees'
BY DEF Seen, Sees, And, Present

LEMMA SeenGrows ==
  ASSUME Seen, holder # None
  PROVE  during.side \subseteq during'.side /\ during.vec \subseteq during'.vec /\ during.both \subseteq during'.both
BY DEF Seen, And

LEMMA BuildCurrent == ASSUME FilesInv, MemoryInv, CurrentInv, NEW b \in Builds, Build(b) PROVE CurrentInv'
<1>1. FileStep
  BY BuildFileStep DEF CurrentInv
<1>2. UNCHANGED <<holder, at, again, sread, sstamp, vread, vstamp, cached>> /\ Seen /\ Stamps'
  BY <1>1 DEF FileStep, Elsewhere, load
<1>3. Complete'
  <2> SUFFICES ASSUME NEW f \in Builds, NEW c \in Builds, sdata'[f] = c PROVE Wrote(c)'
    BY DEF Complete, Wrote
  <2> QED BY <1>1 DEF FileStep, CurrentInv, Complete
<1>4. Sees'
  BY <1>2, SeenSees DEF Sees
<1>5. Kept'
  <2> SUFFICES ASSUME cached # Nothing PROVE Kept'
    BY <1>2 DEF Kept, Nothing
  <2>1. PICK c, f, g \in Builds, t, u \in Nat : Stamped(c, f, t, g, u)
    BY DEF CurrentInv, Kept
  <2>2. Wrote(c)' /\ (t <= stime'[f] /\ (t = stime'[f] => sdata'[f] = c)) /\ u <= vtime'[g] /\ (u = vtime'[g] => vdata'[g] = c)
    BY <1>1, <2>1 DEF FileStep, Stamped, CurrentInv, Stamps
  <2>3. Stamped(c, f, t, g, u)'
    BY <1>2, <2>1, <2>2 DEF Stamped
  <2> QED BY <2>3 DEF Kept
<1>6. Loading'
  <2> SUFFICES ASSUME holder # None PROVE Loading'
    BY <1>2 DEF MemoryInv, Loading
  <2>1. during.vec \subseteq during'.vec
    BY <1>2, SeenGrows
  <2>0. ASSUME NEW f \in Builds, NEW t \in Nat, Opened(f, t) PROVE Opened(f, t)'
    BY <1>1, <1>2, <2>0 DEF FileStep, Opened, CurrentInv, Stamps
  <2>2. ASSUME NEW f \in Builds, NEW t \in Nat, Sidecar(f, t) PROVE Sidecar(f, t)'
    <3>1. Opened(f, t)' /\ (t = stime'[f] => sdata'[f] = sread)
      BY <1>1, <2>0, <2>2 DEF FileStep, Sidecar, Opened, CurrentInv, Stamps
    <3>2. sread \in Builds => Wrote(sread)'
      BY <1>1, <1>2, <2>2 DEF FileStep, Sidecar, Wrote
    <3> QED BY <1>2, <2>2, <3>1, <3>2 DEF Sidecar, Wrote
  <2>3. ASSUME at \in {"read vectors", "check"}, NEW g \in Builds, NEW u \in Nat, Vectors(g, u)
        PROVE  Vectors(g, u)'
    <3>1. PICK f \in Builds, t \in Nat : Sidecar(f, t)
      BY <2>3 DEF CurrentInv, Loading
    <3>2. Wrote(sread) /\ sread \in Builds
      BY <2>3, <3>1 DEF Sidecar, Contents
    <3>3. u <= vtime'[g] /\ (u = vtime'[g] => u = vtime[g] /\ vdata'[g] = vdata[g])
      <4>1. vtime[g] \in Nat /\ u <= vtime[g]
        BY <2>3 DEF Vectors, CurrentInv, Stamps
      <4>2. (vdata'[g] = vdata[g] /\ vtime'[g] = vtime[g]) \/ vtime'[g] = vtime[g] + 1
        BY <1>1 DEF FileStep
      <4> QED BY <4>1, <4>2
    <3>4. vdata'[g] = sread => vdata[g] = sread
      BY <1>1, <3>2 DEF FileStep
    <3>5. vstamp' = vstamp /\ at' = at /\ vread' = vread /\ sread' = sread
      BY <1>2
    <3>6. vstamp = <<g, u>>
      BY <2>3 DEF Vectors
    <3>7. at = "read vectors" /\ vdata'[g] = sread => sread \in during'.vec
      BY <2>1, <2>3, <3>4 DEF Vectors
    <3>8. at = "check" => (u = vtime'[g] => vdata'[g] = vread) /\ (vread = sread => sread \in during'.vec)
      BY <2>1, <2>3, <3>3 DEF Vectors
    <3> QED BY <3>3, <3>5, <3>6, <3>7, <3>8 DEF Vectors
  <2> QED BY <1>2, <2>0, <2>1, <2>2, <2>3 DEF CurrentInv, Loading
<1> QED BY <1>2, <1>3, <1>4, <1>5, <1>6 DEF CurrentInv

(* What was read so far is kept while the call goes on.                    *)
LEMMA SidecarStays ==
  ASSUME NEW f \in Builds, NEW t \in Nat, Sidecar(f, t), UNCHANGED files,
         sread' = sread, sstamp' = sstamp, at' # "parsed" => sread # Part
  PROVE  Sidecar(f, t)'
<1>1. UNCHANGED <<build, stime, sdata>>
  BY DEF files
<1> QED BY <1>1 DEF Sidecar, Opened, Wrote

(* The cached index is got if both stamps are those of the files there.    *)
LEMMA GetCurrent == ASSUME FilesInv, MemoryInv, CurrentInv, Get PROVE CurrentInv'
<1>1. holder # None /\ holder' = holder /\ Seen /\ UNCHANGED files
  BY DEF Get, StatSidecar, StatVectors, Clear, Errs, OpenIndexJson, ReadSidecar, Parse, OpenIndexed, ReadVectors, Store, Goes
<1>2. UNCHANGED <<build, side, vec, sdata, vdata, stime, vtime>>
  BY <1>1 DEF files
<1>3. Stamps' /\ Complete'
  BY <1>2 DEF CurrentInv, Stamps, Complete, Wrote
<1>4. Sees'
  BY <1>1, SeenSees
<1>5. during.vec \subseteq during'.vec
  BY <1>1, SeenGrows
<1>6. cached' = cached => Kept'
  <2> SUFFICES ASSUME cached' = cached, cached # Nothing PROVE Kept'
    BY DEF Kept, Nothing
  <2>1. PICK c, f, g \in Builds, t, u \in Nat : Stamped(c, f, t, g, u)
    BY DEF CurrentInv, Kept
  <2>2. Stamped(c, f, t, g, u)'
    BY <1>2, <2>1 DEF Stamped, Wrote
  <2> QED BY <2>2 DEF Kept
<1>7. CASE StatSidecar
  <2>1. cached' = cached /\ at' \in {"stat vectors", "clear"}
    BY <1>7 DEF StatSidecar, Goes
  <2>2. at' = "stat vectors" => cached # Nothing
    BY <1>7 DEF StatSidecar, Goes
  <2>3. Loading'
    BY <2>1, <2>2 DEF Loading
  <2> QED BY <1>3, <1>4, <1>6, <2>1, <2>3 DEF CurrentInv
<1>8. CASE StatVectors
  <2>1. cached' = cached /\ at' \in {"got", "clear"} /\ at = "stat vectors"
    BY <1>8 DEF StatVectors, Goes
  <2>2. cached # Nothing
    BY <2>1 DEF CurrentInv, Loading
  <2>3. ASSUME at' = "got" PROVE cached.of \in during'.vec
    <3>1. cached.stamps[2] = Stamp(vec, vtime)
      BY <1>8, <2>3 DEF StatVectors, Goes
    <3>2. PICK c, f, g \in Builds, t, u \in Nat : Stamped(c, f, t, g, u)
      BY <2>2 DEF CurrentInv, Kept
    <3>3. <<g, u>> = Stamp(vec, vtime) /\ cached.of = c
      BY <3>1, <3>2 DEF Stamped
    <3>4. vec = g /\ u = vtime[g] /\ g # None
      BY <3>3, IndexAssumption DEF Stamp
    <3>5. VecHas(c)
      BY <3>2, <3>4 DEF Stamped, VecHas
    <3> QED BY <1>1, <1>5, <3>3, <3>5 DEF CurrentInv, Sees
  <2>4. Loading'
    BY <2>1, <2>2, <2>3 DEF Loading
  <2> QED BY <1>3, <1>4, <1>6, <2>1, <2>4 DEF CurrentInv
<1>9. CASE Clear \/ Errs
  <2>1. at' \in {"open", "error"} /\ (cached' = cached \/ cached' = Nothing)
    BY <1>9 DEF Clear, Cleared, Errs, Goes
  <2>2. Loading' /\ Kept'
    BY <1>6, <2>1 DEF Loading, Kept, Nothing
  <2> QED BY <1>3, <1>4, <2>2 DEF CurrentInv
<1>15. CASE OpenIndexJson
  <2>1. cached' = cached /\ at' = "read sidecar" /\ side \in Builds /\ sstamp' = <<side, stime[side]>>
    BY <1>15 DEF OpenIndexJson, Goes, Stamp, FilesInv
  <2>2. stime[side] \in Nat
    BY <2>1 DEF CurrentInv, Stamps
  <2>3. ASSUME NEW f \in Builds, NEW t \in Nat, f = side, t = stime[side] PROVE Opened(f, t)'
    <3>1. sstamp' = <<f, t>>
      BY <2>1, <2>3, Zenon
    <3>2. t <= stime'[f]
      BY <1>2, <2>3
    <3> QED BY <3>1, <3>2 DEF Opened
  <2>4. Loading'
    BY <2>1, <2>2, <2>3 DEF Loading
  <2> QED BY <1>3, <1>4, <1>6, <2>1, <2>4 DEF CurrentInv
<1>10. CASE ReadSidecar
  <2>1. cached' = cached /\ at = "read sidecar" /\ at' = "parsed" /\ sread' = sdata[sstamp[1]] /\ sstamp' = sstamp
    BY <1>10 DEF ReadSidecar, Goes
  <2>2. PICK f \in Builds, t \in Nat : Opened(f, t)
    BY <2>1 DEF CurrentInv, Loading
  <2>3. sread' = sdata[f] /\ sread' \in Contents
    BY <2>1, <2>2 DEF Opened, FilesInv
  <2>4. sread' \in Builds => Wrote(sread')
    BY <2>3 DEF CurrentInv, Complete
  <2>5. Sidecar(f, t)'
    BY <1>2, <2>1, <2>2, <2>3, <2>4 DEF Sidecar, Opened, Wrote
  <2>6. Loading'
    BY <1>2, <2>1, <2>5 DEF Loading
  <2> QED BY <1>3, <1>4, <1>6, <2>1, <2>6 DEF CurrentInv
<1>11. CASE Parse
  <2>1. cached' = cached /\ at = "parsed" /\ at' \in {"error", "open vectors"}
        /\ (at' = "open vectors" => sread # Part /\ sread' = sread /\ sstamp' = sstamp)
    BY <1>11 DEF Parse, Goes, load
  <2>2. at' = "open vectors" => \E f \in Builds, t \in Nat : Sidecar(f, t)'
    BY <1>1, <2>1, SidecarStays DEF CurrentInv, Loading
  <2>3. Loading'
    BY <2>1, <2>2 DEF Loading
  <2> QED BY <1>3, <1>4, <1>6, <2>1, <2>3 DEF CurrentInv
<1>12. CASE OpenIndexed
  <2>1. /\ cached' = cached /\ at = "open vectors" /\ at' = "read vectors" /\ vec \in Builds
        /\ sread' = sread /\ sstamp' = sstamp /\ vstamp' = <<vec, vtime[vec]>>
    BY <1>12 DEF OpenIndexed, Goes, Stamp, FilesInv
  <2>2. PICK f \in Builds, t \in Nat : Sidecar(f, t)
    BY <2>1 DEF CurrentInv, Loading
  <2>3. sread \in Builds /\ Sidecar(f, t)'
    BY <1>1, <2>1, <2>2, SidecarStays DEF Sidecar, Contents
  <2>4. vdata[vec] = sread => sread \in during'.vec
    BY <1>1, <1>5, <2>1, <2>3, IndexAssumption DEF VecHas, CurrentInv, Sees
  <2>5. \E g \in Builds, u \in Nat : Vectors(g, u)'
    <3>1. vtime[vec] \in Nat
      BY <2>1 DEF CurrentInv, Stamps
    <3>2. ASSUME NEW g \in Builds, NEW u \in Nat, g = vec, u = vtime[vec] PROVE Vectors(g, u)'
      <4>1. vstamp' = <<g, u>>
        BY <2>1, <3>2, Zenon
      <4>2. u <= vtime'[g]
        BY <1>2, <3>2
      <4>3. at' = "read vectors" /\ vdata'[g] = sread' => sread' \in during'.vec
        BY <1>2, <2>1, <2>4, <3>2
      <4> QED BY <2>1, <4>1, <4>2, <4>3 DEF Vectors
    <3> QED BY <2>1, <3>1, <3>2
  <2>6. Loading'
    BY <1>2, <2>1, <2>3, <2>5 DEF Loading
  <2> QED BY <1>3, <1>4, <1>6, <2>1, <2>6 DEF CurrentInv
<1>13. CASE ReadVectors
  <2>1. /\ cached' = cached /\ at = "read vectors" /\ at' = "check" /\ vread' = vdata[vstamp[1]]
        /\ sread' = sread /\ sstamp' = sstamp /\ vstamp' = vstamp
    BY <1>13 DEF ReadVectors, Goes
  <2>2. PICK f \in Builds, t \in Nat : Sidecar(f, t)
    BY <2>1 DEF CurrentInv, Loading
  <2>3. Sidecar(f, t)'
    BY <1>1, <2>1, <2>2, SidecarStays DEF Sidecar
  <2>4. PICK g \in Builds, u \in Nat : Vectors(g, u)
    BY <2>1 DEF CurrentInv, Loading
  <2>5. Vectors(g, u)'
    BY <1>2, <1>5, <2>1, <2>4 DEF Vectors
  <2>6. Loading'
    BY <2>1, <2>3, <2>5 DEF Loading
  <2> QED BY <1>3, <1>4, <1>6, <2>1, <2>6 DEF CurrentInv
<1>14. CASE Store
  <2>1. PICK f \in Builds, t \in Nat : Sidecar(f, t)
    BY <1>14 DEF CurrentInv, Loading, Store, Goes
  <2>2. PICK g \in Builds, u \in Nat : Vectors(g, u)
    BY <1>14 DEF CurrentInv, Loading, Store, Goes
  <2>3. at = "check" /\ at' \in {"got", "error"} /\ (at' = "got" <=> Matches)
    BY <1>14 DEF Store, Goes
  <2>4. ~Matches => cached' = cached
    BY <1>14 DEF Store
  <2>5. ASSUME Matches PROVE Kept' /\ Loading'
    <3>1. cached' = [of |-> sread, holds |-> sread, stamps |-> <<<<f, t>>, <<g, u>>>>]
      BY <1>14, <2>1, <2>2, <2>5 DEF Store, Matches, StampOpen, Sidecar, Opened, Vectors
    <3>2. sread \in Builds /\ Wrote(sread) /\ sread \in during.vec
      BY <2>1, <2>2, <2>3, <2>5 DEF Sidecar, Vectors, Contents, Matches
    <3>3. t <= stime[f] /\ (t = stime[f] => sdata[f] = sread) /\ u <= vtime[g] /\ (u = vtime[g] => vdata[g] = sread)
      BY <2>1, <2>2, <2>3, <2>5 DEF Sidecar, Opened, Vectors, Matches
    <3>4. ASSUME NEW c \in Builds, c = sread PROVE Stamped(c, f, t, g, u)'
      BY <1>2, <3>1, <3>2, <3>3, <3>4 DEF Stamped, Wrote
    <3>5. Kept'
      BY <3>2, <3>4 DEF Kept
    <3>6. cached' # Nothing /\ cached'.of = sread
      BY <3>1, <3>2, IndexAssumption DEF Nothing
    <3> QED BY <1>5, <2>3, <2>5, <3>2, <3>5, <3>6 DEF Loading
  <2>6. ~Matches => Loading'
    BY <2>3 DEF Loading
  <2> QED BY <1>3, <1>4, <1>6, <2>4, <2>5, <2>6 DEF CurrentInv
<1> QED BY <1>7, <1>8, <1>9, <1>10, <1>11, <1>12, <1>13, <1>14, <1>15 DEF Get

(* An index step begins with what is there, and leaves nothing behind.     *)
LEMMA CallCurrent ==
  ASSUME FilesInv, MemoryInv, CurrentInv,
         UNCHANGED vars \/ \E c \in Calls : Enter(c) \/ Return(c) \/ Leave(c) \/ Embed(c) \/ CallAgain(c)
  PROVE  CurrentInv'
<1>1. UNCHANGED files /\ UNCHANGED cached
  BY DEF vars, Enter, Return, Leave, Embed, CallAgain
<1>2. UNCHANGED <<build, side, vec, sdata, vdata, stime, vtime>>
  BY <1>1 DEF files
<1>3. Stamps' /\ Complete' /\ Kept'
  BY <1>1, <1>2 DEF CurrentInv, Stamps, Complete, Kept, Stamped, Wrote, Nothing
<1>4. CASE UNCHANGED vars \/ \E c \in Calls : Leave(c) \/ Embed(c) \/ CallAgain(c)
  <2>1. UNCHANGED <<holder, at, during, sread, sstamp, vread, vstamp>>
    BY <1>4 DEF vars, load, Leave, Embed, CallAgain
  <2>2. Sees' /\ Loading'
    BY <1>1, <1>2, <2>1 DEF CurrentInv, Sees, SideHas, VecHas, Whole, Loading, Sidecar, Opened, Vectors, Wrote, Nothing
  <2> QED BY <1>3, <2>2 DEF CurrentInv
<1>5. ASSUME NEW c \in Calls, Enter(c) PROVE CurrentInv'
  <2>1. during' = Present /\ at' = "stat"
    BY <1>5 DEF Enter
  <2>2. Sees' /\ Loading'
    BY <1>2, <2>1 DEF Sees, Present, SideHas, VecHas, Whole, Loading
  <2> QED BY <1>3, <2>2 DEF CurrentInv
<1>6. ASSUME NEW c \in Calls, Return(c) PROVE CurrentInv'
  BY <1>3, <1>6 DEF Return, Sees, Loading, CurrentInv
<1> QED BY <1>4, <1>5, <1>6

LEMMA CurrentStep == ASSUME FilesInv, MemoryInv, CurrentInv, [Next]_vars PROVE CurrentInv'
BY BuildCurrent, GetCurrent, CallCurrent DEF Next
-----------------------------------------------------------------------------
(* Why the two files were there together.  An index that is in place may   *)
(* have its vectors still in the temporary file, put there by a build that *)
(* follows the one whose rename it was; with no third build, nothing then  *)
(* takes its sidecar away before its vectors are in place or gone.  That   *)
(* is so even while its writer is not done with the sidecar in place.      *)
InTmp(b)  == vtmp # None /\ vdata[vtmp] = b
Writes(b) == build[b] = "sidecar" /\ side # None /\ sfile[b] = side
Placed(b) == SideHas(b) \/ Writes(b)
NamesInv ==
  /\ Named(vtmp, vec, {"none"}) /\ Named(stmp, side, {"none", "vectors", "opens"})
  /\ \A b \in Builds : InTmp(b) => build[b] \in {"opens", "sidecar", "vectors written", "cleans", "dead"}
Two ==
  /\ \A b, c, d \in Running : b = c \/ c = d \/ b = d
  /\ \A b \in Builds : InTmp(b) =>
       /\ \A c, d \in Running \ {b} : c = d
       /\ Placed(b) =>
            \A c \in Builds \ {b} :
              build[c] \notin {"vectors", "opens", "sidecar", "vectors written", "sidecar written"}
  /\ \A b, c \in Builds : Writes(b) /\ b # c /\ build[c] = "sidecar written" => ~VecHas(b)

(* Of a build whose sidecar was there: its vectors were there with it, or  *)
(* are still to come while it is, or will never be.                        *)
Gone(b) == ~VecHas(b) /\ ~InTmp(b)
Possible(b) ==
  \/ b \in during.both
  \/ SideHas(b) /\ InTmp(b)
  \/ Gone(b)

(* The open sidecar: what is in it, and what its writer may still put      *)
(* there once another is in its place.                                     *)
Reading(f) ==
  /\ f \in Builds /\ f # stmp /\ build[f] \notin {"none", "vectors", "opens"}
  /\ \A b \in Builds : sdata[f] = b => Possible(b)
  /\ \A b \in Builds : build[b] = "sidecar" /\ sfile[b] = f /\ side # f => Gone(b)
Together ==
  /\ at = "read sidecar" => Reading(sstamp[1])
  /\ at \in {"parsed", "open vectors"} /\ sread \in Builds => Possible(sread)
  /\ at = "read vectors" /\ vdata[vstamp[1]] = sread => sread \in during.both
  /\ at = "check" /\ vread = sread => sread \in during.both
  /\ at = "stat vectors" => Possible(cached.of)
  /\ at = "got" => cached.of \in during.both
TogetherInv == crowded \in BOOLEAN /\ NamesInv /\ (~crowded => Two /\ Together)

(* A name stands for a file that its build has opened.                     *)
LEMMA NamesStep == ASSUME FilesInv, NamesInv, NEW b \in Builds, Build(b) PROVE NamesInv'
<1> USE IndexAssumption DEF FilesInv, NamesInv, Moves
<1>1. Named(vtmp, vec, {"none"})' /\ Named(stmp, side, {"none", "vectors", "opens"})'
  <2> USE DEF Named
  <2>1. CASE OpenVectors(b)
    BY <2>1 DEF OpenVectors
  <2>2. CASE OpenSidecar(b)
    BY <2>2 DEF OpenSidecar
  <2>3. CASE ~OpenVectors(b) /\ ~OpenSidecar(b)
    <3>1. \A c \in Builds : build'[c] = build[c] \/ build'[c] \notin {"none", "vectors", "opens"}
                                                 \/ (build'[c] = "opens" /\ build[c] = "vectors")
      BY <2>3 DEF Build, WriteVectors, WriteSidecar, ReplaceVectors, ReplaceSidecar, BothWritten, Fails, Cleans, Dies
    <3>2. /\ <<vec', vtmp'>> \in {<<vec, vtmp>>, <<vtmp, None>>, <<vec, None>>}
          /\ <<side', stmp'>> \in {<<side, stmp>>, <<stmp, None>>, <<side, None>>}
      BY <2>3 DEF Build, WriteVectors, WriteSidecar, ReplaceVectors, ReplaceSidecar, Fails, Cleans, Dies
    <3>3. {vec, side, vtmp, stmp} \subseteq Builds \cup {None}
      OBVIOUS
    <3> QED BY <3>1, <3>2, <3>3
  <2> QED BY <2>1, <2>2, <2>3
<1>2. ASSUME NEW c \in Builds, InTmp(c)'
      PROVE  build'[c] \in {"opens", "sidecar", "vectors written", "cleans", "dead"}
  <2> USE <1>2 DEF InTmp
  <2>1. CASE OpenVectors(b)
    BY <2>1 DEF OpenVectors
  <2>2. CASE WriteVectors(b)
    <3>1. PICK d \in {b, Part} : vdata' = [vdata EXCEPT ![vfile[b]] = d]
      BY <2>2 DEF WriteVectors, After
    <3>2. c = b \/ InTmp(c)
      BY <2>2, <3>1 DEF WriteVectors
    <3> QED BY <2>2, <3>2 DEF WriteVectors
  <2>3. CASE OpenSidecar(b) \/ WriteSidecar(b)
    BY <2>3 DEF OpenSidecar, WriteSidecar
  <2>4. CASE ReplaceVectors(b) \/ ReplaceSidecar(b)
    BY <2>4 DEF ReplaceVectors, ReplaceSidecar, BothWritten
  <2>5. CASE Fails(b) \/ Cleans(b) \/ Dies(b)
    BY <2>5 DEF Fails, Cleans, Dies, Running
  <2> QED BY <2>1, <2>2, <2>3, <2>4, <2>5 DEF Build
<1> QED BY <1>1, <1>2

(* With no third build, the vectors in place are not those of a build that *)
(* still writes to the sidecar in place once the other's sidecar follows.  *)
LEMMA WritesStep ==
  ASSUME FilesInv, NamesInv, Two, NEW b \in Builds, Build(b), ~crowded',
         NEW c \in Builds, NEW d \in Builds, Writes(c)', c # d, build'[d] = "sidecar written"
  PROVE  ~VecHas(c)'
<1> USE IndexAssumption DEF FilesInv, Moves
<1>1. build'[c] = "sidecar" /\ side' # None /\ sfile'[c] = side'
  BY DEF Writes
<1>2. \A x \in Builds : x # b => build'[x] = build[x]
  BY DEF Build, OpenVectors, WriteVectors, OpenSidecar, WriteSidecar, ReplaceVectors, ReplaceSidecar, BothWritten,
         Fails, Cleans, Dies
<1>3. \A x, y, z \in Running : x = y \/ y = z \/ x = z
  BY DEF Two
<1>4. CASE OpenVectors(b)
  <2>1. b # c /\ b # d /\ build[c] = "sidecar" /\ build[d] = "sidecar written"
    BY <1>1, <1>2, <1>4 DEF OpenVectors
  <2>2. c \in Running /\ d \in Running
    BY <2>1 DEF Running
  <2> QED BY <1>4, <2>2 DEF OpenVectors
<1>5. CASE OpenSidecar(b)
  <2>1. side' = side /\ stmp' # side' /\ stmp' # None /\ sfile'[b] = stmp' /\ b # d /\ UNCHANGED <<vec, vdata>>
    BY <1>5, NamesStep DEF OpenSidecar, NamesInv, Named
  <2>2. c # b /\ build[c] = "sidecar" /\ sfile[c] = side /\ build[d] = "sidecar written"
    BY <1>1, <1>2, <1>5, <2>1 DEF OpenSidecar
  <2> QED BY <1>1, <2>1, <2>2 DEF Two, Writes, VecHas
<1>6. CASE ReplaceSidecar(b)
  <2>1. build[b] = "sidecar written" /\ b # c /\ b # d
    BY <1>1, <1>6 DEF ReplaceSidecar
  <2>2. b \in Running /\ c \in Running /\ d \in Running
    BY <1>1, <1>2, <2>1 DEF Running
  <2> QED BY <1>3, <2>1, <2>2
<1>7. CASE ReplaceVectors(b)
  <2>1. build[b] = "vectors written" /\ b # c /\ UNCHANGED <<side, sfile, vdata>>
    BY <1>1, <1>7 DEF ReplaceVectors, BothWritten
  <2>2. Writes(c)
    BY <1>1, <1>2, <2>1 DEF Writes
  <2>3. CASE b = d
    <3>1. ~InTmp(c)
      BY <2>1, <2>2 DEF Two, Placed
    <3>2. vec' = vtmp
      BY <1>7, <2>3 DEF ReplaceVectors
    <3> QED BY <2>1, <3>1, <3>2 DEF VecHas, InTmp
  <2>4. CASE b # d
    <3>1. b \in Running /\ c \in Running /\ d \in Running
      BY <1>1, <1>2, <2>1, <2>4 DEF Running
    <3> QED BY <1>3, <2>1, <2>4, <3>1
  <2> QED BY <2>3, <2>4
<1>8. CASE WriteVectors(b)
  <2>1. PICK v \in {b, Part} : vdata' = [vdata EXCEPT ![vfile[b]] = v]
    BY <1>8 DEF WriteVectors, After
  <2>2. b # c /\ b # d /\ UNCHANGED <<side, sfile, vec>>
    BY <1>1, <1>8 DEF WriteVectors
  <2>3. Writes(c) /\ build[d] = "sidecar written"
    BY <1>1, <1>2, <2>2 DEF Writes
  <2>4. ~VecHas(c)
    BY <2>3 DEF Two
  <2>5. v # c
    BY <2>1, <2>2
  <2> QED BY <2>1, <2>2, <2>4, <2>5 DEF VecHas
<1>9. CASE WriteSidecar(b) \/ Fails(b) \/ Cleans(b) \/ Dies(b)
  <2>1. b # c /\ b # d /\ UNCHANGED <<side, sfile, vec, vdata>>
    BY <1>1, <1>9 DEF WriteSidecar, Fails, Cleans, Dies
  <2> QED BY <1>1, <1>2, <2>1 DEF Two, Writes, VecHas
<1> QED BY <1>4, <1>5, <1>6, <1>7, <1>8, <1>9 DEF Build

(* With no third build, a build whose vectors are in the temporary file    *)
(* and whose sidecar is in place is not written over.                      *)
LEMMA TwoStep ==
  ASSUME FilesInv, NamesInv, Complete, crowded \in BOOLEAN, ~crowded => Two, NEW b \in Builds, Build(b), ~crowded'
  PROVE  Two'
<1> USE IndexAssumption DEF FilesInv, Moves
<1> DEFINE Writing == {"vectors", "opens", "sidecar", "vectors written", "sidecar written"}
           Fewer(c) == \A d, e \in Running \ {c} : d = e
           Alone(c) == \A d \in Builds \ {c} : build[d] \notin Writing
<1>1. ~crowded /\ Two
  BY DEF Build, OpenVectors, WriteVectors, OpenSidecar, WriteSidecar, ReplaceVectors, ReplaceSidecar, Fails, Cleans, Dies
<1>0. \A c, d \in Builds : Writes(c)' /\ c # d /\ build'[d] = "sidecar written" => ~VecHas(c)'
  BY <1>1, WritesStep
<1>2. CASE OpenVectors(b)
  <2>1. \A c, d \in Running : c = d
    BY <1>2 DEF OpenVectors
  <2>2. Running' \subseteq Running \cup {b}
    BY <1>2 DEF OpenVectors, Running
  <2>3. \A c \in Builds : ~InTmp(c)'
    BY <1>2 DEF OpenVectors, InTmp
  <2>4. \A c, d, e \in Running' : c = d \/ d = e \/ c = e
    <3>1. \A c \in Running' : c = b \/ c \in Running
      BY <2>2
    <3> QED BY <2>1, <3>1
  <2> QED BY <1>0, <2>3, <2>4 DEF Two
<1>3. CASE ~OpenVectors(b)
  <2>1. Running' \subseteq Running /\ \A c \in Builds : c # b => build'[c] = build[c]
    BY <1>3 DEF Build, WriteVectors, OpenSidecar, WriteSidecar, ReplaceVectors, ReplaceSidecar, BothWritten,
                Fails, Cleans, Dies, Running
  <2>2. \A c, d, e \in Running' : c = d \/ d = e \/ c = e
    BY <1>1, <2>1 DEF Two
  <2>3. \A c \in Builds : build'[c] \in Writing => build[c] \in Writing
    BY <1>3 DEF Build, WriteVectors, OpenSidecar, WriteSidecar, ReplaceVectors, ReplaceSidecar, BothWritten,
                Fails, Cleans, Dies
  <2>4. ASSUME NEW c \in Builds, InTmp(c)' PROVE Fewer(c)' /\ (Placed(c)' => Alone(c)')
    <3>1. CASE WriteVectors(b) /\ ~InTmp(c)
      <4>1. PICK d \in {b, Part} : vdata' = [vdata EXCEPT ![vfile[b]] = d]
        BY <3>1 DEF WriteVectors, After
      <4>2. c = b
        BY <2>4, <3>1, <4>1 DEF WriteVectors, InTmp
      <4>3. c \in Running'
        BY <3>1, <4>2 DEF WriteVectors, Running
      <4>4. ~Placed(c)'
        <5>1. build'[c] = "opens" /\ ~Wrote(c) /\ UNCHANGED <<side, sdata>>
          BY <3>1, <4>2 DEF WriteVectors, Wrote
        <5> QED BY <5>1 DEF Placed, Writes, SideHas, Complete
      <4> QED BY <2>2, <4>3, <4>4
    <3>2. CASE InTmp(c)
      <4>1. Fewer(c) /\ (Placed(c) => Alone(c))
        BY <1>1, <3>2 DEF Two
      <4>2. Fewer(c)'
        BY <2>1, <4>1
      <4>3. Placed(c) => Alone(c)'
        BY <2>3, <4>1
      <4>4. ASSUME Placed(c)', ~Placed(c) PROVE Alone(c)'
        <5>1. CASE WriteVectors(b) \/ ReplaceVectors(b) \/ Fails(b) \/ Cleans(b) \/ Dies(b)
          <6>1. UNCHANGED <<side, sdata, sfile>> /\ (build'[c] = "sidecar" => build[c] = "sidecar")
            BY <5>1 DEF WriteVectors, ReplaceVectors, BothWritten, Fails, Cleans, Dies
          <6> QED BY <4>4, <6>1 DEF Placed, Writes, SideHas
        <5>2. CASE OpenSidecar(b)
          <6>1. side' = side /\ stmp' # None /\ sfile'[b] = stmp' /\ build'[b] = "sidecar" /\ stmp' # side'
            BY <5>2, NamesStep DEF OpenSidecar, NamesInv, Named
          <6>2. c # b => sfile'[c] = sfile[c] /\ build'[c] = build[c]
            BY <5>2 DEF OpenSidecar
          <6>3. SideHas(c)' => SideHas(c)
            BY <5>2 DEF OpenSidecar, SideHas
          <6> QED BY <4>4, <6>1, <6>2, <6>3 DEF Placed, Writes
        <5>3. CASE WriteSidecar(b)
          <6>1. PICK d \in {b, Part} : sdata' = [sdata EXCEPT ![sfile[b]] = d]
            BY <5>3 DEF WriteSidecar, After
          <6>2. side' = side /\ sfile' = sfile /\ build[b] = "sidecar" /\ build'[b] = "vectors written"
            BY <5>3 DEF WriteSidecar
          <6>3. c # b => build'[c] = build[c]
            BY <2>1
          <6>4. SideHas(c)' /\ ~SideHas(c) => c = b /\ sfile[b] = side /\ side # None
            BY <6>1, <6>2 DEF SideHas
          <6> QED BY <4>4, <6>2, <6>3, <6>4 DEF Placed, Writes
        <5>4. CASE ReplaceSidecar(b)
          <6>1. build[b] = "sidecar written" /\ build'[b] \in {"cleans", "cleans up"}
            BY <5>4 DEF ReplaceSidecar
          <6>2. c # b /\ b \in Running
            BY <3>2, <6>1 DEF NamesInv, Running
          <6>3. \A d \in Builds \ {c} : d = b \/ d \notin Running
            BY <4>1, <6>2
          <6>4. \A d \in Builds \ {c} : build'[d] \notin Writing
            BY <2>1, <6>1, <6>3 DEF Running
          <6> QED BY <6>4
        <5> QED BY <1>3, <5>1, <5>2, <5>3, <5>4 DEF Build
      <4> QED BY <4>2, <4>3, <4>4
    <3>3. CASE ~WriteVectors(b) /\ ~InTmp(c)
      BY <1>3, <2>4, <3>3 DEF InTmp, Build, OpenSidecar, WriteSidecar, ReplaceVectors, ReplaceSidecar, Fails, Cleans, Dies
    <3> QED BY <3>1, <3>2, <3>3
  <2> QED BY <1>0, <2>2, <2>4 DEF Two
<1> QED BY <1>2, <1>3

LEMMA TogetherThere ==
  ASSUME Sees, holder # None, NEW b \in Builds, SideHas(b)
  PROVE  Possible(b)
BY DEF Sees, Possible, Gone, Whole

LEMMA VectorsThere ==
  ASSUME Sees, holder # None, NEW b \in Builds, Possible(b), VecHas(b)
  PROVE  b \in during.both
BY DEF Sees, Possible, Gone, Whole

LEMMA GoneStays ==
  ASSUME FilesInv, NEW x \in Builds, Build(x), NEW b \in Builds, build[b] # "vectors", Gone(b)
  PROVE  Gone(b)'
<1> USE IndexAssumption DEF FilesInv, Gone, VecHas, InTmp
<1>1. CASE OpenVectors(x)
  BY <1>1 DEF OpenVectors
<1>2. CASE WriteVectors(x)
  <2>1. PICK d \in {x, Part} : vdata' = [vdata EXCEPT ![vfile[x]] = d]
    BY <1>2 DEF WriteVectors, After
  <2>2. x # b /\ UNCHANGED <<vec, vtmp>>
    BY <1>2 DEF WriteVectors, Moves
  <2> QED BY <2>1, <2>2
<1>3. CASE OpenSidecar(x) \/ WriteSidecar(x) \/ ReplaceVectors(x) \/ ReplaceSidecar(x) \/ Fails(x) \/ Cleans(x) \/ Dies(x)
  <2>1. vdata' = vdata /\ <<vec', vtmp'>> \in {<<vec, vtmp>>, <<vtmp, None>>, <<vec, None>>}
    BY <1>3 DEF OpenSidecar, WriteSidecar, ReplaceVectors, ReplaceSidecar, Fails, Cleans, Dies
  <2> QED BY <2>1
<1> QED BY <1>1, <1>2, <1>3 DEF Build

LEMMA PossibleStays ==
  ASSUME FilesInv, CurrentInv, NamesInv, Two, holder # None, holder' = holder, Seen,
         NEW x \in Builds, Build(x), NEW b \in Builds, Wrote(b), Possible(b)
  PROVE  Possible(b)'
<1> USE IndexAssumption DEF FilesInv
<1>1. during.both \subseteq during'.both /\ Sees' /\ Sees
  BY SeenGrows, SeenSees DEF CurrentInv
<1>2. CASE b \in during.both
  BY <1>1, <1>2 DEF Possible
<1>3. Gone(b) => Gone(b)'
  BY GoneStays DEF Wrote
<1>4. ASSUME SideHas(b), InTmp(b), ~VecHas(b) PROVE Possible(b)'
  <2>1. CASE OpenVectors(x)
    <3>1. ~InTmp(b)' /\ vec' = vec
      BY <2>1 DEF OpenVectors, InTmp
    <3>2. ~VecHas(b)'
      <4>1. vdata' = [vdata EXCEPT ![vtmp'] = Part]
        BY <2>1 DEF OpenVectors
      <4> QED BY <1>4, <3>1, <4>1 DEF VecHas
    <3> QED BY <3>1, <3>2 DEF Possible, Gone
  <2>2. CASE WriteVectors(x)
    <3>1. \A f \in Builds : vdata'[f] = b => vdata[f] = b
      BY BuildFileStep DEF FileStep, CurrentInv
    <3>2. UNCHANGED <<vec, vtmp, side, sdata>>
      BY <2>2 DEF WriteVectors
    <3> QED BY <1>4, <3>1, <3>2 DEF Possible, Gone, SideHas, VecHas, InTmp
  <2>3. CASE ReplaceVectors(x)
    <3>1. vec' = vtmp /\ UNCHANGED <<vdata, side, sdata>>
      BY <1>4, <2>3 DEF ReplaceVectors, InTmp
    <3>2. Whole(b)'
      BY <1>4, <3>1 DEF Whole, SideHas, VecHas, InTmp
    <3> QED BY <1>1, <3>2 DEF Sees, Possible
  <2>4. CASE Fails(x) \/ Dies(x)
    BY <1>4, <2>4 DEF Fails, Dies, Possible, SideHas, InTmp
  <2>5. CASE Cleans(x)
    BY <1>4, <2>5 DEF Cleans, Possible, Gone, InTmp, VecHas
  <2>6. CASE OpenSidecar(x) \/ WriteSidecar(x) \/ ReplaceSidecar(x)
    <3>1. build[b] \in {"opens", "sidecar", "vectors written", "cleans", "dead"}
      BY <1>4 DEF NamesInv
    <3>2. CASE OpenSidecar(x)
      <4>1. stmp' # None /\ stmp' # side /\ side' = side /\ sdata' = [sdata EXCEPT ![stmp'] = Part]
        <5>1. side' = side /\ stmp' = (IF stmp = None THEN x ELSE stmp) /\ sdata' = [sdata EXCEPT ![stmp'] = Part]
          BY <3>2 DEF OpenSidecar
        <5>2. build[x] = "opens"
          BY <3>2 DEF OpenSidecar, Moves
        <5> QED BY <5>1, <5>2 DEF NamesInv, Named
      <4>2. UNCHANGED <<vtmp, vdata>>
        BY <3>2 DEF OpenSidecar
      <4> QED BY <1>4, <4>1, <4>2 DEF Possible, SideHas, InTmp
    <3>3. CASE WriteSidecar(x)
      <4>1. build[x] = "sidecar"
        BY <3>3 DEF WriteSidecar, Moves
      <4>2. x # b
        BY <4>1 DEF Wrote
      <4> QED BY <1>4, <4>1, <4>2 DEF Two, Placed
    <3>4. CASE ReplaceSidecar(x)
      <4>1. build[x] = "sidecar written"
        BY <3>4 DEF ReplaceSidecar, Moves
      <4>2. x # b
        BY <3>1, <4>1
      <4> QED BY <1>4, <4>1, <4>2 DEF Two, Placed
    <3> QED BY <2>6, <3>2, <3>3, <3>4
  <2> QED BY <2>1, <2>2, <2>3, <2>4, <2>5, <2>6 DEF Build
<1>5. SideHas(b) /\ InTmp(b) /\ VecHas(b) => b \in during.both
  BY VectorsThere, <1>1
<1> QED BY <1>2, <1>3, <1>4, <1>5 DEF Possible

(* What comes to be in the open sidecar is of a build that finished it in  *)
(* place, or whose vectors were gone when another took its place.          *)
LEMMA ReadingStays ==
  ASSUME FilesInv, CurrentInv, NamesInv, Two, holder # None, holder' = holder, Seen,
         NEW x \in Builds, Build(x), NEW f, Reading(f)
  PROVE  Reading(f)'
<1> USE IndexAssumption DEF FilesInv, Moves
<1>1. f \in Builds /\ f # stmp /\ build[f] \notin {"none", "vectors", "opens"}
  BY DEF Reading
<1>2. \A c \in Builds : c # x => build'[c] = build[c]
  BY DEF Build, OpenVectors, WriteVectors, OpenSidecar, WriteSidecar, ReplaceVectors, ReplaceSidecar, BothWritten,
         Fails, Cleans, Dies
<1>3. stmp' \in {stmp, None} \/ (OpenSidecar(x) /\ stmp' = x)
  BY DEF Build, OpenVectors, WriteVectors, OpenSidecar, WriteSidecar, ReplaceVectors, ReplaceSidecar, Fails, Cleans, Dies
<1>4. f # stmp'
  BY <1>1, <1>3 DEF OpenSidecar
<1>5. build'[f] \notin {"none", "vectors", "opens"}
  BY <1>1, <1>2 DEF Build, OpenVectors, WriteVectors, OpenSidecar, WriteSidecar, ReplaceVectors, ReplaceSidecar,
                    BothWritten, Fails, Cleans, Dies
<1>6. ASSUME NEW b \in Builds, build'[b] = "sidecar", sfile'[b] = f, side' # f PROVE Gone(b)'
  <2>1. ~(OpenSidecar(x) /\ x = b)
    BY <1>4, <1>6 DEF OpenSidecar
  <2>2. build[b] = "sidecar" /\ sfile[b] = f
    BY <1>2, <1>6, <2>1 DEF Build, OpenVectors, WriteVectors, OpenSidecar, WriteSidecar, ReplaceVectors, ReplaceSidecar,
                            BothWritten, Fails, Cleans, Dies
  <2>3. Gone(b) => Gone(b)'
    BY <2>2, GoneStays
  <2>4. CASE side # f
    BY <2>2, <2>3, <2>4 DEF Reading
  <2>5. CASE side = f
    <3>1. ReplaceSidecar(x) /\ build[x] = "sidecar written" /\ x # b
      BY <1>6, <2>2, <2>5 DEF Build, OpenVectors, WriteVectors, OpenSidecar, WriteSidecar, ReplaceVectors, ReplaceSidecar,
                              Fails, Cleans, Dies
    <3>2. Writes(b)
      BY <1>1, <2>2, <2>5 DEF Writes
    <3>3. ~VecHas(b) /\ ~InTmp(b)
      BY <3>1, <3>2 DEF Two, Placed
    <3> QED BY <2>3, <3>3 DEF Gone
  <2> QED BY <2>4, <2>5
<1>7. ASSUME NEW b \in Builds, sdata'[f] = b PROVE Possible(b)'
  <2>1. CASE sdata[f] = b
    <3>1. Wrote(b) /\ Possible(b)
      BY <1>1, <2>1 DEF Reading, CurrentInv, Complete
    <3> QED BY <3>1, PossibleStays
  <2>2. CASE sdata[f] # b
    <3>1. ~Wrote(b) /\ Wrote(b)'
      BY <1>1, <1>7, <2>2, BuildFileStep DEF FileStep, CurrentInv
    <3>2. WriteSidecar(x)
      BY <1>1, <1>7, <2>2 DEF Build, OpenVectors, WriteVectors, OpenSidecar, ReplaceVectors, ReplaceSidecar,
                              Fails, Cleans, Dies
    <3>3. PICK d \in {x, Part} : sdata' = [sdata EXCEPT ![sfile[x]] = d]
      BY <3>2 DEF WriteSidecar, After
    <3>4. b = x /\ sfile[b] = f
      BY <1>1, <1>7, <2>2, <3>3
    <3>5. build[b] = "sidecar" /\ side' = side
      BY <3>2, <3>4 DEF WriteSidecar
    <3>6. CASE side = f
      <4>1. SideHas(b)' /\ Sees'
        BY <1>1, <1>7, <3>5, <3>6, SeenSees DEF SideHas
      <4> QED BY <4>1 DEF Sees, Possible, Gone, Whole
    <3>7. CASE side # f
      <4>1. Gone(b)
        BY <3>4, <3>5, <3>7 DEF Reading
      <4> QED BY <3>5, <4>1, GoneStays DEF Possible
    <3> QED BY <3>6, <3>7
  <2> QED BY <2>1, <2>2
<1> QED BY <1>1, <1>4, <1>5, <1>6, <1>7 DEF Reading

LEMMA ReadOne ==
  ASSUME CurrentInv, at = "read vectors"
  PROVE  vstamp[1] \in Builds /\ sread \in Builds /\ Wrote(sread)
<1>1. PICK f \in Builds, t \in Nat : Sidecar(f, t)
  BY DEF CurrentInv, Loading
<1>2. PICK g \in Builds, u \in Nat : Vectors(g, u)
  BY DEF CurrentInv, Loading
<1>3. sread \in Builds /\ Wrote(sread)
  BY <1>1 DEF Sidecar, Contents
<1>4. vstamp[1] = g
  BY <1>2 DEF Vectors
<1> QED BY <1>3, <1>4

LEMMA CachedOne ==
  ASSUME CurrentInv, at \in {"stat vectors", "got"}
  PROVE  cached.of \in Builds /\ cached.holds = cached.of /\ Wrote(cached.of)
<1>1. PICK c, f, g \in Builds, t, u \in Nat : Stamped(c, f, t, g, u)
  BY DEF CurrentInv, Loading, Kept
<1>2. cached.of = c /\ cached.holds = c /\ Wrote(c)
  BY <1>1 DEF Stamped
<1> QED BY <1>2

LEMMA BuildTogether ==
  ASSUME FilesInv, MemoryInv, CurrentInv, NamesInv, Two, Together, NEW b \in Builds, Build(b)
  PROVE  Together'
<1>1. FileStep
  BY BuildFileStep DEF CurrentInv
<1>2. UNCHANGED <<holder, at, sread, sstamp, vread, vstamp, cached>> /\ Seen
  BY <1>1 DEF FileStep, Elsewhere, load
<1>3. CASE holder = None
  BY <1>2, <1>3 DEF MemoryInv, Together
<1>4. CASE holder # None
  <2>1. during.both \subseteq during'.both
    BY <1>2, <1>4, SeenGrows
  <2>2. ASSUME NEW c \in Builds, Wrote(c), Possible(c) PROVE Possible(c)'
    BY <1>2, <1>4, <2>2, PossibleStays
  <2>3. at \in {"parsed", "open vectors"} /\ sread \in Builds => Possible(sread)'
    <3>1. ASSUME at \in {"parsed", "open vectors"}, sread \in Builds, NEW c \in Builds, c = sread PROVE Possible(c)'
      <4>1. Wrote(c) /\ Possible(c)
        BY <3>1 DEF CurrentInv, Loading, Sidecar, Together
      <4> QED BY <2>2, <4>1
    <3> QED BY <1>2, <3>1 DEF Possible, Gone, SideHas, VecHas, InTmp
  <2>4. at = "read vectors" /\ vdata'[vstamp[1]] = sread => sread \in during'.both
    <3>1. at = "read vectors" => vstamp[1] \in Builds /\ sread \in Builds /\ Wrote(sread)
      BY ReadOne
    <3>2. at = "read vectors" /\ vdata'[vstamp[1]] = sread => vdata[vstamp[1]] = sread
      BY <1>1, <3>1 DEF FileStep
    <3> QED BY <2>1, <3>2 DEF Together
  <2>5. at = "stat vectors" => Possible(cached.of)'
    <3>1. ASSUME at = "stat vectors", NEW c \in Builds, c = cached.of PROVE Possible(c)'
      <4>1. Wrote(c) /\ Possible(c)
        BY <3>1, CachedOne DEF Together
      <4> QED BY <2>2, <4>1
    <3>2. at = "stat vectors" => cached.of \in Builds
      BY CachedOne
    <3> QED BY <1>2, <3>1, <3>2 DEF Possible, Gone, SideHas, VecHas, InTmp
  <2>6. ASSUME at = "read sidecar", NEW f, f = sstamp[1] PROVE Reading(f)'
    BY <1>2, <1>4, <2>6, ReadingStays DEF Together
  <2> QED BY <1>2, <2>1, <2>3, <2>4, <2>5, <2>6 DEF Together
<1> QED BY <1>3, <1>4

LEMMA GetTogether == ASSUME FilesInv, CurrentInv, NamesInv, Together, Get PROVE Together'
<1>1. holder # None /\ holder' = holder /\ Seen /\ UNCHANGED files /\ Sees
  BY DEF CurrentInv, Get, StatSidecar, StatVectors, Clear, Errs, OpenIndexJson, ReadSidecar, Parse, OpenIndexed, ReadVectors, Store, Goes
<1>2. UNCHANGED <<build, sfile, side, stmp, vec, vtmp, sdata, vdata>>
  BY <1>1 DEF files
<1>3. during.both \subseteq during'.both
  BY <1>1, SeenGrows
<1>4. ASSUME NEW c \in Builds, Possible(c) PROVE Possible(c)'
  BY <1>2, <1>3, <1>4 DEF Possible, Gone, SideHas, VecHas, InTmp
<1>5. CASE StatSidecar
  <2>1. cached' = cached /\ at' \in {"stat vectors", "clear"}
    BY <1>5 DEF StatSidecar, Goes
  <2>2. ASSUME at' = "stat vectors" PROVE Possible(cached.of)'
    <3>1. cached # Nothing /\ cached.stamps[1] = Stamp(side, stime)
      BY <1>5, <2>2 DEF StatSidecar, Goes
    <3>2. PICK c, f, g \in Builds, t, u \in Nat : Stamped(c, f, t, g, u)
      BY <3>1 DEF CurrentInv, Kept
    <3>3. <<f, t>> = Stamp(side, stime) /\ cached.of = c
      BY <3>1, <3>2 DEF Stamped
    <3>4. side = f /\ t = stime[f] /\ f # None
      BY <3>3, IndexAssumption DEF Stamp
    <3>5. SideHas(c)
      BY <3>2, <3>4 DEF Stamped, SideHas
    <3>6. Possible(c)'
      BY <1>1, <1>4, <3>5, TogetherThere
    <3> QED BY <2>1, <3>3, <3>6 DEF Possible, Gone, SideHas, VecHas, InTmp
  <2> QED BY <2>1, <2>2 DEF Together
<1>6. CASE StatVectors
  <2>1. cached' = cached /\ at' \in {"got", "clear"} /\ at = "stat vectors"
    BY <1>6 DEF StatVectors, Goes
  <2>2. ASSUME at' = "got" PROVE cached.of \in during'.both
    <3>1. cached.stamps[2] = Stamp(vec, vtime) /\ cached # Nothing
      BY <1>6, <2>1, <2>2 DEF StatVectors, Goes, CurrentInv, Loading
    <3>2. PICK c, f, g \in Builds, t, u \in Nat : Stamped(c, f, t, g, u)
      BY <3>1 DEF CurrentInv, Kept
    <3>3. <<g, u>> = Stamp(vec, vtime) /\ cached.of = c
      BY <3>1, <3>2 DEF Stamped
    <3>4. vec = g /\ u = vtime[g] /\ g # None
      BY <3>3, IndexAssumption DEF Stamp
    <3>5. VecHas(c)
      BY <3>2, <3>4 DEF Stamped, VecHas
    <3>6. Possible(c)
      BY <2>1, <3>3 DEF Together
    <3> QED BY <1>1, <1>3, <3>3, <3>5, <3>6, VectorsThere
  <2> QED BY <2>1, <2>2 DEF Together
<1>7. CASE Clear \/ Errs
  BY <1>7 DEF Clear, Errs, Goes, Together
<1>13. CASE OpenIndexJson
  <2>1. at' = "read sidecar" /\ side \in Builds /\ sstamp' = <<side, stime[side]>>
    BY <1>13 DEF OpenIndexJson, Goes, Stamp, FilesInv
  <2>2. side # stmp /\ build[side] \notin {"none", "vectors", "opens"}
    BY <2>1, IndexAssumption DEF NamesInv, Named
  <2>3. ASSUME NEW c \in Builds, sdata[side] = c PROVE Possible(c)'
    <3>1. SideHas(c)
      BY <2>1, <2>3, IndexAssumption DEF SideHas
    <3> QED BY <1>1, <1>4, <3>1, TogetherThere
  <2>4. ASSUME NEW f, f = side PROVE Reading(f)'
    BY <1>2, <2>1, <2>2, <2>3, <2>4 DEF Reading
  <2>5. sstamp'[1] = side
    BY <2>1
  <2> QED BY <2>1, <2>4, <2>5 DEF Together
<1>8. CASE ReadSidecar
  <2>1. at = "read sidecar" /\ at' = "parsed" /\ sread' = sdata[sstamp[1]]
    BY <1>8 DEF ReadSidecar, Goes
  <2>2. ASSUME NEW c \in Builds, c = sread' PROVE Possible(c)'
    BY <1>4, <2>1, <2>2 DEF Together, Reading
  <2>3. sread' \in Builds => Possible(sread)'
    BY <2>2 DEF Possible, Gone, SideHas, VecHas, InTmp
  <2> QED BY <2>1, <2>3 DEF Together
<1>9. CASE Parse
  <2>1. at = "parsed" /\ at' \in {"error", "open vectors"} /\ (at' = "open vectors" => sread' = sread)
    BY <1>9 DEF Parse, Goes, load
  <2>2. sread \in Builds => Possible(sread)
    BY <2>1 DEF Together
  <2>3. at' = "open vectors" /\ sread' \in Builds => Possible(sread)'
    BY <1>2, <1>3, <2>1, <2>2 DEF Possible, Gone, SideHas, VecHas, InTmp
  <2> QED BY <2>1, <2>3 DEF Together
<1>10. CASE OpenIndexed
  <2>1. at = "open vectors" /\ at' = "read vectors" /\ vec \in Builds /\ sread' = sread /\ vstamp' = <<vec, vtime[vec]>>
    BY <1>10 DEF OpenIndexed, Goes, Stamp, FilesInv
  <2>2. vstamp'[1] = vec /\ sread \in Builds
    BY <2>1 DEF CurrentInv, Loading, Sidecar, Contents
  <2>3. vdata[vec] = sread => sread \in during.both
    BY <1>1, <2>1, <2>2, VectorsThere, IndexAssumption DEF VecHas, Together
  <2> QED BY <1>2, <1>3, <2>1, <2>2, <2>3 DEF Together
<1>11. CASE ReadVectors
  BY <1>2, <1>3, <1>11 DEF ReadVectors, Goes, Together
<1>12. CASE Store
  <2>1. at = "check" /\ at' \in {"got", "error"} /\ (at' = "got" <=> Matches)
    BY <1>12 DEF Store, Goes
  <2>2. Matches => cached'.of = sread
    BY <1>12 DEF Store
  <2> QED BY <1>3, <2>1, <2>2 DEF Together, Matches
<1> QED BY <1>5, <1>6, <1>7, <1>8, <1>9, <1>10, <1>11, <1>12, <1>13 DEF Get

LEMMA TogetherStep ==
  ASSUME FilesInv, MemoryInv, CurrentInv, TogetherInv, [Next]_vars
  PROVE  TogetherInv'
<1>1. CASE \E b \in Builds : Build(b)
  <2>1. PICK b \in Builds : Build(b)
    BY <1>1
  <2>2. crowded' \in BOOLEAN /\ (~crowded' => ~crowded)
    BY <2>1 DEF TogetherInv, Build, OpenVectors, WriteVectors, OpenSidecar, WriteSidecar, ReplaceVectors, ReplaceSidecar,
                Fails, Cleans, Dies
  <2> QED BY <2>1, <2>2, NamesStep, TwoStep, BuildTogether DEF TogetherInv, CurrentInv
<1>2. ASSUME UNCHANGED files, Together => Together' PROVE TogetherInv'
  <2>1. UNCHANGED <<build, vfile, sfile, vtmp, stmp, vec, side, vdata, sdata, crowded>>
    BY <1>2 DEF files
  <2>2. UNCHANGED NamesInv /\ UNCHANGED Two
    BY <2>1 DEF NamesInv, Named, InTmp, Two, Running, Placed, Writes, SideHas, VecHas
  <2> QED BY <1>2, <2>1, <2>2 DEF TogetherInv
<1>3. CASE Get
  <2>1. UNCHANGED files
    BY <1>3 DEF Get, StatSidecar, StatVectors, Clear, Errs, OpenIndexJson, ReadSidecar, Parse, OpenIndexed, ReadVectors, Store, Goes
  <2> QED BY <1>2, <1>3, <2>1, GetTogether DEF TogetherInv
<1>4. CASE UNCHANGED vars \/ \E c \in Calls : Enter(c) \/ Return(c) \/ Leave(c) \/ Embed(c) \/ CallAgain(c)
  <2>1. UNCHANGED files
    BY <1>4 DEF vars, Enter, Return, Leave, Embed, CallAgain
  <2>2. at' \in {"stat", "idle"} \/ UNCHANGED <<at, sread, sstamp, vread, vstamp, cached, during>>
    BY <1>4 DEF vars, load, Enter, Return, Leave, Embed, CallAgain
  <2>3. Together => Together'
    BY <2>1, <2>2 DEF files, Together, Reading, Possible, Gone, SideHas, VecHas, InTmp
  <2> QED BY <1>2, <2>1, <2>3
<1> QED BY <1>1, <1>3, <1>4 DEF Next

(* What a call gets is one build's output, whole, with vectors that were   *)
(* in place during the step, however many builds replace them meanwhile;   *)
(* and unless three have run at once, its two files were there together.   *)
THEOREM StepsGetCurrent == Spec => []GotIsCurrent
<1>1. Init => FilesInv /\ MemoryInv /\ CurrentInv /\ TogetherInv
  <2> SUFFICES ASSUME Init PROVE FilesInv /\ MemoryInv /\ CurrentInv /\ TogetherInv
    OBVIOUS
  <2>1. FilesInv
    BY FilesInit
  <2>2. MemoryInv
    BY IndexAssumption DEF Init, MemoryInv
  <2>3. CurrentInv
    BY IndexAssumption DEF Init, CurrentInv, Stamps, Complete, Sees, Kept, Loading
  <2>4. Running = {} /\ crowded = FALSE /\ at = "idle" /\ vtmp = None /\ vec = None /\ stmp = None /\ side = None
    BY DEF Init, Running
  <2>5. TogetherInv
    BY <2>4 DEF TogetherInv, NamesInv, Named, InTmp, Two, Writes, Together
  <2> QED BY <2>1, <2>2, <2>3, <2>5
<1>2. FilesInv /\ MemoryInv /\ CurrentInv /\ TogetherInv => GotIsCurrent
  <2> SUFFICES ASSUME CurrentInv, TogetherInv, at = "got" PROVE GotIsCurrent
    BY DEF GotIsCurrent
  <2>1. cached # Nothing /\ cached.of \in during.vec
    BY DEF CurrentInv, Loading
  <2>2. cached.holds = cached.of
    BY CachedOne
  <2>3. ~crowded => cached.of \in during.both
    BY DEF TogetherInv, Together
  <2> QED BY <2>1, <2>2, <2>3 DEF GotIsCurrent
<1>3. FilesInv /\ MemoryInv /\ CurrentInv /\ TogetherInv /\ [Next]_vars => (FilesInv /\ MemoryInv /\ CurrentInv /\ TogetherInv)'
  BY FilesStep, MemoryStep, CurrentStep, TogetherStep
<1> QED BY <1>1, <1>2, <1>3, PTL DEF Spec
=============================================================================
