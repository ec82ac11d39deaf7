------------------------------ MODULE FileCaches ------------------------------
(***************************************************************************)
(* The caches in front of the files the evidence is read from: the lines   *)
(* and the git blame of a stack frame (src/src/source-context.ts), and the *)
(* intent sources with the compiler above them (src/src/intent, and the    *)
(* Python, Rust and Java SDKs).  Other programs write the files and commit *)
(* while a reader is between two of its system calls.                      *)
(*                                                                         *)
(* Every write of a file is a version of it, 0 is a file that is not there. *)
(* A version has an mtime, which need not be a new one: timestamps are     *)
(* coarse, and a build resets them.  slot says which reader a behaviour    *)
(* follows; "compiler" is extractIntentForFrame over the sources that read *)
(* the frame's file, and loadSpec.                                         *)
(***************************************************************************)
EXTENDS Integers, FiniteSets

CONSTANTS
  Readers,       \* concurrent callers; one for the Node readers
  Mtimes,        \* the mtimes that a write may leave, 1 among them
  MaxWrites,     \* how often the files and the repository change
  MaxReads       \* calls followed

Slots == {"lines", "openapi", "prisma", "graphql", "pydantic", "rust", "java", "compiler", "blame"}
\* The files a slot's reader depends on: the frame's own, or those of a schema.
FilesOf == [s \in Slots |-> CASE s = "graphql" -> {"schema1", "schema2"}
                              [] s \in {"openapi", "prisma"} -> {"schema1"}
                              [] s = "compiler" -> {"frame", "schema1"}
                              [] OTHER -> {"frame"}]
ASSUME MtimesAssumption == Mtimes \subseteq Nat \ {0}

AllFiles == {"frame", "schema1", "schema2"}
Missing == 0
NoEntry == [mtime |-> -1, content |-> {}]
NotLooked == {"not looked"}     \* the root is not in the Map; its null is {}
Node == Slots \ {"pydantic", "rust", "java"}
Commits == {"none", "sha"}      \* the commitSha a caller passes
NoContracts == [mtime |-> -1, frame |-> {}, content |-> {}]
NoHead == -1                    \* getHeadSha answered null

VARIABLES
  slot,
  disk,        \* [file |-> version]
  mtime,       \* [file |-> the mtime of that version]
  newest,      \* [file |-> the latest mtime it ever had]
  newer,       \* [file |-> its mtime is later than all that it had before]
  broken,      \* versions that do not parse
  head,        \* the repository: is there one, is its .git a directory, its
               \* commit, the mtime of .git/HEAD
  clock, reads,
  located,        \* rootToSpec, rootToSchema, rootToSchemas, repoRootCache: what was found
  cache,       \* the entry: the mtime it is keyed by and the versions it holds
  compiled,    \* the compiler's entries for the frame, by commit
  headCache, blameCache,
  pc, stat,    \* [reader |-> where it is, the mtime it has seen]
  held,        \* [reader |-> the versions it has read]
  commit,      \* [reader |-> what its caller passes]
  keyed,       \* [reader |-> the mtime of the frame's file, or of .git/HEAD]
  framed,      \* [reader |-> the versions of the frame's file its contracts are of]
  sha,         \* [reader |-> the commit getHeadSha answered]
  hit,         \* [reader |-> its contracts were in the compiler's cache]
  during,      \* [reader |-> the versions of its files since its call began]
  retimed,     \* [reader |-> those of its files that were not newer since then]
  unread,      \* git rev-parse has failed
  answer       \* [reader |-> what its call answered]

stamps == <<mtime, newest, newer>>
caches == <<located, cache, compiled, headCache, blameCache>>
locals == <<stat, held, commit, keyed, framed, sha, hit>>
history == <<during, retimed>>
fileVars == <<slot, disk, stamps, broken, head, clock, reads, caches, pc, locals, history,
              unread, answer>>
Files == FilesOf[slot]

FileInit ==
  /\ slot \in Slots
  /\ disk \in [frame : {1}, schema1 : {0, 2}, schema2 : {0, 3}]
  /\ slot # "graphql" => disk["schema2"] = 0
  /\ mtime = [f \in AllFiles |-> IF disk[f] = Missing THEN 0 ELSE 1]
  /\ newest = mtime /\ newer = [f \in AllFiles |-> TRUE]
  /\ broken = {} /\ clock = 3 /\ reads = 0 /\ unread = FALSE
  /\ head \in [repo : IF slot = "blame" THEN BOOLEAN ELSE {FALSE}, dir : {TRUE}, sha : {0}, mtime : {0}]
  /\ located = NotLooked /\ cache = NoEntry /\ compiled = [c \in Commits |-> NoContracts]
  /\ headCache = [mtime |-> -1, sha |-> -1] /\ blameCache = {}
  /\ pc = [r \in Readers |-> "idle"] /\ stat = [r \in Readers |-> 0] /\ held = [r \in Readers |-> {}]
  /\ commit = [r \in Readers |-> "none"] /\ keyed = [r \in Readers |-> 0]
  /\ framed = [r \in Readers |-> {}] /\ sha = [r \in Readers |-> NoHead]
  /\ hit = [r \in Readers |-> FALSE] /\ retimed = [r \in Readers |-> {}]
  /\ during = [r \in Readers |-> {}] /\ answer = [r \in Readers |-> {}]

---------------------------------------------------------------------------
\* The world.

\* A file is written, well or badly and with any mtime, or removed.
Written(f, v, m) ==
  /\ disk' = [disk EXCEPT ![f] = v]
  /\ mtime' = [mtime EXCEPT ![f] = m]
  /\ newest' = [newest EXCEPT ![f] = IF m > @ THEN m ELSE @]
  /\ newer' = [newer EXCEPT ![f] = v = Missing \/ m > newest[f]]
  /\ during' = [r \in Readers |-> during[r] \cup IF pc[r] = "idle" THEN {} ELSE {v}]
  /\ retimed' = [r \in Readers |->
       retimed[r] \cup IF pc[r] = "idle" \/ v = Missing \/ m > newest[f] THEN {} ELSE {f}]

Write ==
  /\ clock < 3 + MaxWrites
  /\ clock' = clock + 1
  /\ \E f \in Files :
       \/ Written(f, Missing, 0) /\ UNCHANGED broken
       \/ \E m \in Mtimes, bad \in BOOLEAN :
            /\ bad => slot \in {"openapi", "graphql", "pydantic", "rust", "java"}
            /\ Written(f, clock + 1, m)
            /\ broken' = IF bad THEN broken \cup {clock + 1} ELSE broken
  /\ UNCHANGED <<slot, head, reads, caches, pc, locals, unread, answer>>

\* A commit on a branch moves the branch; a checkout writes .git/HEAD as well.  A
\* repository appears as a clone, or as a worktree or a submodule, whose .git is
\* a file.
Git ==
  /\ slot = "blame" /\ clock < 3 + MaxWrites
  /\ clock' = clock + 1
  /\ \E at \in {head.mtime, clock + 1}, dir \in IF head.repo THEN {head.dir} ELSE BOOLEAN :
       head' = [repo |-> TRUE, dir |-> dir, sha |-> clock + 1, mtime |-> at]
  /\ UNCHANGED <<slot, disk, stamps, broken, reads, caches, pc, locals, history, unread, answer>>

---------------------------------------------------------------------------
\* A reader.

Present(files) == {f \in files : disk[f] # Missing}
Versions(files) == {disk[f] : f \in Present(files)}
\* The mtime an entry is keyed by: the sum over the files of a GraphQL schema.
MtimeIn(files, f) == IF f \in files THEN mtime[f] ELSE 0
Mtime(files) == MtimeIn(files, "frame") + MtimeIn(files, "schema1") + MtimeIn(files, "schema2")

Begin(r) ==
  /\ pc[r] = "idle" /\ reads < MaxReads
  /\ slot \in Node => \A o \in Readers : pc[o] = "idle"
  /\ reads' = reads + 1
  /\ pc' = [pc EXCEPT ![r] = IF slot = "compiler" THEN "compile" ELSE "find"]
  /\ during' = [during EXCEPT ![r] = {disk[f] : f \in Files}]
  /\ retimed' = [retimed EXCEPT ![r] = {f \in Files : ~newer[f]}]
  /\ \E c \in IF slot = "compiler" THEN Commits ELSE {"none"} : commit' = [commit EXCEPT ![r] = c]
  /\ UNCHANGED <<slot, disk, stamps, broken, head, clock, caches, stat, held, keyed, framed, sha,
                 hit, unread, answer>>

Goes(r, to) == pc' = [pc EXCEPT ![r] = to] /\ UNCHANGED answer
Answer(r, content) ==
  /\ pc' = [pc EXCEPT ![r] = "done"]
  /\ answer' = [answer EXCEPT ![r] = content]
\* What a source read goes to its caller, or to the compiler.
Loaded(r, content) ==
  /\ pc' = [pc EXCEPT ![r] = IF slot = "compiler" THEN "keep" ELSE "done"]
  /\ answer' = [answer EXCEPT ![r] = content]

Step(r) ==
  UNCHANGED <<slot, disk, stamps, broken, head, clock, reads, history, commit>>

\* The directory search, remembered for ever with the files it found.
Finding == slot \in {"openapi", "prisma", "graphql", "compiler"}
SchemaFiles == {"schema1", "schema2"} \cap Files
Search == IF located = NotLooked THEN Present(SchemaFiles) ELSE located

FindPath(r) ==
  /\ pc[r] = "find" /\ Step(r)
  /\ IF Finding /\ Search = {} THEN Loaded(r, {}) ELSE Goes(r, "stat")
  /\ located' = IF Finding THEN Search ELSE located
  /\ UNCHANGED <<cache, compiled, headCache, blameCache, stat, held, keyed, framed, sha, hit, unread>>

\* The mtime is read before the file, so that an entry is never newer than
\* its key says.  One file that is not there ends the call.
LoadFiles == IF Finding THEN located ELSE {"frame"}

LoadStat(r) ==
  /\ pc[r] = "stat" /\ slot # "blame" /\ Step(r)
  /\ stat' = [stat EXCEPT ![r] = Mtime(LoadFiles)]
  /\ IF Present(LoadFiles) # LoadFiles THEN Loaded(r, {}) ELSE Goes(r, "load")
  /\ UNCHANGED <<caches, held, keyed, framed, sha, hit, unread>>

\* The Rust and Java readers hold the cache's lock until they have stored.
LockFree == slot \in {"rust", "java"} => \A r \in Readers : pc[r] # "store"

LoadRead(r) ==
  /\ pc[r] = "load" /\ LockFree /\ Step(r)
  /\ IF cache.mtime = stat[r] THEN Loaded(r, cache.content) /\ UNCHANGED held
     ELSE /\ held' = [held EXCEPT ![r] = Versions(LoadFiles)]
          /\ Goes(r, "store")
  /\ UNCHANGED <<caches, stat, keyed, framed, sha, hit, unread>>

\* What a slot does with a version that does not parse: the entry stays (the
\* OpenAPI, GraphQL and Rust readers), goes (Java), or is an empty one (Python).
Unparsable(key) ==
  CASE slot = "java" -> NoEntry
    [] slot = "pydantic" -> [mtime |-> key, content |-> {}]
    [] OTHER -> cache

\* Mutation: the mtime is read after the file.
EntryKeyLate(r) == Mtime(LoadFiles)

EntryKey(r) == stat[r]

LoadStore(r) ==
  /\ pc[r] = "store" /\ Step(r)
  /\ CASE held[r] = {} -> cache' = (IF slot = "java" THEN NoEntry ELSE cache) /\ Loaded(r, {})
       [] held[r] \cap broken # {} -> cache' = Unparsable(EntryKey(r)) /\ Loaded(r, {})
       [] OTHER -> /\ cache' = [mtime |-> EntryKey(r), content |-> held[r]]
                   /\ Loaded(r, held[r])
  /\ UNCHANGED <<located, compiled, headCache, blameCache, stat, held, keyed, framed, sha, hit, unread>>

\* extractIntentForFrame: the contracts are kept under the frame's mtime and the
\* caller's commit, whatever files the sources read them from.
CompileHit(r) == compiled[commit[r]].mtime = mtime["frame"]

Compile(r) ==
  /\ pc[r] = "compile" /\ Step(r)
  /\ keyed' = [keyed EXCEPT ![r] = mtime["frame"]]
  /\ \/ /\ disk["frame"] = Missing
        /\ Answer(r, {}) /\ UNCHANGED <<framed, hit>>
     \/ /\ disk["frame"] # Missing /\ CompileHit(r)
        /\ Answer(r, compiled[commit[r]].content)
        /\ framed' = [framed EXCEPT ![r] = compiled[commit[r]].frame]
        /\ hit' = [hit EXCEPT ![r] = TRUE]
     \/ /\ disk["frame"] # Missing /\ ~CompileHit(r)
        /\ Goes(r, "typescript") /\ UNCHANGED <<framed, hit>>
  /\ UNCHANGED <<caches, stat, held, sha, unread>>

\* The sources run one after the other; each of the first two reads the frame's
\* file, and then loadSpec is called.
RunSource(r) ==
  /\ pc[r] \in {"typescript", "zod"} /\ Step(r)
  /\ framed' = [framed EXCEPT ![r] = @ \cup Versions({"frame"})]
  /\ Goes(r, IF pc[r] = "typescript" THEN "zod" ELSE "find")
  /\ UNCHANGED <<caches, stat, held, keyed, sha, hit, unread>>

KeepContracts(r) ==
  /\ pc[r] = "keep" /\ Step(r)
  /\ compiled' = [compiled EXCEPT ![commit[r]] =
                    [mtime |-> keyed[r], frame |-> framed[r], content |-> answer[r]]]
  /\ Goes(r, "done")
  /\ UNCHANGED <<located, cache, headCache, blameCache, stat, held, keyed, framed, sha, hit, unread>>

\* getBlame stats the frame's file and searches the root, once for all.
BlameStat(r) ==
  /\ pc[r] = "stat" /\ slot = "blame" /\ Step(r)
  /\ stat' = [stat EXCEPT ![r] = mtime["frame"]]
  /\ IF disk["frame"] = Missing THEN Answer(r, {}) ELSE Goes(r, "root")
  /\ UNCHANGED <<caches, held, keyed, framed, sha, hit, unread>>

FindRepoRoot(r) ==
  /\ pc[r] = "root" /\ Step(r)
  /\ located' = IF located # NotLooked THEN located ELSE IF head.repo THEN {"repo"} ELSE {}
  /\ IF located' = {} THEN Answer(r, {}) ELSE Goes(r, "head")
  /\ UNCHANGED <<cache, compiled, headCache, blameCache, stat, held, keyed, framed, sha, hit, unread>>

\* getHeadSha: null when .git/HEAD cannot be statted, as where .git is a file; git
\* is asked when the mtime is new, and may fail.
HeadSha(r) ==
  /\ pc[r] = "head" /\ Step(r)
  /\ IF head.dir
     THEN /\ keyed' = [keyed EXCEPT ![r] = head.mtime]
          /\ IF headCache.mtime = head.mtime
             THEN sha' = [sha EXCEPT ![r] = headCache.sha] /\ Goes(r, "blame")
             ELSE UNCHANGED sha /\ Goes(r, "rev-parse")
     ELSE UNCHANGED keyed /\ sha' = [sha EXCEPT ![r] = NoHead] /\ Goes(r, "blame")
  /\ UNCHANGED <<caches, stat, held, framed, hit, unread>>

RevParse(r) ==
  /\ pc[r] = "rev-parse" /\ Step(r) /\ Goes(r, "blame")
  /\ \/ /\ sha' = [sha EXCEPT ![r] = head.sha]
        /\ headCache' = [mtime |-> keyed[r], sha |-> head.sha]
        /\ UNCHANGED unread
     \/ /\ sha' = [sha EXCEPT ![r] = NoHead]
        /\ unread' = TRUE
        /\ UNCHANGED headCache
  /\ UNCHANGED <<located, cache, compiled, blameCache, stat, held, keyed, framed, hit>>

\* The rest of getBlame: what is kept under the key, or what git answers of the
\* file as it is now; null, which is not kept, when git fails.
GetBlame(r) ==
  /\ pc[r] = "blame" /\ Step(r)
  /\ LET key == <<stat[r], sha[r]>>
         kept == {b \in blameCache : b.key = key}
         blame == [key |-> key, file |-> disk["frame"], sha |-> head.sha]
     IN \/ kept # {} /\ Answer(r, kept) /\ UNCHANGED blameCache
        \/ kept = {} /\ Answer(r, {}) /\ UNCHANGED blameCache
        \/ /\ kept = {} /\ disk["frame"] # Missing
           /\ blameCache' = blameCache \cup {blame} /\ Answer(r, {blame})
  /\ UNCHANGED <<located, cache, compiled, headCache, stat, held, keyed, framed, sha, hit, unread>>

\* What the call had in its variables is gone.
Return(r) ==
  /\ pc[r] = "done"
  /\ pc' = [pc EXCEPT ![r] = "idle"]
  /\ stat' = [stat EXCEPT ![r] = 0]
  /\ held' = [held EXCEPT ![r] = {}]
  /\ commit' = [commit EXCEPT ![r] = "none"]
  /\ keyed' = [keyed EXCEPT ![r] = 0]
  /\ framed' = [framed EXCEPT ![r] = {}]
  /\ sha' = [sha EXCEPT ![r] = NoHead]
  /\ hit' = [hit EXCEPT ![r] = FALSE]
  /\ during' = [during EXCEPT ![r] = {}]
  /\ retimed' = [retimed EXCEPT ![r] = {}]
  /\ answer' = [answer EXCEPT ![r] = {}]
  /\ UNCHANGED <<slot, disk, stamps, broken, head, clock, reads, caches, unread>>

FileNext ==
  \/ Write \/ Git
  \/ \E r \in Readers :
       \/ Begin(r) \/ FindPath(r) \/ LoadStat(r) \/ LoadRead(r) \/ LoadStore(r)
       \/ Compile(r) \/ RunSource(r) \/ KeepContracts(r)
       \/ BlameStat(r) \/ FindRepoRoot(r) \/ HeadSha(r) \/ RevParse(r) \/ GetBlame(r)
       \/ Return(r)

FileTypeOK ==
  /\ located \in {NotLooked, {"repo"}} \cup SUBSET {"schema1", "schema2"}
  /\ \A r \in Readers : pc[r] \in {"idle", "compile", "typescript", "zod", "keep", "find", "stat",
                                   "load", "store", "root", "head", "rev-parse", "blame", "done"}
  /\ cache.mtime \in {-1} \cup {m + n : m \in Mtimes, n \in Mtimes \cup {0}}

---------------------------------------------------------------------------
\* A load answers with what its files held at some moment of the call, even
\* when they were written meanwhile, unless one of them had an mtime then that
\* it, or a later one, had had before.  So do the contracts compiled in a call.
LoadedFrom == IF Finding THEN SchemaFiles ELSE {"frame"}
LoadedDuringCall ==
  slot # "blame" =>
    \A r \in Readers :
      pc[r] \in {"keep", "done"} /\ ~hit[r] /\ retimed[r] \cap LoadedFrom = {} =>
        answer[r] \subseteq during[r]

\* Contracts, in the cache or not, are of the frame's file as it is during the
\* call, with the same exception; those in the cache may be of an older schema.
ContractsOfFrame ==
  slot = "compiler" =>
    \A r \in Readers :
      pc[r] = "done" /\ "frame" \notin retimed[r] => framed[r] \subseteq during[r]

\* A blame is of the file as it was during the call, with the same exception,
\* and of a commit no older than the last write of .git/HEAD, unless HEAD was
\* not read: where .git is a file, or when git has failed.  Then it is kept
\* for as long as the file's mtime stays, whatever is committed.
BlameOfHead ==
  slot = "blame" =>
    \A r \in Readers : pc[r] = "done" =>
      \A b \in answer[r] :
        /\ "frame" \notin retimed[r] => b.file \in during[r]
        /\ IF sha[r] = NoHead THEN ~head.dir \/ unread ELSE b.sha >= keyed[r]

\* What a cache answers is what the disk held during the call, as far as mtimes
\* tell; a contract may be of an older schema while the frame's file is as it
\* was, a blame of an older commit while .git/HEAD is, or cannot be read.
CachesExplained == LoadedDuringCall /\ ContractsOfFrame /\ BlameOfHead

===============================================================================
