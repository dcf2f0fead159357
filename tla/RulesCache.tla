------------------------------- MODULE RulesCache -------------------------------
(***************************************************************************)
(* UserRulesRepository (services/authorize_action_service.py): the rules   *)
(* file, kept parsed until its modification time changes.  The threads of  *)
(* the server share one repository without a lock: looking at the file's   *)
(* time, reading it, and the assignments of the time and of the rules are  *)
(* four steps.  The path of the file is set once, before the server        *)
(* starts, so the assignment of the path changes nothing.                  *)
(* The version of a catalog is a hash of the file's text: a text stands    *)
(* for its version and for the rules parsed from it.                       *)
(***************************************************************************)
EXTENDS Naturals

CONSTANTS
  Threads,
  Texts,       \* what the file may hold
  ValidTexts,  \* the texts that parse to rules
  Edits,       \* <<text, text>>: the edits that people make
  NoText,      \* nothing cached
  MaxEdits     \* bound on the number of edits

ASSUME CacheAssumption ==
  /\ ValidTexts \subseteq Texts
  /\ Edits \subseteq Texts \X Texts
  /\ NoText \notin Texts
  /\ MaxEdits \in Nat

VARIABLES
  file,    \* the file: its text, and its modification time, which no edit repeats
  cache,   \* _cached_mtime_ns and _cached_loaded
  load,    \* for each thread, the load it is in
  raced    \* history: the cached time and rules come from two interleaved loads

cacheVars == <<file, cache, load, raced>>

Idle == [pc |-> "idle"]

Times == 0..MaxEdits

Load ==
  {Idle} \cup [pc: {"stat"}]
         \cup [pc: {"read"}, mtime: Times]
         \cup [pc: {"set_mtime", "set_loaded"}, mtime: Times, text: ValidTexts]
         \cup [pc: {"loaded"}, text: ValidTexts]
         \cup [pc: {"failed"}]

CacheTypeOK ==
  /\ file \in [text: Texts, mtime: Times]
  /\ cache \in [mtime: Times, loaded: ValidTexts \cup {NoText}]
  /\ load \in [Threads -> Load]
  /\ raced \in BOOLEAN

CacheInit ==
  /\ \E edit \in Edits : file = [text |-> edit[1], mtime |-> 0]
  /\ cache = [mtime |-> 0, loaded |-> NoText]
  /\ load = [thread \in Threads |-> Idle]
  /\ raced = FALSE

--------------------------------------------------------------------------------
EditFile ==
  /\ file.mtime < MaxEdits
  /\ \E text \in Texts :
       /\ <<file.text, text>> \in Edits
       /\ file' = [text |-> text, mtime |-> file.mtime + 1]
  /\ UNCHANGED <<cache, load, raced>>

StartLoad(thread) ==
  /\ load[thread] = Idle
  /\ load' = [load EXCEPT ![thread] = [pc |-> "stat"]]
  /\ UNCHANGED <<file, cache, raced>>

\* path.stat() and the comparison with what is cached.
StatFile(thread) ==
  /\ load[thread].pc = "stat"
  /\ load' = [load EXCEPT ![thread] =
       IF cache.loaded # NoText /\ cache.mtime = file.mtime
       THEN [pc |-> "loaded", text |-> cache.loaded]
       ELSE [pc |-> "read", mtime |-> file.mtime]]
  /\ UNCHANGED <<file, cache, raced>>

\* Wrong: a file in error is cached like any other.
ReadFileInError(thread) ==
  /\ load[thread].pc = "read"
  /\ load' = [load EXCEPT ![thread] = [pc |-> "set_mtime", mtime |-> @.mtime, text |-> file.text]]
  /\ UNCHANGED <<file, cache, raced>>

\* path.read_text() and the parser; a file in error leaves the cache alone.
ReadFile(thread) ==
  /\ load[thread].pc = "read"
  /\ load' = [load EXCEPT ![thread] =
       IF file.text \in ValidTexts
       THEN [pc |-> "set_mtime", mtime |-> @.mtime, text |-> file.text]
       ELSE [pc |-> "failed"]]
  /\ UNCHANGED <<file, cache, raced>>

\* Wrong: the time stored is that of the file now, not of the file that was read.
SetMtimeNow(thread) ==
  /\ load[thread].pc = "set_mtime"
  /\ cache' = [cache EXCEPT !.mtime = file.mtime]
  /\ load' = [load EXCEPT ![thread] = [@ EXCEPT !.pc = "set_loaded", !.mtime = file.mtime]]
  /\ UNCHANGED <<file, raced>>

SetMtime(thread) ==
  /\ load[thread].pc = "set_mtime"
  /\ cache' = [cache EXCEPT !.mtime = load[thread].mtime]
  /\ load' = [load EXCEPT ![thread].pc = "set_loaded"]
  /\ UNCHANGED <<file, raced>>

SetLoaded(thread) ==
  /\ load[thread].pc = "set_loaded"
  /\ cache' = [cache EXCEPT !.loaded = load[thread].text]
  /\ raced' = (cache.mtime # load[thread].mtime)
  /\ load' = [load EXCEPT ![thread] = [pc |-> "loaded", text |-> @.text]]
  /\ UNCHANGED file

LoadStep(thread) ==
  StatFile(thread) \/ ReadFile(thread) \/ SetMtime(thread) \/ SetLoaded(thread)

\* The caller has its answer.
EndLoad(thread) ==
  /\ load[thread].pc \in {"loaded", "failed"}
  /\ load' = [load EXCEPT ![thread] = Idle]
  /\ UNCHANGED <<file, cache, raced>>

--------------------------------------------------------------------------------
\* An edit of the rules takes effect: rules cached under the time that the file has
\* now are the rules in the file, unless two loads interleaved their assignments.
\* Between the two assignments of a load this is not so yet.
CachedRulesCurrent ==
  /\ ~ raced
  /\ \A thread \in Threads : load[thread].pc # "set_loaded"
  /\ cache.loaded # NoText
  /\ cache.mtime = file.mtime
  => cache.loaded = file.text
================================================================================
