------------------------------ MODULE HookFiles ------------------------------
(***************************************************************************)
(* alta_device_hook and alta_device_file: internal/device/hooks.go,        *)
(* files.go and their scripts, and the handlers that call them.  The file  *)
(* here is post-cfg.sh, which decides whether the loader runs when a boot  *)
(* or a push rebuilds /etc.  Scripts run one at a time (DialGate), one     *)
(* statement that changes something per step.  A session that is lost      *)
(* kills its script or leaves it to run to its end unheard, in which case  *)
(* what it was still reading on its input is cut short.  What a hook does  *)
(* when it runs is left out, and its destroy_script with it.               *)
(***************************************************************************)
EXTENDS Naturals, FiniteSets, Sequences

CONSTANTS
  EventHooks,  \* the hooks of an interface event, by name
  BootHooks,   \* the hooks that run at boot
  Wanted,      \* what each hook's configuration may be: [priority, script]
  Contents,    \* what a configuration may want in the file
  Foreign,     \* what somebody else may have put there
  Sourcing,    \* the contents that run the loader
  OnDestroy,   \* the file's on_destroy: "keep" or "delete"
  Configurations, \* the sets of hooks, and the file or not, that one workspace has
  MaxCuts,     \* the bound on the sessions that are lost
  MaxEdits     \* the bound on the changes somebody else makes

Hooks == EventHooks \cup BootHooks
PostCfg == "post-cfg.sh"
Torn == "torn"
Absent == "absent"
None == <<>>

ASSUME NamesAssumption ==
  /\ EventHooks \cap BootHooks = {} /\ PostCfg \notin Hooks
  /\ \A c \in Configurations : c \subseteq Hooks \cup {PostCfg}
  /\ Sourcing \subseteq Contents \cup Foreign
  /\ {Torn, Absent} \cap (Contents \cup Foreign) = {}
  /\ \A h \in Hooks : \A plan \in Wanted[h] : plan.script \notin {Torn, Absent}

VARIABLES
  stored,     \* the hook directory: its files' scripts
  loader,     \* whether loader.sh is there
  installed,  \* the event scripts in /etc, for the current boot
  file,       \* what is at the file's path
  backup,     \* and next to it, as .bak-alta
  tf,         \* the state of each resource of the configuration: None, <<[priority, script, loader]>>
              \* of a hook, <<content>> of the file
  op,         \* the script that runs: None or <<[kind, hook, plan, step, heard]>>
  touched,    \* history: the hooks that a lost session or somebody else left in doubt
  gone,       \* history: the hooks deleted and not written since
  litter,     \* history: the hooks' files that no state may know of
  original,   \* history: what the first write of the file found, None until then
  cuts, edits

router == <<stored, loader, installed, file, backup>>
history == <<touched, gone, litter, original>>
vars == <<router, tf, op, history, cuts, edits>>

\* Mutant: an event hook's file is named by its priority alone.
FileNameOfPriority(h, priority) == IF h \in BootHooks THEN <<h>> ELSE <<priority>>
FileName(h, priority) == IF h \in BootHooks THEN <<h>> ELSE <<h, priority>>
Tmp(name) == Append(name, "tmp")
Put(f, name, x) == [n \in DOMAIN f \cup {name} |-> IF n = name THEN x ELSE f[n]]
Remove(f, name) == [n \in DOMAIN f \ {name} |-> f[n]]
Get(f, name) == IF name \in DOMAIN f THEN f[name] ELSE Absent
\* The names of a hook's files, in whatever priority, temporary ones included.
FilesOf(h) == {n \in DOMAIN stored : n[1] = h}

Init ==
  /\ stored = None /\ loader = FALSE /\ installed = None
  /\ file \in Foreign \cup Sourcing \cup {Absent} /\ backup = Absent
  /\ tf \in {[r \in c |-> None] : c \in Configurations} /\ op = None
  /\ touched = {} /\ gone = {} /\ litter = {} /\ original = None
  /\ cuts = 0 /\ edits = 0

(***************************************************************************)
(* Scripts.                                                                *)
(***************************************************************************)
Idle == op = None
At(kind, step) == op # None /\ op[1].kind = kind /\ op[1].step = step
Goto(step) == op' = <<[op[1] EXCEPT !.step = step]>>
Begin(kind, h, plan, step) ==
  /\ Idle /\ op' = <<[kind |-> kind, hook |-> h, plan |-> plan, step |-> step, heard |-> TRUE]>>
  /\ UNCHANGED <<router, tf, cuts, edits>>
Name == FileName(op[1].hook, op[1].plan.priority)
\* What a script reads on its input.
Input(x) == {x} \cup (IF op[1].heard THEN {} ELSE {Torn})

(***************************************************************************)
(* device_hook.go, hook-put.sh and hook-delete.sh                          *)
(***************************************************************************)
BeginPut(h, plan) ==
  /\ Begin("hook-put", h, plan, "write")
  /\ gone' = gone \ {h}
  /\ litter' = litter \cup (FilesOf(h) \ {FileName(h, plan.priority), Tmp(FileName(h, plan.priority))})
  /\ UNCHANGED <<touched, original>>
HookCreate(h) == tf[h] = None /\ \E plan \in Wanted[h] : BeginPut(h, plan)
\* ModifyPlan: the last refresh found the loader missing, which is a change of its own.
LoaderMissing(h) == ~tf[h][1].loader
HookUpdate(h) ==
  tf[h] # None /\ \E plan \in Wanted[h] :
    (plan # [priority |-> tf[h][1].priority, script |-> tf[h][1].script] \/ LoaderMissing(h)) /\ BeginPut(h, plan)
HookDelete(h) == tf[h] # None /\ Begin("hook-delete", h, tf[h][1], "uninstall") /\ UNCHANGED history
\* Extensions.Get, by the file name the state gives.
HookGet(h) == Get(stored, FileName(h, tf[h][1].priority))
HookRead(h) ==
  /\ Idle /\ tf[h] # None
  /\ tf' = [tf EXCEPT ![h] = IF HookGet(h) = Absent THEN None ELSE <<[@[1] EXCEPT !.loader = loader]>>]
  /\ UNCHANGED <<router, op, history, cuts, edits>>

\* requires: a binary the router does not have is an error before anything is written.
PutRefused == At("hook-put", "write") /\ op' = None /\ UNCHANGED <<router, tf, history, cuts, edits>>
PutWrite ==
  /\ At("hook-put", "write") /\ Goto("move")
  /\ \E x \in Input(op[1].plan.script) : stored' = Put(stored, Tmp(Name), x)
  /\ UNCHANGED <<loader, installed, file, backup, tf, history, cuts, edits>>
PutMove ==
  /\ At("hook-put", "move") /\ Goto("loader")
  /\ stored' = Put(Remove(stored, Tmp(Name)), Name, stored[Tmp(Name)])
  /\ UNCHANGED <<loader, installed, file, backup, tf, history, cuts, edits>>
PutLoader ==
  /\ At("hook-put", "loader") /\ Goto(IF op[1].hook \in EventHooks THEN "install" ELSE "answer")
  /\ loader' = TRUE
  /\ UNCHANGED <<stored, installed, file, backup, tf, history, cuts, edits>>
PutInstall ==
  /\ At("hook-put", "install") /\ Goto("answer")
  /\ installed' = Put(installed, Name, stored[Name])
  /\ UNCHANGED <<stored, loader, file, backup, tf, history, cuts, edits>>
PutAnswer ==
  LET h == op[1].hook IN
  /\ At("hook-put", "answer") /\ op' = None
  /\ IF op[1].heard
     THEN /\ tf' = [tf EXCEPT ![h] = <<[priority |-> op[1].plan.priority, script |-> op[1].plan.script, loader |-> TRUE]>>]
          /\ touched' = touched \ {h} /\ litter' = litter \ {Name}
     ELSE UNCHANGED <<tf, touched, litter>>
  /\ UNCHANGED <<router, gone, original, cuts, edits>>

DeleteUninstall ==
  /\ At("hook-delete", "uninstall") /\ Goto("remove")
  /\ installed' = IF op[1].hook \in EventHooks THEN Remove(installed, Name) ELSE installed
  /\ UNCHANGED <<stored, loader, file, backup, tf, history, cuts, edits>>
\* Mutant: of a boot hook only the state is removed.
DeleteRemoveEvents ==
  /\ At("hook-delete", "remove") /\ Goto("answer")
  /\ stored' = IF op[1].hook \in EventHooks THEN Remove(stored, Name) ELSE stored
  /\ UNCHANGED <<loader, installed, file, backup, tf, history, cuts, edits>>
DeleteRemove ==
  /\ At("hook-delete", "remove") /\ Goto("answer")
  /\ stored' = Remove(stored, Name)
  /\ UNCHANGED <<loader, installed, file, backup, tf, history, cuts, edits>>
DeleteAnswer ==
  LET h == op[1].hook IN
  /\ At("hook-delete", "answer") /\ op' = None
  /\ IF op[1].heard THEN tf' = [tf EXCEPT ![h] = None] /\ gone' = gone \cup {h} ELSE UNCHANGED <<tf, gone>>
  /\ UNCHANGED <<router, touched, litter, original, cuts, edits>>

(***************************************************************************)
(* device_file.go, file-put.sh and file-delete.sh, with backup = true      *)
(***************************************************************************)
FileManaged == PostCfg \in DOMAIN tf
FileSet(state) == tf' = [tf EXCEPT ![PostCfg] = state]
FileWrite ==
  /\ FileManaged /\ \E x \in Contents : <<x>> # tf[PostCfg] /\ Begin("file-put", None, x, "compare")
  /\ UNCHANGED history
\* Extensions.GetFile
FileHeld == IF file = Absent THEN None ELSE <<file>>
FileRead ==
  /\ Idle /\ FileManaged /\ tf[PostCfg] # None /\ FileSet(FileHeld)
  /\ UNCHANGED <<router, op, history, cuts, edits>>
FileImport ==
  /\ Idle /\ FileManaged /\ tf[PostCfg] = None /\ FileHeld # None /\ FileSet(FileHeld)
  /\ UNCHANGED <<router, op, history, cuts, edits>>
FileDelete ==
  /\ Idle /\ FileManaged /\ tf[PostCfg] # None
  /\ \/ /\ "keep" \in OnDestroy /\ FileSet(None)
        /\ UNCHANGED <<router, op, history, cuts, edits>>
     \/ "delete" \in OnDestroy /\ Begin("file-delete", None, None, "remove") /\ UNCHANGED history

\* The input is whole or cut short, and is what is there already or not.
FileCompare ==
  /\ At("file-put", "compare")
  /\ \E x \in Input(op[1].plan) : op' = <<[op[1] EXCEPT !.plan = x, !.step = IF file = x THEN "answer" ELSE "backup"]>>
  /\ UNCHANGED <<router, tf, history, cuts, edits>>
\* Mutant: the copy is of what was there before the last write.
FileBackupAgain ==
  /\ At("file-put", "backup") /\ Goto("move")
  /\ backup' = IF file # Absent THEN file ELSE backup
  /\ original' = IF original = None THEN <<file>> ELSE original
  /\ UNCHANGED <<stored, loader, installed, file, tf, touched, gone, litter, cuts, edits>>
FileBackup ==
  /\ At("file-put", "backup") /\ Goto("move")
  /\ backup' = IF file # Absent /\ backup = Absent THEN file ELSE backup
  /\ original' = IF original = None THEN <<file>> ELSE original
  /\ UNCHANGED <<stored, loader, installed, file, tf, touched, gone, litter, cuts, edits>>
FileMove ==
  /\ At("file-put", "move") /\ Goto("answer")
  /\ file' = op[1].plan
  /\ UNCHANGED <<stored, loader, installed, backup, tf, history, cuts, edits>>
FileRemove ==
  /\ At("file-delete", "remove") /\ Goto("answer")
  /\ file' = Absent
  /\ UNCHANGED <<stored, loader, installed, backup, tf, history, cuts, edits>>
FileAnswer ==
  /\ At("file-put", "answer") \/ At("file-delete", "answer")
  /\ op' = None
  /\ FileSet(IF ~op[1].heard THEN tf[PostCfg] ELSE IF op[1].kind = "file-put" THEN <<op[1].plan>> ELSE None)
  /\ UNCHANGED <<router, history, cuts, edits>>

(***************************************************************************)
(* The router and those who change it.                                     *)
(***************************************************************************)
\* A boot or a push rebuilds /etc; post-cfg.sh runs the loader if it names it, and the
\* loader installs every file of the event hooks' directory.
Rebuild ==
  /\ installed' = IF file \in Sourcing /\ loader
                  THEN [n \in {n \in DOMAIN stored : n[1] \notin BootHooks} |-> stored[n]] ELSE None
  /\ UNCHANGED <<stored, loader, file, backup, tf, op, history, cuts, edits>>
Lost ==
  /\ cuts < MaxCuts /\ cuts' = cuts + 1
  /\ op # None /\ op[1].heard
  /\ op' \in {None, <<[op[1] EXCEPT !.heard = FALSE]>>}
  /\ touched' = IF op[1].kind \in {"hook-put", "hook-delete"} THEN touched \cup {op[1].hook} ELSE touched
  /\ litter' = IF op[1].kind = "hook-put" THEN litter \cup {Name, Tmp(Name)} ELSE litter
  /\ UNCHANGED <<router, tf, gone, original, edits>>
Edit ==
  /\ edits < MaxEdits /\ edits' = edits + 1 /\ Idle
  /\ \/ file' \in Foreign \ {file} /\ UNCHANGED <<stored, loader, touched>>
     \/ loader /\ loader' = FALSE /\ UNCHANGED <<stored, file, touched>>
     \/ \E n \in DOMAIN stored : stored' = Remove(stored, n) /\ touched' = touched \cup {n[1]} /\ UNCHANGED <<loader, file>>
  /\ UNCHANGED <<installed, backup, tf, op, gone, litter, original, cuts>>

Hook(h) == HookCreate(h) \/ HookUpdate(h) \/ HookRead(h) \/ HookDelete(h)
PutScript == PutRefused \/ PutWrite \/ PutMove \/ PutLoader \/ PutInstall \/ PutAnswer
DeleteScript == DeleteUninstall \/ DeleteRemove \/ DeleteAnswer
File == FileWrite \/ FileRead \/ FileImport \/ FileDelete
FileScript == FileCompare \/ FileBackup \/ FileMove \/ FileRemove \/ FileAnswer
Next ==
  \/ \E h \in DOMAIN tf \cap Hooks : Hook(h)
  \/ PutScript \/ DeleteScript \/ File \/ FileScript \/ Rebuild \/ Lost \/ Edit
Spec == Init /\ [][Next]_vars

-----------------------------------------------------------------------------
\* Of a hook that was deleted the next boot loads nothing ("the script is gone",
\* device_hook.go), unless its priority was changed or a put of it was lost: then a file of
\* another name, or a temporary one, may be left.
DeletedIsGone == \A h \in gone : FilesOf(h) \subseteq litter

\* What the state says of a hook is what the router has stored, and what is installed of it
\* is not older, as long as nobody interferes and no session was lost: whatever the other
\* hooks' names, priorities and scripts, and whenever /etc is rebuilt.
Known(h) == h \in DOMAIN tf /\ tf[h] # None /\ h \notin touched /\ (op # None => op[1].hook # h)
KnownIsStored ==
  \A h \in Hooks : Known(h) =>
    LET name == FileName(h, tf[h][1].priority) IN
    Get(stored, name) = tf[h][1].script /\ Get(installed, name) \in {Absent, stored[name]}

\* One copy of what the first write found is kept, however often it is written,
\* forgotten, imported or deleted afterwards.
OriginalKept == original # None /\ original[1] # Absent => backup = original[1]
=============================================================================
