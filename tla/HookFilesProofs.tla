--------------------------- MODULE HookFilesProofs ---------------------------
(***************************************************************************)
(* Hooks and the managed file for any names, priorities, scripts and       *)
(* contents, and any number of lost sessions and interferences.            *)
(***************************************************************************)
EXTENDS HookFiles, TLAPS

HookKinds == {"hook-put", "hook-delete"}
FileKinds == {"file-put", "file-delete"}
Managed == DOMAIN tf \cap Hooks

\* A script runs for hook h.
On(h) == op # None /\ op[1].kind \in HookKinds /\ op[1].hook = h
Putting(h) == On(h) /\ op[1].kind = "hook-put"
\* The name of the file the state gives for a hook.
Stated(h) == IF h \in Managed /\ tf[h] # None THEN {FileName(h, tf[h][1].priority)} ELSE {}

OpOK ==
  op # None =>
    /\ op = <<[kind |-> op[1].kind, hook |-> op[1].hook, plan |-> op[1].plan, step |-> op[1].step, heard |-> op[1].heard]>>
    /\ op[1].heard \in BOOLEAN /\ op[1].kind \in HookKinds \cup FileKinds
    /\ op[1].kind \in HookKinds => op[1].hook \in Managed
    /\ op[1].kind = "hook-put" =>
         op[1].plan \in Wanted[op[1].hook] /\ (op[1].step = "install" => op[1].hook \notin BootHooks)
    /\ op[1].kind = "hook-delete" => tf[op[1].hook] # None /\ op[1].plan = tf[op[1].hook][1]

StatesOK ==
  /\ PostCfg \notin Hooks
  /\ \A h \in Managed : tf[h] # None =>
       /\ tf[h] = <<[priority |-> tf[h][1].priority, script |-> tf[h][1].script, loader |-> tf[h][1].loader]>>
       /\ tf[h][1].script # Absent

\* A file of the directory has a content; what is installed is of an event hook.
FilesOK ==
  /\ \A n \in DOMAIN stored : stored[n] # Absent
  /\ \A n \in DOMAIN installed : n[1] \notin BootHooks

\* A hook's files are the one its state gives, the two that a put is writing, or litter.
LitterOK(h) ==
  /\ ~Putting(h) => FilesOf(h) \subseteq litter \cup Stated(h)
  /\ Putting(h) =>
       /\ FilesOf(h) \subseteq litter \cup {Name, Tmp(Name)}
       /\ op[1].step = "write" => FilesOf(h) \subseteq litter \cup Stated(h)
       /\ op[1].step = "move" => Tmp(Name) \in DOMAIN stored
       /\ op[1].step \in {"loader", "install", "answer"} => Tmp(Name) \notin DOMAIN stored
       /\ ~op[1].heard => {Name, Tmp(Name)} \subseteq litter
  /\ On(h) /\ op[1].kind = "hook-delete" /\ op[1].step = "answer" => Name \notin DOMAIN stored
  /\ h \in gone => Stated(h) = {} /\ ~Putting(h)

\* The file the state gives holds its script, and so does what is installed of it.
Good(h) ==
  tf[h] # None =>
    LET name == FileName(h, tf[h][1].priority) IN
    Get(stored, name) = tf[h][1].script /\ Get(installed, name) \in {Absent, tf[h][1].script}

\* What a put that is heard has written so far.
KnownOK(h) ==
  /\ h \notin touched /\ (On(h) => Putting(h) /\ op[1].step = "write") => Good(h)
  /\ On(h) /\ ~op[1].heard => h \in touched
  /\ Putting(h) /\ op[1].heard =>
       /\ op[1].step = "move" => Get(stored, Tmp(Name)) = op[1].plan.script
       /\ op[1].step \in {"loader", "install", "answer"} => Get(stored, Name) = op[1].plan.script
       /\ op[1].step = "answer" => Get(installed, Name) \in {Absent, op[1].plan.script}

IInv ==
  /\ OpOK /\ StatesOK /\ FilesOK /\ gone \subseteq Hooks
  /\ \A h \in Hooks : LitterOK(h) /\ (h \in Managed => KnownOK(h))

-----------------------------------------------------------------------------
(***************************************************************************)
(* Names and directories.                                                  *)
(***************************************************************************)
LEMMA NamesAre ==
  ASSUME NEW h, NEW priority
  PROVE  LET name == FileName(h, priority) IN
         name[1] = h /\ Tmp(name)[1] = h /\ Tmp(name) # name
<1>1. CASE h \in BootHooks
  BY <1>1 DEF FileName, Tmp
<1>2. CASE h \notin BootHooks
  BY <1>2 DEF FileName, Tmp
<1> QED
  BY <1>1, <1>2

LEMMA ScriptGoesOn ==
  ASSUME OpOK, op # None, NEW step, Goto(step)
  PROVE  /\ op' # None /\ op'[1].kind = op[1].kind /\ op'[1].hook = op[1].hook /\ op'[1].plan = op[1].plan
         /\ op'[1].step = step /\ op'[1].heard = op[1].heard
         /\ op' = <<[kind |-> op'[1].kind, hook |-> op'[1].hook, plan |-> op'[1].plan, step |-> op'[1].step, heard |-> op'[1].heard]>>
<1>1. op[1] = [kind |-> op[1].kind, hook |-> op[1].hook, plan |-> op[1].plan, step |-> op[1].step, heard |-> op[1].heard]
  BY DEF OpOK
<1>2. op'[1] = [op[1] EXCEPT !.step = step] /\ op' = <<op'[1]>>
  BY DEF Goto
<1>3. op'[1] = [kind |-> op[1].kind, hook |-> op[1].hook, plan |-> op[1].plan, step |-> step, heard |-> op[1].heard]
  BY <1>1, <1>2
<1> QED
  BY <1>2, <1>3 DEF None

LEMMA ScriptBegins ==
  ASSUME NEW kind, NEW h, NEW plan, NEW step, Begin(kind, h, plan, step)
  PROVE  /\ op = None /\ op' # None /\ op'[1].kind = kind /\ op'[1].hook = h /\ op'[1].plan = plan
         /\ op'[1].step = step /\ op'[1].heard = TRUE
         /\ op' = <<[kind |-> op'[1].kind, hook |-> op'[1].hook, plan |-> op'[1].plan, step |-> op'[1].step, heard |-> op'[1].heard]>>
BY DEF Begin, Idle, None

\* A step that touches nothing of hook h.
LEMMA Elsewhere ==
  ASSUME NEW h \in Hooks, LitterOK(h), h \in Managed => KnownOK(h),
         ~On(h), ~On(h)', h \in Managed <=> h \in Managed', h \in Managed => tf'[h] = tf[h],
         \A n : n[1] = h => (n \in DOMAIN stored <=> n \in DOMAIN stored') /\ (n \in litter => n \in litter')
                            /\ Get(stored', n) = Get(stored, n) /\ Get(installed', n) = Get(installed, n),
         h \in touched => h \in touched', h \in gone' => h \in gone
  PROVE  LitterOK(h)' /\ (h \in Managed' => KnownOK(h)')
<1>1. Stated(h)' = Stated(h)
  BY DEF Stated
<1>2. FilesOf(h)' = FilesOf(h)
  BY DEF FilesOf
<1>3. ~Putting(h) /\ ~Putting(h)'
  BY DEF Putting
<1>4. LitterOK(h)'
  <2>1. \A n \in FilesOf(h) : n[1] = h
    BY DEF FilesOf
  <2> QED
    BY <1>1, <1>2, <1>3, <2>1 DEF LitterOK
<1>5. ASSUME h \in Managed'
      PROVE  KnownOK(h)'
  <2>1. Good(h) => Good(h)'
    BY <1>5, NamesAre DEF Good
  <2> QED
    BY <1>3, <1>5, <2>1 DEF KnownOK
<1> QED
  BY <1>4, <1>5

\* A step touches one resource at most.
Only(g) ==
  /\ DOMAIN tf' = DOMAIN tf /\ \A h \in DOMAIN tf \ {g} : tf'[h] = tf[h]
  /\ \A n : n[1] # g => (n \in DOMAIN stored <=> n \in DOMAIN stored') /\ (n \in litter => n \in litter')
                        /\ Get(stored', n) = Get(stored, n) /\ Get(installed', n) = Get(installed, n)
  /\ touched \subseteq touched' \cup {g} /\ gone' \subseteq gone \cup ({g} \cap Hooks)
  /\ op # None /\ op[1].kind \in HookKinds => op[1].hook = g
  /\ op' # None /\ op'[1].kind \in HookKinds => op'[1].hook = g

LEMMA StepKeeps ==
  ASSUME IInv, NEW g, Only(g), OpOK', StatesOK', FilesOK',
         g \in Hooks => LitterOK(g)' /\ (g \in Managed' => KnownOK(g)')
  PROVE  IInv'
<1>1. ASSUME NEW h \in Hooks, h # g
      PROVE  LitterOK(h)' /\ (h \in Managed' => KnownOK(h)')
  <2>1. LitterOK(h) /\ (h \in Managed => KnownOK(h))
    BY DEF IInv
  <2>2. /\ ~On(h) /\ ~On(h)' /\ (h \in Managed <=> h \in Managed') /\ (h \in Managed => tf'[h] = tf[h])
        /\ (h \in touched => h \in touched') /\ (h \in gone' => h \in gone)
    BY <1>1 DEF Only, On, Managed
  <2>3. \A n : n[1] = h => (n \in DOMAIN stored <=> n \in DOMAIN stored') /\ (n \in litter => n \in litter')
                           /\ Get(stored', n) = Get(stored, n) /\ Get(installed', n) = Get(installed, n)
    BY <1>1 DEF Only
  <2> QED
    BY <2>1, <2>2, <2>3, Elsewhere
<1> QED
  BY <1>1 DEF IInv, Only

-----------------------------------------------------------------------------
(***************************************************************************)
(* The handlers of a hook.                                                 *)
(***************************************************************************)
LEMMA PutBegins ==
  ASSUME IInv, NEW h \in Managed, NEW plan \in Wanted[h], BeginPut(h, plan)
  PROVE  IInv'
<1>1. /\ op = None /\ op' # None /\ op'[1].kind = "hook-put" /\ op'[1].hook = h /\ op'[1].plan = plan
      /\ op'[1].step = "write" /\ op'[1].heard = TRUE
      /\ op' = <<[kind |-> op'[1].kind, hook |-> op'[1].hook, plan |-> op'[1].plan, step |-> op'[1].step, heard |-> op'[1].heard]>>
  BY ScriptBegins DEF BeginPut
<1>2. /\ UNCHANGED <<stored, installed, tf, touched>> /\ gone' = gone \ {h} /\ h \in Hooks
      /\ litter' = litter \cup (FilesOf(h) \ {FileName(h, plan.priority), Tmp(FileName(h, plan.priority))})
  BY DEF BeginPut, Begin, router, Managed
<1>3. Only(h)
  BY <1>1, <1>2 DEF Only
<1>4. OpOK'
  BY <1>1, <1>2 DEF OpOK, HookKinds, FileKinds, Managed
<1>5. StatesOK' /\ FilesOK'
  BY <1>2 DEF IInv, StatesOK, FilesOK, Managed
<1>6. LitterOK(h) /\ KnownOK(h) /\ ~On(h) /\ ~Putting(h) /\ Putting(h)' /\ On(h)'
  BY <1>1, <1>2 DEF IInv, On, Putting, HookKinds
<1>7. LitterOK(h)'
  <2>1. Name' = FileName(h, plan.priority) /\ FilesOf(h)' = FilesOf(h) /\ Stated(h)' = Stated(h)
    BY <1>1, <1>2 DEF Name, FilesOf, Stated, Managed
  <2> QED
    BY <1>1, <1>2, <1>6, <2>1 DEF LitterOK
<1>8. KnownOK(h)'
  <2>1. Good(h)' <=> Good(h)
    BY <1>2 DEF Good
  <2> QED
    BY <1>1, <1>2, <1>6, <2>1 DEF KnownOK
<1> QED
  BY <1>3, <1>4, <1>5, <1>7, <1>8, StepKeeps

LEMMA DeleteBegins ==
  ASSUME IInv, NEW h \in Managed, HookDelete(h)
  PROVE  IInv'
<1>1. /\ op = None /\ op' # None /\ op'[1].kind = "hook-delete" /\ op'[1].hook = h /\ op'[1].plan = tf[h][1]
      /\ op'[1].step = "uninstall" /\ op'[1].heard = TRUE
      /\ op' = <<[kind |-> op'[1].kind, hook |-> op'[1].hook, plan |-> op'[1].plan, step |-> op'[1].step, heard |-> op'[1].heard]>>
  BY ScriptBegins DEF HookDelete
<1>2. UNCHANGED <<stored, installed, tf, touched, gone, litter>> /\ h \in Hooks /\ tf[h] # None
  BY DEF HookDelete, Begin, router, history, Managed
<1>3. Only(h)
  BY <1>1, <1>2 DEF Only
<1>4. OpOK'
  BY <1>1, <1>2 DEF OpOK, HookKinds, FileKinds, Managed
<1>5. StatesOK' /\ FilesOK'
  BY <1>2 DEF IInv, StatesOK, FilesOK, Managed
<1>6. LitterOK(h) /\ KnownOK(h) /\ ~On(h) /\ ~Putting(h) /\ ~Putting(h)' /\ On(h)'
  BY <1>1, <1>2 DEF IInv, On, Putting, HookKinds
<1>7. LitterOK(h)'
  <2>1. FilesOf(h)' = FilesOf(h) /\ Stated(h)' = Stated(h)
    BY <1>2 DEF FilesOf, Stated, Managed
  <2> QED
    BY <1>1, <1>2, <1>6, <2>1 DEF LitterOK
<1>8. KnownOK(h)'
  BY <1>1, <1>6 DEF KnownOK
<1> QED
  BY <1>3, <1>4, <1>5, <1>7, <1>8, StepKeeps

\* A refresh forgets a hook whose file is not there, of which nothing but litter is left.
LEMMA ReadKeeps ==
  ASSUME IInv, NEW h \in Managed, HookRead(h)
  PROVE  IInv'
<1> DEFINE name == FileName(h, tf[h][1].priority)
<1>1. /\ op = None /\ tf[h] # None /\ UNCHANGED <<op, stored, installed, touched, gone, litter>> /\ h \in Hooks
      /\ tf' = [tf EXCEPT ![h] = IF HookGet(h) = Absent THEN None ELSE <<[@[1] EXCEPT !.loader = loader]>>]
  BY DEF HookRead, Idle, router, history, Managed
<1>2. DOMAIN tf' = DOMAIN tf /\ (\A g \in DOMAIN tf \ {h} : tf'[g] = tf[g])
      /\ tf'[h] = IF HookGet(h) = Absent THEN None ELSE <<[tf[h][1] EXCEPT !.loader = loader]>>
  BY <1>1 DEF Managed
<1>3. tf[h][1] = [priority |-> tf[h][1].priority, script |-> tf[h][1].script, loader |-> tf[h][1].loader]
      /\ tf[h][1].script # Absent
  BY <1>1 DEF IInv, StatesOK
<1>4. tf'[h] # None =>
        /\ tf'[h] = <<[priority |-> tf[h][1].priority, script |-> tf[h][1].script, loader |-> loader]>>
        /\ tf'[h][1].priority = tf[h][1].priority /\ tf'[h][1].script = tf[h][1].script /\ tf'[h][1].loader = loader
  BY <1>2, <1>3
<1>5. tf'[h] = None => name \notin DOMAIN stored
  BY <1>2 DEF HookGet, Get, IInv, FilesOK, None
<1>6. Only(h)
  BY <1>1, <1>2 DEF Only
<1>7. OpOK' /\ FilesOK'
  BY <1>1 DEF IInv, OpOK, FilesOK
<1>8. StatesOK'
  BY <1>2, <1>3, <1>4 DEF IInv, StatesOK, Managed
<1>9. LitterOK(h) /\ KnownOK(h) /\ ~On(h) /\ ~Putting(h) /\ ~Putting(h)' /\ ~On(h)'
  BY <1>1 DEF IInv, On, Putting
<1>10. LitterOK(h)'
  <2>1. FilesOf(h)' = FilesOf(h) /\ Stated(h) = {name}
    BY <1>1 DEF FilesOf, Stated
  <2>2. tf'[h] # None => Stated(h)' = {name}
    BY <1>2, <1>4 DEF Stated, Managed
  <2>3. tf'[h] = None => FilesOf(h) \subseteq litter
    BY <1>5, <1>9, <2>1 DEF LitterOK, FilesOf
  <2>4. h \notin gone
    BY <1>9, <2>1 DEF LitterOK
  <2> QED
    BY <1>1, <1>9, <2>1, <2>2, <2>3, <2>4 DEF LitterOK
<1>11. KnownOK(h)'
  <2>1. Good(h) => Good(h)'
    BY <1>1, <1>4 DEF Good
  <2> QED
    BY <1>1, <1>9, <2>1 DEF KnownOK
<1> QED
  BY <1>6, <1>7, <1>8, <1>10, <1>11, StepKeeps

-----------------------------------------------------------------------------
(***************************************************************************)
(* hook-put.sh                                                             *)
(***************************************************************************)
LEMMA PutRuns ==
  ASSUME IInv, NEW step, At("hook-put", step)
  PROVE  \E h \in Managed \cap Hooks :
         /\ op[1].hook = h /\ op # None /\ op[1].step = step /\ op[1].plan \in Wanted[h]
         /\ On(h) /\ Putting(h) /\ LitterOK(h) /\ KnownOK(h)
         /\ Name[1] = h /\ Tmp(Name)[1] = h /\ Tmp(Name) # Name
<1>1. op # None /\ op[1].kind = "hook-put" /\ op[1].step = step
  BY DEF At
<1>2. op[1].hook \in Managed /\ op[1].hook \in Hooks /\ op[1].plan \in Wanted[op[1].hook]
  BY <1>1 DEF IInv, OpOK, HookKinds, Managed
<1>3. On(op[1].hook) /\ Putting(op[1].hook)
  BY <1>1 DEF On, Putting, HookKinds
<1>4. Name[1] = op[1].hook /\ Tmp(Name)[1] = op[1].hook /\ Tmp(Name) # Name
  BY NamesAre DEF Name
<1>5. LitterOK(op[1].hook) /\ KnownOK(op[1].hook)
  BY <1>2 DEF IInv
<1> QED
  BY <1>1, <1>2, <1>3, <1>4, <1>5

LEMMA PutGoesOn ==
  ASSUME IInv, NEW step, At("hook-put", step), NEW next, Goto(next), UNCHANGED tf, NEW h, op[1].hook = h,
         next = "install" => h \notin BootHooks
  PROVE  /\ op' # None /\ op'[1].hook = h /\ op'[1].plan = op[1].plan /\ op'[1].step = next /\ op'[1].heard = op[1].heard
         /\ On(h)' /\ Putting(h)' /\ Name' = Name /\ OpOK' /\ StatesOK' /\ Stated(h)' = Stated(h)
<1>1. op # None /\ op[1].kind = "hook-put" /\ OpOK
  BY DEF At, IInv
<1>2. /\ op' # None /\ op'[1].kind = op[1].kind /\ op'[1].hook = op[1].hook /\ op'[1].plan = op[1].plan
      /\ op'[1].step = next /\ op'[1].heard = op[1].heard
      /\ op' = <<[kind |-> op'[1].kind, hook |-> op'[1].hook, plan |-> op'[1].plan, step |-> op'[1].step, heard |-> op'[1].heard]>>
  BY <1>1, ScriptGoesOn
<1>3. OpOK'
  BY <1>1, <1>2 DEF OpOK, HookKinds, FileKinds, Managed
<1>4. StatesOK'
  BY DEF IInv, StatesOK, Managed
<1>5. On(h)' /\ Putting(h)' /\ Name' = Name
  BY <1>1, <1>2 DEF On, Putting, HookKinds, Name
<1>6. Stated(h)' = Stated(h)
  BY DEF Stated, Managed
<1> QED
  BY <1>2, <1>3, <1>4, <1>5, <1>6

LEMMA PutRefusedKeeps ==
  ASSUME IInv, PutRefused
  PROVE  IInv'
<1>1. PICK h \in Managed \cap Hooks :
      /\ op[1].hook = h /\ op # None /\ op[1].step = "write"
      /\ On(h) /\ Putting(h) /\ LitterOK(h) /\ KnownOK(h)
  BY PutRuns DEF PutRefused
<1>2. op' = None /\ UNCHANGED <<stored, installed, tf, touched, gone, litter>>
  BY DEF PutRefused, router, history
<1>3. Only(h)
  BY <1>1, <1>2 DEF Only
<1>4. OpOK' /\ StatesOK' /\ FilesOK'
  BY <1>2 DEF IInv, OpOK, StatesOK, FilesOK, Managed
<1>5. ~On(h)' /\ ~Putting(h)' /\ Stated(h)' = Stated(h) /\ FilesOf(h)' = FilesOf(h)
  BY <1>2 DEF On, Putting, Stated, FilesOf, Managed
<1>6. LitterOK(h)'
  BY <1>1, <1>2, <1>5 DEF LitterOK
<1>7. KnownOK(h)'
  <2>1. Good(h) => Good(h)'
    BY <1>2 DEF Good
  <2> QED
    BY <1>1, <1>2, <1>5, <2>1 DEF KnownOK
<1> QED
  BY <1>3, <1>4, <1>6, <1>7, StepKeeps

LEMMA PutWriteKeeps ==
  ASSUME IInv, PutWrite
  PROVE  IInv'
<1>1. PICK h \in Managed \cap Hooks :
      /\ op[1].hook = h /\ op # None /\ op[1].step = "write" /\ op[1].plan \in Wanted[h]
      /\ On(h) /\ Putting(h) /\ LitterOK(h) /\ KnownOK(h)
      /\ Name[1] = h /\ Tmp(Name)[1] = h /\ Tmp(Name) # Name
  BY PutRuns DEF PutWrite
<1>2. /\ op' # None /\ op'[1].hook = h /\ op'[1].plan = op[1].plan /\ op'[1].step = "move" /\ op'[1].heard = op[1].heard
      /\ On(h)' /\ Putting(h)' /\ Name' = Name /\ OpOK' /\ StatesOK' /\ Stated(h)' = Stated(h)
  BY <1>1, PutGoesOn DEF PutWrite
<1>3. UNCHANGED <<installed, tf, touched, gone, litter>>
  BY DEF PutWrite, history
<1>4. PICK x \in Input(op[1].plan.script) : stored' = Put(stored, Tmp(Name), x)
  BY DEF PutWrite
<1>5. /\ DOMAIN stored' = DOMAIN stored \cup {Tmp(Name)} /\ stored'[Tmp(Name)] = x
      /\ \A n \in DOMAIN stored : n # Tmp(Name) => stored'[n] = stored[n]
      /\ \A n : Get(stored', n) = IF n = Tmp(Name) THEN x ELSE Get(stored, n)
  BY <1>4 DEF Put, Get
<1>6. x # Absent /\ (op[1].heard => x = op[1].plan.script)
  BY <1>1, <1>4, NamesAssumption DEF Input, Torn, Absent
<1>7. Only(h)
  BY <1>1, <1>2, <1>3, <1>5 DEF Only
<1>8. FilesOK'
  BY <1>3, <1>5, <1>6 DEF IInv, FilesOK
<1>9. LitterOK(h)'
  <2>1. FilesOf(h)' \subseteq FilesOf(h) \cup {Tmp(Name)}
    BY <1>5 DEF FilesOf
  <2> QED
    BY <1>1, <1>2, <1>3, <1>5, <2>1 DEF LitterOK, On, Putting, HookKinds
<1>10. KnownOK(h)'
  BY <1>1, <1>2, <1>3, <1>5, <1>6 DEF KnownOK
<1> QED
  BY <1>2, <1>7, <1>8, <1>9, <1>10, StepKeeps

LEMMA PutMoveKeeps ==
  ASSUME IInv, PutMove
  PROVE  IInv'
<1>1. PICK h \in Managed \cap Hooks :
      /\ op[1].hook = h /\ op # None /\ op[1].step = "move" /\ op[1].plan \in Wanted[h]
      /\ On(h) /\ Putting(h) /\ LitterOK(h) /\ KnownOK(h)
      /\ Name[1] = h /\ Tmp(Name)[1] = h /\ Tmp(Name) # Name
  BY PutRuns DEF PutMove
<1>2. /\ op' # None /\ op'[1].hook = h /\ op'[1].plan = op[1].plan /\ op'[1].step = "loader" /\ op'[1].heard = op[1].heard
      /\ On(h)' /\ Putting(h)' /\ Name' = Name /\ OpOK' /\ StatesOK' /\ Stated(h)' = Stated(h)
  BY <1>1, PutGoesOn DEF PutMove
<1>3. UNCHANGED <<installed, tf, touched, gone, litter>> /\ stored' = Put(Remove(stored, Tmp(Name)), Name, stored[Tmp(Name)])
  BY DEF PutMove, history
<1>4. /\ DOMAIN stored' = (DOMAIN stored \ {Tmp(Name)}) \cup {Name} /\ stored'[Name] = stored[Tmp(Name)]
      /\ \A n \in DOMAIN stored \ {Tmp(Name)} : n # Name => stored'[n] = stored[n]
      /\ \A n : Get(stored', n) = IF n = Name THEN stored[Tmp(Name)] ELSE IF n = Tmp(Name) THEN Absent ELSE Get(stored, n)
  <2>1. PICK f : f = Remove(stored, Tmp(Name))
    OBVIOUS
  <2>2. /\ DOMAIN f = DOMAIN stored \ {Tmp(Name)}
        /\ \A n \in DOMAIN f : f[n] = stored[n]
        /\ \A n : Get(f, n) = IF n = Tmp(Name) THEN Absent ELSE Get(stored, n)
    BY <2>1 DEF Remove, Get
  <2>3. /\ DOMAIN stored' = DOMAIN f \cup {Name} /\ stored'[Name] = stored[Tmp(Name)]
        /\ \A n \in DOMAIN f : n # Name => stored'[n] = f[n]
        /\ \A n : Get(stored', n) = IF n = Name THEN stored[Tmp(Name)] ELSE Get(f, n)
    BY <1>3, <2>1 DEF Put, Get
  <2> QED
    BY <2>2, <2>3
<1>5. Only(h)
  BY <1>1, <1>2, <1>3, <1>4 DEF Only
<1>6. Tmp(Name) \in DOMAIN stored
  BY <1>1 DEF LitterOK
<1>7. FilesOK'
  BY <1>3, <1>4, <1>6 DEF IInv, FilesOK
<1>8. LitterOK(h)'
  <2>1. FilesOf(h)' \subseteq FilesOf(h) \cup {Name}
    BY <1>4 DEF FilesOf
  <2> QED
    BY <1>1, <1>2, <1>3, <1>4, <2>1 DEF LitterOK, On, Putting, HookKinds
<1>9. KnownOK(h)'
  BY <1>1, <1>2, <1>3, <1>4, <1>6 DEF KnownOK, Get
<1> QED
  BY <1>2, <1>5, <1>7, <1>8, <1>9, StepKeeps

LEMMA PutLoaderKeeps ==
  ASSUME IInv, PutLoader
  PROVE  IInv'
<1> DEFINE next == IF op[1].hook \in EventHooks THEN "install" ELSE "answer"
<1>1. PICK h \in Managed \cap Hooks :
      /\ op[1].hook = h /\ op # None /\ op[1].step = "loader" /\ op[1].plan \in Wanted[h]
      /\ On(h) /\ Putting(h) /\ LitterOK(h) /\ KnownOK(h)
      /\ Name[1] = h /\ Tmp(Name)[1] = h /\ Tmp(Name) # Name
  BY PutRuns DEF PutLoader
<1>2. /\ op' # None /\ op'[1].hook = h /\ op'[1].plan = op[1].plan /\ op'[1].step = next /\ op'[1].heard = op[1].heard
      /\ On(h)' /\ Putting(h)' /\ Name' = Name /\ OpOK' /\ StatesOK' /\ Stated(h)' = Stated(h)
  BY <1>1, PutGoesOn, NamesAssumption DEF PutLoader
<1>3. UNCHANGED <<stored, installed, tf, touched, gone, litter>>
  BY DEF PutLoader, history
<1>4. Only(h)
  BY <1>1, <1>2, <1>3 DEF Only
<1>5. FilesOK' /\ FilesOf(h)' = FilesOf(h)
  BY <1>3 DEF IInv, FilesOK, FilesOf
<1>6. LitterOK(h)'
  BY <1>1, <1>2, <1>3, <1>5 DEF LitterOK, On, Putting, HookKinds
<1>7. KnownOK(h)'
  BY <1>1, <1>2, <1>3 DEF KnownOK, IInv, FilesOK, Get, Hooks
<1> QED
  BY <1>2, <1>4, <1>5, <1>6, <1>7, StepKeeps

LEMMA PutInstallKeeps ==
  ASSUME IInv, PutInstall
  PROVE  IInv'
<1>1. PICK h \in Managed \cap Hooks :
      /\ op[1].hook = h /\ op # None /\ op[1].step = "install" /\ op[1].plan \in Wanted[h]
      /\ On(h) /\ Putting(h) /\ LitterOK(h) /\ KnownOK(h)
      /\ Name[1] = h /\ Tmp(Name)[1] = h /\ Tmp(Name) # Name
  BY PutRuns DEF PutInstall
<1>2. /\ op' # None /\ op'[1].hook = h /\ op'[1].plan = op[1].plan /\ op'[1].step = "answer" /\ op'[1].heard = op[1].heard
      /\ On(h)' /\ Putting(h)' /\ Name' = Name /\ OpOK' /\ StatesOK' /\ Stated(h)' = Stated(h)
  BY <1>1, PutGoesOn DEF PutInstall
<1>3. UNCHANGED <<stored, tf, touched, gone, litter>> /\ installed' = Put(installed, Name, stored[Name])
  BY DEF PutInstall, history
<1>4. /\ DOMAIN installed' = DOMAIN installed \cup {Name}
      /\ \A n : Get(installed', n) = IF n = Name THEN stored[Name] ELSE Get(installed, n)
  BY <1>3 DEF Put, Get
<1>5. Only(h)
  BY <1>1, <1>2, <1>3, <1>4 DEF Only
<1>6. h \notin BootHooks
  BY <1>1 DEF IInv, OpOK, Putting
<1>7. FilesOK' /\ FilesOf(h)' = FilesOf(h)
  BY <1>1, <1>3, <1>4, <1>6 DEF IInv, FilesOK, FilesOf
<1>8. LitterOK(h)'
  BY <1>1, <1>2, <1>3, <1>7 DEF LitterOK, On, Putting, HookKinds
<1>9. KnownOK(h)'
  <2>1. op[1].plan.script # Absent
    BY <1>1, NamesAssumption
  <2> QED
    BY <1>1, <1>2, <1>3, <1>4, <2>1 DEF KnownOK, Get
<1> QED
  BY <1>2, <1>5, <1>7, <1>8, <1>9, StepKeeps

LEMMA PutAnswerKeeps ==
  ASSUME IInv, PutAnswer
  PROVE  IInv'
<1>1. PICK h \in Managed \cap Hooks :
      /\ op[1].hook = h /\ op # None /\ op[1].step = "answer" /\ op[1].plan \in Wanted[h]
      /\ On(h) /\ Putting(h) /\ LitterOK(h) /\ KnownOK(h)
      /\ Name[1] = h /\ Tmp(Name)[1] = h /\ Tmp(Name) # Name
  BY PutRuns DEF PutAnswer
<1>2. op' = None /\ UNCHANGED <<stored, installed, gone>>
  BY DEF PutAnswer, router
<1>3. ~On(h)' /\ ~Putting(h)' /\ OpOK' /\ FilesOK' /\ FilesOf(h)' = FilesOf(h)
  BY <1>2 DEF On, Putting, OpOK, FilesOK, FilesOf, IInv
<1>4. CASE op[1].heard
  <2> DEFINE state == [priority |-> op[1].plan.priority, script |-> op[1].plan.script, loader |-> TRUE]
  <2>1. tf' = [tf EXCEPT ![h] = <<state>>] /\ touched' = touched \ {h} /\ litter' = litter \ {Name}
    BY <1>1, <1>4 DEF PutAnswer
  <2>2. DOMAIN tf' = DOMAIN tf /\ tf'[h] = <<state>> /\ \A g \in DOMAIN tf \ {h} : tf'[g] = tf[g]
    BY <2>1 DEF Managed
  <2>3. tf'[h] # None /\ tf'[h][1].priority = op[1].plan.priority /\ tf'[h][1].script = op[1].plan.script
        /\ tf'[h] = <<[priority |-> tf'[h][1].priority, script |-> tf'[h][1].script, loader |-> tf'[h][1].loader]>>
    BY <2>2 DEF None
  <2>4. FileName(h, tf'[h][1].priority) = Name /\ Stated(h)' = {Name}
    BY <1>1, <2>2, <2>3 DEF Name, Stated, Managed
  <2>5. Only(h)
    BY <1>1, <1>2, <2>1, <2>2 DEF Only
  <2>6. StatesOK'
    BY <1>1, <2>2, <2>3, NamesAssumption DEF IInv, StatesOK, Managed
  <2>7. LitterOK(h)'
    <3>1. Tmp(Name) \notin DOMAIN stored /\ h \notin gone /\ FilesOf(h) \subseteq litter \cup {Name, Tmp(Name)}
      BY <1>1 DEF LitterOK
    <3>2. FilesOf(h) \subseteq DOMAIN stored
      BY DEF FilesOf
    <3> QED
      BY <1>2, <1>3, <2>1, <2>4, <3>1, <3>2 DEF LitterOK
  <2>8. KnownOK(h)'
    <3>1. Get(stored, Name) = op[1].plan.script /\ Get(installed, Name) \in {Absent, op[1].plan.script}
      BY <1>1, <1>4 DEF KnownOK
    <3>2. Good(h)'
      BY <1>2, <2>3, <2>4, <3>1 DEF Good
    <3> QED
      BY <1>3, <3>2 DEF KnownOK
  <2> QED
    BY <1>3, <2>5, <2>6, <2>7, <2>8, StepKeeps
<1>5. CASE ~op[1].heard
  <2>1. UNCHANGED <<tf, touched, litter>>
    BY <1>5 DEF PutAnswer
  <2>2. h \in touched /\ {Name, Tmp(Name)} \subseteq litter
    BY <1>1, <1>5 DEF KnownOK, LitterOK
  <2>3. Only(h)
    BY <1>1, <1>2, <2>1 DEF Only
  <2>4. StatesOK'
    BY <2>1 DEF IInv, StatesOK, Managed
  <2>5. LitterOK(h)'
    BY <1>1, <1>2, <1>3, <2>1, <2>2 DEF LitterOK
  <2>6. KnownOK(h)'
    BY <1>3, <2>1, <2>2 DEF KnownOK
  <2> QED
    BY <1>3, <2>3, <2>4, <2>5, <2>6, StepKeeps
<1> QED
  BY <1>4, <1>5

-----------------------------------------------------------------------------
(***************************************************************************)
(* hook-delete.sh                                                          *)
(***************************************************************************)
LEMMA DeleteRuns ==
  ASSUME IInv, NEW step, At("hook-delete", step)
  PROVE  \E h \in Managed \cap Hooks :
         /\ op[1].hook = h /\ op # None /\ op[1].step = step /\ On(h) /\ ~Putting(h) /\ LitterOK(h) /\ KnownOK(h)
         /\ tf[h] # None /\ Name[1] = h /\ Stated(h) = {Name}
<1>1. op # None /\ op[1].kind = "hook-delete" /\ op[1].step = step
  BY DEF At
<1>2. op[1].hook \in Managed /\ op[1].hook \in Hooks /\ tf[op[1].hook] # None /\ op[1].plan = tf[op[1].hook][1]
  BY <1>1 DEF IInv, OpOK, HookKinds, Managed
<1>3. On(op[1].hook) /\ ~Putting(op[1].hook)
  BY <1>1 DEF On, Putting, HookKinds
<1>4. Name[1] = op[1].hook /\ Stated(op[1].hook) = {Name}
  BY <1>2, NamesAre DEF Name, Stated
<1>5. LitterOK(op[1].hook) /\ KnownOK(op[1].hook)
  BY <1>2 DEF IInv
<1> QED
  BY <1>1, <1>2, <1>3, <1>4, <1>5

LEMMA DeleteGoesOn ==
  ASSUME IInv, NEW step, At("hook-delete", step), NEW next, Goto(next), UNCHANGED <<tf, touched>>, NEW h, op[1].hook = h
  PROVE  /\ op' # None /\ op'[1].hook = h /\ op'[1].step = next
         /\ On(h)' /\ ~Putting(h)' /\ Name' = Name /\ OpOK' /\ StatesOK' /\ Stated(h)' = Stated(h)
         /\ KnownOK(h) => KnownOK(h)'
<1>1. op # None /\ op[1].kind = "hook-delete" /\ OpOK
  BY DEF At, IInv
<1>2. /\ op' # None /\ op'[1].kind = op[1].kind /\ op'[1].hook = op[1].hook /\ op'[1].plan = op[1].plan
      /\ op'[1].step = next /\ op'[1].heard = op[1].heard
      /\ op' = <<[kind |-> op'[1].kind, hook |-> op'[1].hook, plan |-> op'[1].plan, step |-> op'[1].step, heard |-> op'[1].heard]>>
  BY <1>1, ScriptGoesOn
<1>3. OpOK'
  BY <1>1, <1>2 DEF OpOK, HookKinds, FileKinds, Managed
<1>4. StatesOK'
  BY DEF IInv, StatesOK, Managed
<1>5. On(h) /\ ~Putting(h) /\ On(h)' /\ ~Putting(h)' /\ Name' = Name
  BY <1>1, <1>2 DEF On, Putting, HookKinds, Name
<1>6. Stated(h)' = Stated(h)
  BY DEF Stated, Managed
<1>7. KnownOK(h) => KnownOK(h)'
  BY <1>2, <1>5 DEF KnownOK
<1> QED
  BY <1>2, <1>3, <1>4, <1>5, <1>6, <1>7

LEMMA DeleteUninstallKeeps ==
  ASSUME IInv, DeleteUninstall
  PROVE  IInv'
<1>1. PICK h \in Managed \cap Hooks :
      /\ op[1].hook = h /\ op # None /\ op[1].step = "uninstall" /\ On(h) /\ ~Putting(h) /\ LitterOK(h) /\ KnownOK(h)
      /\ tf[h] # None /\ Name[1] = h /\ Stated(h) = {Name}
  BY DeleteRuns DEF DeleteUninstall
<1>2. UNCHANGED <<stored, tf, touched, gone, litter>>
  BY DEF DeleteUninstall, history
<1>3. /\ op' # None /\ op'[1].hook = h /\ op'[1].step = "remove"
      /\ On(h)' /\ ~Putting(h)' /\ Name' = Name /\ OpOK' /\ StatesOK' /\ Stated(h)' = Stated(h)
      /\ KnownOK(h)'
  BY <1>1, <1>2, DeleteGoesOn DEF DeleteUninstall
<1>4. /\ DOMAIN installed' \subseteq DOMAIN installed
      /\ \A n : n # Name => Get(installed', n) = Get(installed, n)
  BY DEF DeleteUninstall, Remove, Get
<1>5. Only(h)
  BY <1>1, <1>2, <1>3, <1>4 DEF Only
<1>6. FilesOK' /\ FilesOf(h)' = FilesOf(h)
  BY <1>2, <1>4 DEF IInv, FilesOK, FilesOf
<1>7. LitterOK(h)'
  BY <1>1, <1>2, <1>3, <1>6 DEF LitterOK
<1> QED
  BY <1>3, <1>5, <1>6, <1>7, StepKeeps

LEMMA DeleteRemoveKeeps ==
  ASSUME IInv, DeleteRemove
  PROVE  IInv'
<1>1. PICK h \in Managed \cap Hooks :
      /\ op[1].hook = h /\ op # None /\ op[1].step = "remove" /\ On(h) /\ ~Putting(h) /\ LitterOK(h) /\ KnownOK(h)
      /\ tf[h] # None /\ Name[1] = h /\ Stated(h) = {Name}
  BY DeleteRuns DEF DeleteRemove
<1>2. UNCHANGED <<installed, tf, touched, gone, litter>> /\ stored' = Remove(stored, Name)
  BY DEF DeleteRemove, history
<1>3. /\ op' # None /\ op'[1].hook = h /\ op'[1].step = "answer"
      /\ On(h)' /\ ~Putting(h)' /\ Name' = Name /\ OpOK' /\ StatesOK' /\ Stated(h)' = Stated(h)
      /\ KnownOK(h)'
  BY <1>1, <1>2, DeleteGoesOn DEF DeleteRemove
<1>4. /\ DOMAIN stored' = DOMAIN stored \ {Name} /\ \A n \in DOMAIN stored' : stored'[n] = stored[n]
      /\ \A n : n # Name => Get(stored', n) = Get(stored, n)
  BY <1>2 DEF Remove, Get
<1>5. Only(h)
  BY <1>1, <1>2, <1>3, <1>4 DEF Only
<1>6. FilesOK' /\ FilesOf(h)' \subseteq FilesOf(h)
  BY <1>2, <1>4 DEF IInv, FilesOK, FilesOf
<1>7. LitterOK(h)'
  BY <1>1, <1>2, <1>3, <1>4, <1>6 DEF LitterOK
<1> QED
  BY <1>3, <1>5, <1>6, <1>7, StepKeeps

LEMMA DeleteAnswerKeeps ==
  ASSUME IInv, DeleteAnswer
  PROVE  IInv'
<1>1. PICK h \in Managed \cap Hooks :
      /\ op[1].hook = h /\ op # None /\ op[1].step = "answer" /\ On(h) /\ ~Putting(h) /\ LitterOK(h) /\ KnownOK(h)
      /\ tf[h] # None /\ Name[1] = h /\ Stated(h) = {Name}
  BY DeleteRuns DEF DeleteAnswer
<1>2. op' = None /\ UNCHANGED <<stored, installed, touched, litter>>
  BY DEF DeleteAnswer, router
<1>3. ~On(h)' /\ ~Putting(h)' /\ OpOK' /\ FilesOK' /\ FilesOf(h)' = FilesOf(h)
  BY <1>2 DEF On, Putting, OpOK, FilesOK, FilesOf, IInv
<1>4. CASE op[1].heard
  <2>1. tf' = [tf EXCEPT ![h] = None] /\ gone' = gone \cup {h}
    BY <1>1, <1>4 DEF DeleteAnswer
  <2>2. DOMAIN tf' = DOMAIN tf /\ tf'[h] = None /\ \A g \in DOMAIN tf \ {h} : tf'[g] = tf[g]
    BY <2>1 DEF Managed
  <2>3. Stated(h)' = {}
    BY <2>2 DEF Stated
  <2>4. Only(h)
    BY <1>1, <1>2, <2>1, <2>2 DEF Only
  <2>5. StatesOK'
    BY <2>2 DEF IInv, StatesOK, Managed
  <2>6. LitterOK(h)'
    <3>1. FilesOf(h) \subseteq litter \cup {Name} /\ Name \notin DOMAIN stored
      BY <1>1 DEF LitterOK, On, Putting, HookKinds
    <3>2. FilesOf(h) \subseteq DOMAIN stored
      BY DEF FilesOf
    <3> QED
      BY <1>2, <1>3, <2>3, <3>1, <3>2 DEF LitterOK
  <2>7. KnownOK(h)'
    BY <1>3, <2>2 DEF KnownOK, Good
  <2> QED
    BY <1>3, <2>4, <2>5, <2>6, <2>7, StepKeeps
<1>5. CASE ~op[1].heard
  <2>1. UNCHANGED <<tf, gone>>
    BY <1>5 DEF DeleteAnswer
  <2>2. h \in touched
    BY <1>1, <1>5 DEF KnownOK
  <2>3. Stated(h)' = Stated(h)
    BY <2>1 DEF Stated, Managed
  <2>4. Only(h)
    BY <1>1, <1>2, <2>1 DEF Only
  <2>5. StatesOK'
    BY <2>1 DEF IInv, StatesOK, Managed
  <2>6. LitterOK(h)'
    BY <1>1, <1>2, <1>3, <2>1, <2>3 DEF LitterOK
  <2>7. KnownOK(h)'
    BY <1>2, <1>3, <2>2 DEF KnownOK
  <2> QED
    BY <1>3, <2>4, <2>5, <2>6, <2>7, StepKeeps
<1> QED
  BY <1>4, <1>5

-----------------------------------------------------------------------------
(***************************************************************************)
(* The file's handlers and scripts, the router, and those who change it.   *)
(***************************************************************************)
\* A step that is not of a hook.
LEMMA FileStepKeeps ==
  ASSUME IInv, UNCHANGED <<stored, installed, touched, gone, litter>>,
         DOMAIN tf' = DOMAIN tf, \A h \in DOMAIN tf \ {PostCfg} : tf'[h] = tf[h],
         op # None => op[1].kind \notin HookKinds,
         op' # None =>
           /\ op' = <<[kind |-> op'[1].kind, hook |-> op'[1].hook, plan |-> op'[1].plan, step |-> op'[1].step, heard |-> op'[1].heard]>>
           /\ op'[1].heard \in BOOLEAN /\ op'[1].kind \in FileKinds
  PROVE  IInv'
<1>1. PostCfg \notin Hooks
  BY DEF IInv, StatesOK
<1>2. Only(PostCfg)
  BY DEF Only, HookKinds, FileKinds
<1>3. OpOK'
  BY DEF OpOK, HookKinds, FileKinds
<1>4. StatesOK'
  BY <1>1 DEF IInv, StatesOK, Managed
<1>5. FilesOK'
  BY DEF IInv, FilesOK
<1> QED
  BY <1>1, <1>2, <1>3, <1>4, <1>5, StepKeeps

\* A write of the file's state leaves the hooks'.
LEMMA FileSetIs ==
  ASSUME NEW state, FileSet(state)
  PROVE  DOMAIN tf' = DOMAIN tf /\ \A h \in DOMAIN tf \ {PostCfg} : tf'[h] = tf[h]
BY DEF FileSet

LEMMA FileHandlersKeep ==
  ASSUME IInv, File
  PROVE  IInv'
<1>1. ASSUME FileWrite
      PROVE  IInv'
  <2>1. PICK x \in Contents : Begin("file-put", None, x, "compare")
    BY <1>1 DEF FileWrite
  <2>2. UNCHANGED <<stored, installed, tf, touched, gone, litter>>
    BY <1>1, <2>1 DEF FileWrite, Begin, router, history
  <2>3. /\ op = None /\ op'[1].kind = "file-put" /\ op'[1].heard = TRUE
        /\ op' = <<[kind |-> op'[1].kind, hook |-> op'[1].hook, plan |-> op'[1].plan, step |-> op'[1].step, heard |-> op'[1].heard]>>
    BY <2>1, ScriptBegins
  <2> QED
    BY <2>2, <2>3, FileStepKeeps DEF FileKinds
<1>2. ASSUME Begin("file-delete", None, None, "remove"), UNCHANGED history
      PROVE  IInv'
  <2>1. UNCHANGED <<stored, installed, tf, touched, gone, litter>>
    BY <1>2 DEF Begin, router, history
  <2>2. /\ op = None /\ op'[1].kind = "file-delete" /\ op'[1].heard = TRUE
        /\ op' = <<[kind |-> op'[1].kind, hook |-> op'[1].hook, plan |-> op'[1].plan, step |-> op'[1].step, heard |-> op'[1].heard]>>
    BY <1>2, ScriptBegins
  <2> QED
    BY <2>1, <2>2, FileStepKeeps DEF FileKinds
<1>3. ASSUME NEW state, Idle, FileSet(state), UNCHANGED <<router, op, history>>
      PROVE  IInv'
  <2>1. UNCHANGED <<stored, installed, touched, gone, litter, op>> /\ op = None
    BY <1>3 DEF router, history, Idle
  <2>2. DOMAIN tf' = DOMAIN tf /\ \A h \in DOMAIN tf \ {PostCfg} : tf'[h] = tf[h]
    BY <1>3, FileSetIs
  <2> QED
    BY <2>1, <2>2, FileStepKeeps
<1> QED
  BY <1>1, <1>2, <1>3 DEF File, FileRead, FileImport, FileDelete

LEMMA FileScriptKeeps ==
  ASSUME IInv, FileScript
  PROVE  IInv'
<1>1. op # None /\ op[1].kind \in FileKinds /\ op[1].kind \notin HookKinds /\ OpOK
  BY DEF FileScript, FileCompare, FileBackup, FileMove, FileRemove, FileAnswer, At, FileKinds, HookKinds, IInv
<1>2. UNCHANGED <<stored, installed, touched, gone, litter>>
  BY DEF FileScript, FileCompare, FileBackup, FileMove, FileRemove, FileAnswer, router, history
<1>3. ASSUME NEW step, Goto(step), UNCHANGED tf
      PROVE  IInv'
  <2>1. /\ op' # None /\ op'[1].kind = op[1].kind /\ op'[1].heard = op[1].heard
        /\ op' = <<[kind |-> op'[1].kind, hook |-> op'[1].hook, plan |-> op'[1].plan, step |-> op'[1].step, heard |-> op'[1].heard]>>
    BY <1>1, <1>3, ScriptGoesOn
  <2>2. op'[1].heard \in BOOLEAN
    BY <1>1, <2>1 DEF OpOK
  <2> QED
    BY <1>1, <1>2, <1>3, <2>1, <2>2, FileStepKeeps
<1>4. ASSUME FileCompare
      PROVE  IInv'
  <2>0. PICK x : op' = <<[op[1] EXCEPT !.plan = x, !.step = IF file = x THEN "answer" ELSE "backup"]>>
    BY <1>4 DEF FileCompare
  <2>1. PICK step : op' = <<[op[1] EXCEPT !.plan = x, !.step = step]>>
    BY <2>0
  <2>2. op[1] = [kind |-> op[1].kind, hook |-> op[1].hook, plan |-> op[1].plan, step |-> op[1].step, heard |-> op[1].heard]
    BY <1>1 DEF OpOK
  <2>3. op' = <<op'[1]>> /\ op'[1] = [kind |-> op[1].kind, hook |-> op[1].hook, plan |-> x, step |-> step, heard |-> op[1].heard]
    <3>1. op' = <<op'[1]>> /\ op'[1] = [op[1] EXCEPT !.plan = x, !.step = step]
      BY <2>1
    <3> QED
      BY <2>2, <3>1
  <2>4. op'[1].kind = op[1].kind /\ op'[1].heard = op[1].heard
        /\ op' = <<[kind |-> op'[1].kind, hook |-> op'[1].hook, plan |-> op'[1].plan, step |-> op'[1].step, heard |-> op'[1].heard]>>
    BY <2>3
  <2>5. op'[1].heard \in BOOLEAN /\ UNCHANGED tf
    BY <1>1, <1>4, <2>4 DEF OpOK, FileCompare
  <2> QED
    BY <1>1, <1>2, <2>4, <2>5, FileStepKeeps
<1>5. ASSUME FileAnswer
      PROVE  IInv'
  <2>1. op' = None
    BY <1>5 DEF FileAnswer
  <2>2. DOMAIN tf' = DOMAIN tf /\ \A h \in DOMAIN tf \ {PostCfg} : tf'[h] = tf[h]
    BY <1>5, FileSetIs DEF FileAnswer
  <2> QED
    BY <1>1, <1>2, <2>1, <2>2, FileStepKeeps
<1> QED
  BY <1>3, <1>4, <1>5 DEF FileScript, FileBackup, FileMove, FileRemove

\* What is installed anew is what is stored.
LEMMA RebuildKeeps ==
  ASSUME IInv, Rebuild
  PROVE  IInv'
<1>1. UNCHANGED <<stored, tf, op, touched, gone, litter>>
  BY DEF Rebuild, history
<1>2. \A n : Get(installed', n) \in {Absent, Get(stored, n)}
  BY DEF Rebuild, Get, None
<1>3. OpOK' /\ StatesOK'
  BY <1>1 DEF IInv, OpOK, StatesOK, Managed
<1>4. FilesOK'
  <2>1. \A n \in DOMAIN installed' : n[1] \notin BootHooks
    BY DEF Rebuild, None
  <2> QED
    BY <1>1, <2>1 DEF IInv, FilesOK
<1>5. ASSUME NEW h \in Hooks
      PROVE  LitterOK(h)' /\ (h \in Managed' => KnownOK(h)')
  <2>1. LitterOK(h) /\ (h \in Managed => KnownOK(h)) /\ Managed' = Managed
    BY <1>1 DEF IInv, Managed
  <2>2. /\ FilesOf(h)' = FilesOf(h) /\ Stated(h)' = Stated(h) /\ Name' = Name
        /\ Putting(h)' = Putting(h) /\ On(h)' = On(h)
    BY <1>1 DEF FilesOf, Stated, Managed, Name, Putting, On
  <2>3. LitterOK(h)'
    BY <1>1, <2>1, <2>2 DEF LitterOK
  <2>4. Good(h) => Good(h)'
    BY <1>1, <1>2 DEF Good
  <2>5. ASSUME h \in Managed'
        PROVE  KnownOK(h)'
    BY <1>1, <1>2, <2>1, <2>2, <2>4, <2>5 DEF KnownOK
  <2> QED
    BY <2>3, <2>5
<1> QED
  BY <1>1, <1>3, <1>4, <1>5 DEF IInv

\* A lost session leaves the hook in doubt, with whatever the script of it still does.
LEMMA LostKeeps ==
  ASSUME IInv, Lost
  PROVE  IInv'
<1>1. /\ op # None /\ op[1].heard /\ OpOK /\ UNCHANGED <<stored, installed, tf, gone>>
      /\ op' \in {None, <<[op[1] EXCEPT !.heard = FALSE]>>}
  BY DEF Lost, router, IInv
<1>2. op' # None =>
        /\ op'[1].kind = op[1].kind /\ op'[1].hook = op[1].hook /\ op'[1].plan = op[1].plan
        /\ op'[1].step = op[1].step /\ op'[1].heard = FALSE
        /\ op' = <<[kind |-> op'[1].kind, hook |-> op'[1].hook, plan |-> op'[1].plan, step |-> op'[1].step, heard |-> op'[1].heard]>>
  <2>1. op[1] = [kind |-> op[1].kind, hook |-> op[1].hook, plan |-> op[1].plan, step |-> op[1].step, heard |-> op[1].heard]
    BY <1>1 DEF OpOK
  <2>2. op' # None =>
          op' = <<[kind |-> op[1].kind, hook |-> op[1].hook, plan |-> op[1].plan, step |-> op[1].step, heard |-> FALSE]>>
    BY <1>1, <2>1
  <2> QED
    BY <2>2
<1>3. OpOK'
  BY <1>1, <1>2 DEF OpOK, HookKinds, FileKinds, Managed
<1>4. CASE op[1].kind \notin HookKinds
  <2>1. UNCHANGED <<touched, litter>>
    BY <1>4 DEF Lost, HookKinds
  <2>2. op' # None => op'[1].heard \in BOOLEAN /\ op'[1].kind \in FileKinds
    BY <1>1, <1>2, <1>4 DEF OpOK
  <2> QED
    BY <1>1, <1>2, <1>4, <2>1, <2>2, FileStepKeeps
<1>5. CASE op[1].kind \in HookKinds
  <2>1. PICK h \in Managed \cap Hooks : op[1].hook = h
    BY <1>1, <1>5 DEF OpOK, Managed
  <2>2. /\ touched' = touched \cup {h}
        /\ litter' = IF op[1].kind = "hook-put" THEN litter \cup {Name, Tmp(Name)} ELSE litter
    BY <1>5, <2>1 DEF Lost, HookKinds
  <2>3. On(h) /\ (On(h)' <=> op' # None) /\ (Putting(h)' <=> Putting(h) /\ op' # None)
        /\ (Putting(h) <=> op[1].kind = "hook-put")
    BY <1>1, <1>2, <1>5, <2>1 DEF On, Putting
  <2>4. Stated(h)' = Stated(h) /\ FilesOf(h)' = FilesOf(h) /\ (op' # None => Name' = Name)
    BY <1>1, <1>2 DEF Stated, FilesOf, Managed, Name
  <2>5. Only(h)
    BY <1>1, <1>2, <2>1, <2>2 DEF Only
  <2>6. StatesOK' /\ FilesOK'
    BY <1>1 DEF IInv, StatesOK, FilesOK, Managed
  <2>7. LitterOK(h)'
    <3>1. LitterOK(h)
      BY <2>1 DEF IInv
    <3> QED
      BY <1>1, <1>2, <2>2, <2>3, <2>4, <3>1 DEF LitterOK
  <2>8. KnownOK(h)'
    BY <1>2, <2>2, <2>3 DEF KnownOK
  <2> QED
    BY <1>3, <2>5, <2>6, <2>7, <2>8, StepKeeps
<1> QED
  BY <1>4, <1>5

LEMMA EditKeeps ==
  ASSUME IInv, Edit
  PROVE  IInv'
<1>1. op = None /\ op' = None /\ UNCHANGED <<installed, tf, gone, litter>>
  BY DEF Edit, Idle
<1>2. CASE UNCHANGED <<stored, touched>>
  BY <1>1, <1>2, FileStepKeeps
<1>3. CASE \E n \in DOMAIN stored : stored' = Remove(stored, n) /\ touched' = touched \cup {n[1]}
  <2>1. PICK n \in DOMAIN stored : stored' = Remove(stored, n) /\ touched' = touched \cup {n[1]}
    BY <1>3
  <2>2. PICK h : h = n[1]
    OBVIOUS
  <2>3. /\ DOMAIN stored' = DOMAIN stored \ {n} /\ \A m \in DOMAIN stored' : stored'[m] = stored[m]
        /\ \A m : m # n => Get(stored', m) = Get(stored, m)
    BY <2>1 DEF Remove, Get
  <2>4. Only(h)
    BY <1>1, <2>1, <2>2, <2>3 DEF Only
  <2>5. OpOK' /\ StatesOK' /\ FilesOK'
    BY <1>1, <2>3 DEF IInv, OpOK, StatesOK, FilesOK, Managed
  <2>6. ASSUME h \in Hooks
        PROVE  LitterOK(h)' /\ KnownOK(h)'
    <3>1. LitterOK(h) /\ ~On(h) /\ ~Putting(h) /\ ~On(h)' /\ ~Putting(h)'
      BY <1>1, <2>6 DEF IInv, On, Putting
    <3>2. FilesOf(h)' \subseteq FilesOf(h) /\ Stated(h)' = Stated(h)
      BY <1>1, <2>3 DEF FilesOf, Stated, Managed
    <3>3. LitterOK(h)'
      BY <1>1, <3>1, <3>2 DEF LitterOK
    <3>4. KnownOK(h)'
      BY <2>1, <2>2, <3>1 DEF KnownOK
    <3> QED
      BY <3>3, <3>4
  <2> QED
    BY <2>4, <2>5, <2>6, StepKeeps
<1> QED
  BY <1>2, <1>3 DEF Edit

-----------------------------------------------------------------------------
LEMMA InitInvariant == Init => IInv
<1> SUFFICES ASSUME Init PROVE IInv
  OBVIOUS
<1>1. DOMAIN stored = {} /\ DOMAIN installed = {} /\ op = None /\ touched = {} /\ gone = {}
  BY DEF Init, None
<1>2. \A r \in DOMAIN tf : tf[r] = None
  BY DEF Init
<1>3. OpOK /\ StatesOK /\ FilesOK
  BY <1>1, <1>2, NamesAssumption DEF OpOK, StatesOK, FilesOK, Managed
<1>4. ASSUME NEW h \in Hooks
      PROVE  LitterOK(h) /\ (h \in Managed => KnownOK(h))
  <2>1. ~On(h) /\ ~Putting(h) /\ FilesOf(h) = {}
    BY <1>1 DEF On, Putting, FilesOf
  <2> QED
    BY <1>1, <1>2, <2>1 DEF LitterOK, KnownOK, Good, Managed
<1> QED
  BY <1>1, <1>3, <1>4 DEF IInv

LEMMA NextInvariant == IInv /\ [Next]_vars => IInv'
<1> SUFFICES ASSUME IInv, [Next]_vars PROVE IInv'
  OBVIOUS
<1>1. ASSUME NEW h \in DOMAIN tf \cap Hooks, Hook(h)
      PROVE  IInv'
  <2>1. h \in Managed
    BY DEF Managed
  <2>2. CASE HookCreate(h) \/ HookUpdate(h)
    <3>1. PICK plan \in Wanted[h] : BeginPut(h, plan)
      BY <2>2 DEF HookCreate, HookUpdate
    <3> QED
      BY <2>1, <3>1, PutBegins
  <2> QED
    BY <1>1, <2>1, <2>2, DeleteBegins, ReadKeeps DEF Hook
<1>2. CASE PutScript
  BY <1>2, PutRefusedKeeps, PutWriteKeeps, PutMoveKeeps, PutLoaderKeeps, PutInstallKeeps, PutAnswerKeeps DEF PutScript
<1>3. CASE DeleteScript
  BY <1>3, DeleteUninstallKeeps, DeleteRemoveKeeps, DeleteAnswerKeeps DEF DeleteScript
<1>4. CASE UNCHANGED vars
  <2>1. UNCHANGED <<stored, installed, tf, op, touched, gone, litter>>
    BY <1>4 DEF vars, router, history
  <2>2. OpOK' /\ StatesOK' /\ FilesOK'
    BY <2>1 DEF IInv, OpOK, StatesOK, FilesOK, Managed
  <2>3. ASSUME NEW h \in Hooks
        PROVE  LitterOK(h)' /\ (h \in Managed' => KnownOK(h)')
    <3>1. LitterOK(h)' = LitterOK(h)
      BY <2>1 DEF LitterOK, FilesOf, Stated, Managed, Putting, On, Name
    <3>2. KnownOK(h)' = KnownOK(h) /\ Managed' = Managed
      BY <2>1 DEF KnownOK, Good, Managed, Putting, On, Name
    <3> QED
      BY <3>1, <3>2 DEF IInv
  <2> QED
    BY <2>1, <2>2, <2>3 DEF IInv
<1> QED
  BY <1>1, <1>2, <1>3, <1>4, FileHandlersKeep, FileScriptKeeps, RebuildKeeps, LostKeeps, EditKeeps DEF Next

LEMMA HooksInvariant == Spec => []IInv
BY InitInvariant, NextInvariant, PTL DEF Spec

\* Whatever a hook's earlier priorities and lost puts left behind is known as litter: of a
\* hook that hook-delete.sh was heard to delete, the directory holds nothing else.
THEOREM DeletedLeavesOnlyLitter == Spec => []DeletedIsGone
<1>1. IInv => DeletedIsGone
  <2> SUFFICES ASSUME IInv, NEW h \in gone PROVE FilesOf(h) \subseteq litter
    BY DEF DeletedIsGone
  <2>1. LitterOK(h)
    BY DEF IInv
  <2> QED
    BY <2>1 DEF LitterOK
<1> QED
  BY <1>1, HooksInvariant, PTL

\* Between two scripts of its own, a hook nobody interfered with is stored as device_hook.go's
\* state says, and installed as it is stored or not at all.
THEOREM KnownHooksAreStored == Spec => []KnownIsStored
<1>1. IInv => KnownIsStored
  <2> SUFFICES ASSUME IInv, NEW h \in Hooks, Known(h)
               PROVE  LET name == FileName(h, tf[h][1].priority) IN
                      Get(stored, name) = tf[h][1].script /\ Get(installed, name) \in {Absent, stored[name]}
    BY DEF KnownIsStored
  <2>1. h \in Managed /\ tf[h] # None /\ ~On(h) /\ h \notin touched
    BY DEF Known, Managed, On
  <2>2. Good(h)
    BY <2>1 DEF IInv, KnownOK
  <2>3. tf[h][1].script # Absent
    BY <2>1 DEF IInv, StatesOK
  <2> QED
    BY <2>1, <2>2, <2>3 DEF Good, Get
<1> QED
  BY <1>1, HooksInvariant, PTL

-----------------------------------------------------------------------------
\* Before the first write there is no copy, which the first write makes and no other replaces.
OriginalOK == (original = None => backup = Absent) /\ OriginalKept

THEOREM OriginalIsKept == Spec => []OriginalKept
<1>1. Init => OriginalOK
  BY DEF Init, OriginalOK, OriginalKept
<1>2. OriginalOK /\ [Next]_vars => OriginalOK'
  <2> SUFFICES ASSUME OriginalOK, [Next]_vars PROVE OriginalOK'
    OBVIOUS
  <2>1. CASE FileBackup
    BY <2>1 DEF FileBackup, OriginalOK, OriginalKept, None
  <2>2. CASE UNCHANGED <<original, backup>>
    BY <2>2 DEF OriginalOK, OriginalKept
  <2>3. ASSUME NEW h \in DOMAIN tf \cap Hooks, Hook(h)
        PROVE  UNCHANGED <<original, backup>>
    BY <2>3 DEF Hook, HookCreate, HookUpdate, HookRead, HookDelete, BeginPut, Begin, router, history
  <2>4. PutScript \/ DeleteScript => UNCHANGED <<original, backup>>
    BY DEF PutScript, DeleteScript, PutRefused, PutWrite, PutMove, PutLoader, PutInstall, PutAnswer,
           DeleteUninstall, DeleteRemove, DeleteAnswer, router, history
  <2>5. File => UNCHANGED <<original, backup>>
    BY DEF File, FileWrite, FileRead, FileImport, FileDelete, Begin, router, history
  <2>6. FileScript => FileBackup \/ UNCHANGED <<original, backup>>
    BY DEF FileScript, FileCompare, FileMove, FileRemove, FileAnswer, router, history
  <2>7. Rebuild \/ Lost \/ Edit \/ UNCHANGED vars => UNCHANGED <<original, backup>>
    BY DEF Rebuild, Lost, Edit, vars, router, history
  <2> QED
    BY <2>1, <2>2, <2>3, <2>4, <2>5, <2>6, <2>7 DEF Next
<1>3. OriginalOK => OriginalKept
  BY DEF OriginalOK
<1> QED
  BY <1>1, <1>2, <1>3, PTL DEF Spec
=============================================================================
