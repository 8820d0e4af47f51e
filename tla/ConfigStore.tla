----------------------------- MODULE ConfigStore -----------------------------
(***************************************************************************)
(* The configuration and its copies.  config.yaml is written whole by the   *)
(* engine worker, the D-Bus service, the settings window and the command    *)
(* line; the worker, the service and the window each hold a copy, and only  *)
(* the worker compares its copy with the file (src/config.rs,               *)
(* unim-dbus/src/engine_worker.rs, unim-dbus/src/service.rs,                *)
(* unim-settings-gtk/src/settings_dialog.rs, unim-cli/src/main.rs).         *)
(*                                                                          *)
(* The file has no lock.  Whoever reads it, changes what was read and writes *)
(* it back - the hotkey, the window, the command line - does so in two       *)
(* steps, and what another process writes between the two is lost.  Each     *)
(* read that a write is to follow records the time stamp it was made at.     *)
(*                                                                          *)
(* A configuration is three fields: the layout, of which the engines are    *)
(* built; the switch of auto-typefix, which a hotkey of the worker writes;  *)
(* and the default category, which the worker changes in memory.            *)
(***************************************************************************)
EXTENDS Naturals, FiniteSets

CONSTANTS
  Layouts,   \* Korean layouts
  Contexts,  \* input contexts
  Start,     \* the file at the first start
  MaxWrites  \* bound: saves of the file, those that fail too

Categories == {"Korean", "English"}
Settings   == [layout : Layouts, switch : BOOLEAN, category : Categories]
Fields     == {"layout", "switch", "category"}
NotBuilt   == "none"

ValuesOf(f) ==
  CASE f = "layout" -> Layouts [] f = "switch" -> BOOLEAN [] f = "category" -> Categories

\* The configuration s with v in the field f
With(s, f, v) ==
  [layout   |-> IF f = "layout" THEN v ELSE s.layout,
   switch   |-> IF f = "switch" THEN v ELSE s.switch,
   category |-> IF f = "category" THEN v ELSE s.category]

ASSUME ConfigAssumption ==
  /\ Start \in Settings
  /\ NotBuilt \notin Layouts
  /\ MaxWrites \in Nat

VARIABLES
  file,    \* the content of config.yaml
  mtime,   \* its modification time
  cfg,     \* the worker's copy
  last,    \* last_modified of that copy; 0 for None
  hot,     \* between the hotkey's read and its write: the file's time then; else 0
  fp,      \* korean_fp: the layout the last reload compared with
  built,   \* the layout each context's engine was built with
  pending, \* pending_korean_rebuild
  own,     \* the service's copy
  calls,   \* SetConfigYaml calls under way
  asked,   \* a SetGlobalMode request the worker has not read
  gui,     \* the settings window: its copy, its baseline, whether it has saved
  saving,  \* the save that window is in, from its load of the file to its write
  commands,\* what the command line, having read the file, is about to write
  fails,   \* the saves that have failed, for the bound
  early,   \* history: contexts built with a layout no reload had compared
  alone    \* history: only the window has changed the file since it opened

daemon == <<cfg, last, hot, fp, built, pending, own, calls, asked>>
others == <<gui, saving, commands>>
vars   == <<file, mtime, daemon, others, fails, early, alone>>

-----------------------------------------------------------------------------
(* The file.  A save is a whole file, renamed into place (atomic_write).    *)

\* The saves there have been and those that a read has begun
Begun ==
  mtime + fails + (IF hot = 0 THEN 0 ELSE 1) + Cardinality(saving) + Cardinality(commands)

MayWrite == Begun <= MaxWrites

\* save_to_path
Save(content) ==
  /\ file' = content
  /\ mtime' = mtime + 1

\* A save by anyone but the settings window
SaveElsewhere(content) ==
  /\ Save(content)
  /\ alone' = (alone /\ content = file)

NeedsReload == last = 0 \/ mtime > last

\* Mutant: the throttle also holds for the hotkey.
ReloadedThrottled == cfg

\* reload_now
Reloaded == IF NeedsReload THEN file ELSE cfg

-----------------------------------------------------------------------------
(* The engine worker, one thread: the handler of the hotkey is not interrupted *)
(* by another request.                                                       *)

\* The prologue of a request more than two seconds after the last look: reload
\* and, when the layout is another than at the last reload, rebuild each engine
\* that composes nothing and put off the others.  (load_from_path takes the time
\* before the content: a write between the two makes the next look read again.)
Poll ==
  /\ hot = 0 /\ NeedsReload
  /\ cfg' = file /\ last' = mtime /\ fp' = file.layout
  /\ IF file.layout = fp
     THEN UNCHANGED <<built, pending, early>>
     ELSE \E composing \in SUBSET {c \in Contexts : built[c] # NotBuilt} :
            LET idle == {c \in Contexts : built[c] # NotBuilt} \ composing IN
            /\ built' = [c \in Contexts |->
                           IF c \in idle THEN file.layout ELSE built[c]]
            /\ pending' = (pending \ idle) \cup composing
            /\ early' = early \ idle
  /\ UNCHANGED <<file, mtime, hot, own, calls, asked, others, fails, alone>>

\* Mutant: a context that is gone stays in the set.
PendingWithoutNone(c) == pending

PendingWithout(c) == pending \ {c}

\* An engine built from the worker's copy may be built with a layout that came
\* by the hotkey, which leaves korean_fp alone.
Build(c) ==
  /\ hot = 0
  /\ built' = [built EXCEPT ![c] = cfg.layout]
  /\ pending' = PendingWithout(c)
  /\ early' = IF cfg.layout = fp THEN early \ {c} ELSE early \cup {c}
  /\ UNCHANGED <<file, mtime, cfg, last, hot, fp, own, calls, asked, others, fails,
                 alone>>

\* The prologue of a request once the composition has ended
RebuildPending(c) == c \in pending /\ Build(c)

CreateContext(c) == built[c] = NotBuilt /\ Build(c)

DestroyContext(c) ==
  /\ hot = 0 /\ built[c] # NotBuilt
  /\ built' = [built EXCEPT ![c] = NotBuilt]
  /\ pending' = PendingWithout(c)
  /\ early' = early \ {c}
  /\ UNCHANGED <<file, mtime, cfg, last, hot, fp, own, calls, asked, others, fails,
                 alone>>

\* A toggle key where the category is shared, and a fix in either sharing
ChangeCategory ==
  /\ hot = 0
  /\ \E v \in Categories \ {cfg.category} : cfg' = With(cfg, "category", v)
  /\ UNCHANGED <<file, mtime, last, hot, fp, built, pending, own, calls, asked, others,
                 fails, early, alone>>

\* Mutant: the time is taken from the file just written.
TimeAfterHotkeySynced == mtime + 1

TimeAfterHotkey == 0

\* The auto-typefix hotkey reads the file whatever the throttle and turns the
\* switch; reload_now keeps the time of a copy it does not replace.
HotkeyRead ==
  /\ hot = 0 /\ MayWrite
  /\ cfg' = With(Reloaded, "switch", ~Reloaded.switch)
  /\ last' = IF NeedsReload THEN mtime ELSE last
  /\ hot' = mtime
  /\ UNCHANGED <<file, mtime, fp, built, pending, own, calls, asked, others, fails,
                 early, alone>>

\* Then it writes the whole copy, and forgets the time so that the next look reads
\* again.
HotkeyWrite ==
  /\ hot # 0 /\ hot' = 0
  /\ SaveElsewhere(cfg)
  /\ last' = TimeAfterHotkey
  /\ UNCHANGED <<cfg, fp, built, pending, own, calls, asked, others, fails, early>>

\* The save fails: the switch is turned in memory, until the file is read again.
HotkeyFails ==
  /\ hot # 0 /\ hot' = 0
  /\ fails' = fails + 1
  /\ last' = TimeAfterHotkey
  /\ UNCHANGED <<file, mtime, cfg, fp, built, pending, own, calls, asked, others,
                 early, alone>>

WorkerGlobalMode ==
  /\ hot = 0 /\ asked \in Categories
  /\ cfg' = With(cfg, "category", asked)
  /\ asked' = "none"
  /\ UNCHANGED <<file, mtime, last, hot, fp, built, pending, own, calls, others,
                 fails, early, alone>>

-----------------------------------------------------------------------------
(* The D-Bus service.  Its methods are tasks of their own; the lock covers   *)
(* one access to its copy, not a whole SetConfigYaml.                        *)

\* set_config: the key is changed in the service's copy, which is written whole.
SetConfig(f, v) ==
  /\ MayWrite
  /\ own' = With(own, f, v)
  /\ SaveElsewhere(own')
  /\ UNCHANGED <<cfg, last, hot, fp, built, pending, calls, asked, others, fails,
                 early>>

\* set_config_yaml: the file first, the service's copy after it.
YamlSave(call) ==
  /\ MayWrite
  /\ call \in calls /\ ~call.saved
  /\ SaveElsewhere(call.content)
  /\ calls' = (calls \ {call}) \cup {[call EXCEPT !.saved = TRUE]}
  /\ UNCHANGED <<cfg, last, hot, fp, built, pending, own, asked, others, fails, early>>

YamlReplace(call) ==
  /\ call \in calls /\ call.saved
  /\ own' = call.content
  /\ calls' = calls \ {call}
  /\ UNCHANGED <<file, mtime, cfg, last, hot, fp, built, pending, asked, others,
                 fails, early, alone>>

\* set_global_mode: its own copy in memory, and a request to the worker.
SetGlobalMode(v) ==
  /\ asked = "none"
  /\ own' = With(own, "category", v)
  /\ asked' = v
  /\ UNCHANGED <<file, mtime, cfg, last, hot, fp, built, pending, calls, others,
                 fails, early, alone>>

-----------------------------------------------------------------------------
(* The settings window.                                                     *)

Window(ui, base, edited) ==
  [open |-> TRUE, ui |-> ui, base |-> base, edited |-> edited]
Closed == [open |-> FALSE, ui |-> Start, base |-> Start, edited |-> FALSE]

OpenWindow ==
  /\ ~gui.open /\ MayWrite
  /\ gui' = Window(file, file, FALSE)
  /\ alone' = TRUE
  /\ UNCHANGED <<file, mtime, daemon, saving, commands, fails, early>>

CloseWindow ==
  /\ gui.open /\ saving = {}
  /\ gui' = Closed
  /\ UNCHANGED <<file, mtime, daemon, saving, commands, fails, early, alone>>

\* Mutant: the window's value always wins.
MergeFieldAlways(disk, base, ui) == ui

\* merge_field: a field that equals the baseline keeps the file's value.
MergeField(disk, base, ui) == IF base = ui THEN disk ELSE ui

\* merge_gtk_ui_owned
Merged(disk, base, ui) ==
  [layout   |-> MergeField(disk.layout, base.layout, ui.layout),
   switch   |-> MergeField(disk.switch, base.switch, ui.switch),
   category |-> MergeField(disk.category, base.category, ui.category)]

\* Mutant: the baseline stays that of the session's start.
NextBaselineFixed(written) == gui.base

\* set_gtk_config_baseline after a save
NextBaseline(written) == written

\* A control changes the window's copy; save_and_notify loads the file and merges.
ChangeLoad(f, v) ==
  LET ui == With(gui.ui, f, v)
  IN  /\ gui.open /\ saving = {} /\ gui.ui[f] # v
      /\ MayWrite
      /\ gui' = Window(ui, gui.base, gui.edited)
      /\ saving' = {[at |-> mtime, field |-> f, content |-> Merged(file, gui.base, ui)]}
      /\ UNCHANGED <<file, mtime, daemon, commands, fails, early, alone>>

\* It writes, makes what it wrote the baseline and sends it to the daemon.
ChangeSave(s) ==
  /\ Save(s.content)
  /\ gui' = Window(gui.ui, NextBaseline(s.content), TRUE)
  /\ saving' = {}
  /\ calls' = calls \cup {[id |-> mtime, content |-> s.content, saved |-> FALSE]}
  /\ UNCHANGED <<cfg, last, hot, fp, built, pending, own, asked, commands, fails,
                 early, alone>>

\* The save fails: the window keeps its copy and its baseline, and tells the user.
ChangeFails(s) ==
  /\ fails' = fails + 1
  /\ gui' = Window(gui.ui, gui.base, TRUE)
  /\ saving' = {}
  /\ UNCHANGED <<file, mtime, daemon, commands, early, alone>>

\* The daemon is not there, or the call fails.
CallFails(call) ==
  /\ call \in calls /\ ~call.saved
  /\ calls' = calls \ {call}
  /\ UNCHANGED <<file, mtime, cfg, last, hot, fp, built, pending, own, asked, others,
                 fails, early,
                 alone>>

-----------------------------------------------------------------------------
(* The command line, and a daemon that ends and is started again.            *)

\* config_set reads the file and changes one key; one command at a time.
CommandRead(f, v) ==
  /\ commands = {} /\ MayWrite
  /\ commands' = {With(file, f, v)}
  /\ UNCHANGED <<file, mtime, daemon, gui, saving, fails, early, alone>>

\* Then it writes the whole.
CommandWrite(content) ==
  /\ SaveElsewhere(content)
  /\ commands' = commands \ {content}
  /\ UNCHANGED <<daemon, gui, saving, fails, early>>

\* config_reset writes the default without a look at the file.
CommandReset ==
  /\ MayWrite
  /\ SaveElsewhere(Start)
  /\ UNCHANGED <<daemon, others, fails, early>>

\* The copies are read anew; contexts, calls and what was only in memory are lost,
\* the write of a hotkey among them.
Restart ==
  /\ cfg' = file /\ last' = mtime /\ hot' = 0 /\ fp' = file.layout /\ own' = file
  /\ built' = [c \in Contexts |-> NotBuilt]
  /\ pending' = {} /\ early' = {} /\ calls' = {} /\ asked' = "none"
  /\ UNCHANGED <<file, mtime, others, fails, alone>>

-----------------------------------------------------------------------------
Init ==
  /\ file = Start /\ mtime = 1
  /\ cfg = Start /\ last = 1 /\ hot = 0 /\ fp = Start.layout /\ own = Start
  /\ built = [c \in Contexts |-> NotBuilt]
  /\ pending = {} /\ early = {} /\ calls = {} /\ asked = "none"
  /\ gui = Closed /\ saving = {} /\ commands = {} /\ fails = 0 /\ alone = TRUE

Next ==
  \/ Poll \/ ChangeCategory \/ WorkerGlobalMode
  \/ HotkeyRead \/ HotkeyWrite \/ HotkeyFails
  \/ \E c \in Contexts : RebuildPending(c) \/ CreateContext(c) \/ DestroyContext(c)
  \/ \E f \in Fields : \E v \in ValuesOf(f) :
       SetConfig(f, v) \/ ChangeLoad(f, v) \/ CommandRead(f, v)
  \/ \E v \in Categories : SetGlobalMode(v)
  \/ \E call \in calls : YamlSave(call) \/ YamlReplace(call) \/ CallFails(call)
  \/ OpenWindow \/ CloseWindow
  \/ \E s \in saving : ChangeSave(s) \/ ChangeFails(s)
  \/ \E content \in commands : CommandWrite(content)
  \/ CommandReset \/ Restart

\* Requests keep coming, some two seconds after the last look, a composition ends,
\* and the worker does not stop within the hotkey.  (The hotkey's requests are
\* bounded.  Were they not, Poll and RebuildPending would be strongly fair: the
\* hotkey's own request looks at the file first, once the two seconds are over.)
Fairness ==
  /\ WF_vars(Poll)
  /\ WF_vars(HotkeyWrite \/ HotkeyFails)
  /\ \A c \in Contexts : WF_vars(RebuildPending(c))

Spec == Init /\ [][Next]_vars /\ Fairness

-----------------------------------------------------------------------------
(* Properties.                                                              *)

\* Every variable has its type, no copy is newer than the file, and only a living
\* context waits for its rebuild.
ConfigTypeOK ==
  /\ file \in Settings /\ cfg \in Settings /\ own \in Settings
  /\ mtime \in Nat \ {0} /\ last \in 0..mtime /\ hot \in 0..mtime
  /\ fp \in Layouts
  /\ built \in [Contexts -> Layouts \cup {NotBuilt}]
  /\ pending \subseteq {c \in Contexts : built[c] # NotBuilt} /\ early \subseteq Contexts
  /\ calls \subseteq [id : Nat, content : Settings, saved : BOOLEAN]
  /\ asked \in Categories \cup {"none"}
  /\ gui \in [open : BOOLEAN, ui : Settings, base : Settings, edited : BOOLEAN]
  /\ saving \subseteq [at : 1..mtime, field : Fields, content : Settings]
  /\ commands \subseteq Settings /\ fails \in Nat
  /\ alone \in BOOLEAN

\* The hotkey writes a copy of the whole configuration, taken when it was last
\* read, and yet undoes no change of the layout that was in the file when its
\* handler read it, however long before (engine_worker.rs, the "lost update" the
\* persist path speaks of).  A change between its read and its write is undone:
\* that is what hot = mtime leaves out.
HotkeyRebases ==
  [][HotkeyWrite /\ hot = mtime =>
       file'.layout = file.layout /\ file'.switch = ~file.switch]_vars

\* The first save of a settings window writes only the field the user changed:
\* what anyone wrote between the opening of the window and the load of that save
\* stays.  What is written between the load and the save does not.
FirstSaveKeepsUnedited ==
  [][\A s \in saving : ChangeSave(s) /\ ~gui.edited /\ s.at = mtime =>
       \A g \in Fields \ {s.field} : file'[g] = file[g]]_vars

\* As long as no one else has changed the file, what the user chooses in the
\* window is in the file, a return to the first value included, and a choice
\* that follows a save that failed.
ChangeReachesFile ==
  [][\A s \in saving : ChangeSave(s) /\ alone => file'[s.field] = gui.ui[s.field]]_vars

\* Whoever wrote the file last, and however the writes and the worker's own
\* write fell, every engine comes to be built with the layout of the file; but for
\* one built between the hotkey, which takes another's layout into the worker's
\* copy, and the reload that follows it.
EnginesFollow ==
  <>[](\A c \in Contexts : built[c] \in {NotBuilt, file.layout} \/ c \in early)
=============================================================================
