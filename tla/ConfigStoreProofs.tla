-------------------------- MODULE ConfigStoreProofs --------------------------
(***************************************************************************)
(* What is proved of ConfigStore for every set of layouts and contexts and   *)
(* every bound: the types, which changes of others the hotkey keeps, and     *)
(* what a settings window writes, when nothing is written within their save. *)
(***************************************************************************)
EXTENDS ConfigStore, TLAPS

USE ConfigAssumption

-----------------------------------------------------------------------------
(* A configuration with one field changed is a configuration.               *)

LEMMA WithType ==
  ASSUME NEW s \in Settings, NEW f \in Fields, NEW v \in ValuesOf(f)
  PROVE  /\ With(s, f, v) \in Settings
         /\ f = "layout" => With(s, f, v).layout = v
         /\ f = "switch" => With(s, f, v).switch = v
         /\ f = "category" => With(s, f, v).category = v
         /\ f # "layout" => With(s, f, v).layout = s.layout
         /\ f # "switch" => With(s, f, v).switch = s.switch
         /\ f # "category" => With(s, f, v).category = s.category
<1>1. CASE f = "layout" BY <1>1 DEF With, Settings, ValuesOf, Fields
<1>2. CASE f = "switch" BY <1>2 DEF With, Settings, ValuesOf, Fields
<1>3. CASE f = "category" BY <1>3 DEF With, Settings, ValuesOf, Fields
<1> QED BY <1>1, <1>2, <1>3 DEF Fields

LEMMA WithCategory ==
  ASSUME NEW s \in Settings, NEW v \in Categories
  PROVE  /\ With(s, "category", v) \in Settings
         /\ With(s, "category", v).layout = s.layout
         /\ With(s, "category", v).switch = s.switch
BY DEF With, Settings

LEMMA WithSwitch ==
  ASSUME NEW s \in Settings
  PROVE  /\ With(s, "switch", ~s.switch) \in Settings
         /\ With(s, "switch", ~s.switch).layout = s.layout
         /\ With(s, "switch", ~s.switch).switch = ~s.switch
BY DEF With, Settings

LEMMA MergedType ==
  ASSUME NEW disk \in Settings, NEW base \in Settings, NEW ui \in Settings
  PROVE  /\ Merged(disk, base, ui) \in Settings
         /\ Merged(disk, base, ui).layout = MergeField(disk.layout, base.layout, ui.layout)
         /\ Merged(disk, base, ui).switch = MergeField(disk.switch, base.switch, ui.switch)
         /\ Merged(disk, base, ui).category
              = MergeField(disk.category, base.category, ui.category)
BY DEF Merged, MergeField, Settings

-----------------------------------------------------------------------------
(* The inductive invariant: beside the types, a copy as old as the file says *)
(* what the file says (but for the switch, while the hotkey is about to write *)
(* it), a window that is alone with the file has not drifted from it, and     *)
(* what a window is about to write is what it merged, as long as the file is   *)
(* the one it merged with.                                                    *)

CopyFresh ==
  hot = 0 /\ last = mtime => cfg.layout = file.layout /\ cfg.switch = file.switch

HotkeyFresh ==
  hot = mtime => cfg.layout = file.layout /\ cfg.switch = ~file.switch

WindowFresh ==
  /\ gui.open /\ saving = {} /\ ~gui.edited => gui.ui = gui.base
  /\ gui.open /\ alone => file = gui.base

MergeFresh ==
  \A s \in saving :
    /\ gui.open
    /\ ~gui.edited /\ s.at = mtime =>
         \A g \in Fields \ {s.field} : s.content[g] = file[g]
    /\ alone => s.content[s.field] = gui.ui[s.field]

AllFresh == CopyFresh /\ HotkeyFresh /\ WindowFresh /\ MergeFresh

ConfigInv == ConfigTypeOK /\ AllFresh

\* Steps that write no file, leave the worker's copy as it is, but for the category,
\* and touch no window.
FreshFrame ==
  /\ cfg'.layout = cfg.layout /\ cfg'.switch = cfg.switch
  /\ UNCHANGED <<file, mtime, last, hot, gui, saving, alone>>

LEMMA FrameFresh == AllFresh /\ FreshFrame => AllFresh'
BY DEF AllFresh, FreshFrame, CopyFresh, HotkeyFresh, WindowFresh, MergeFresh

GuiType == [open : BOOLEAN, ui : Settings, base : Settings, edited : BOOLEAN]
SavingType == [at : 1..mtime, field : Fields, content : Settings]
CallType == [id : Nat, content : Settings, saved : BOOLEAN]

LEMMA WindowType ==
  ASSUME NEW ui \in Settings, NEW base \in Settings, NEW edited \in BOOLEAN
  PROVE  /\ Window(ui, base, edited) \in GuiType
         /\ Window(ui, base, edited).open
         /\ Window(ui, base, edited).ui = ui
         /\ Window(ui, base, edited).base = base
         /\ Window(ui, base, edited).edited = edited
BY DEF Window, GuiType

LEMMA ConfigInit == Init => ConfigInv
<1> SUFFICES ASSUME Init PROVE ConfigInv OBVIOUS
<1>1. gui \in GuiType /\ ~gui.open BY DEF Init, Closed, GuiType
<1>2. ConfigTypeOK
  <2>1. built \in [Contexts -> Layouts \cup {NotBuilt}] BY DEF Init
  <2>2. fp \in Layouts BY DEF Init, Settings
  <2>3. calls \subseteq CallType BY DEF Init
  <2> QED BY <1>1, <2>1, <2>2, <2>3 DEF Init, ConfigTypeOK, GuiType, CallType, Fields
<1>3. CopyFresh /\ HotkeyFresh BY DEF Init, CopyFresh, HotkeyFresh
<1>4. WindowFresh BY <1>1 DEF WindowFresh
<1>5. MergeFresh BY DEF Init, MergeFresh
<1> QED BY <1>2, <1>3, <1>4, <1>5 DEF ConfigInv, AllFresh

\* A write by anyone but the window moves the file past the worker's copy, past what
\* the hotkey and the window read, and past the window unless it changes nothing.
LEMMA SavedElsewhere ==
  ASSUME ConfigInv, NEW content \in Settings, SaveElsewhere(content),
         UNCHANGED <<gui, saving>>,
         last' = 0 \/ UNCHANGED last,
         hot' = 0 \/ UNCHANGED hot
  PROVE  /\ file' \in Settings /\ mtime' \in Nat \ {0} /\ alone' \in BOOLEAN
         /\ last' \in 0..mtime' /\ hot' \in 0..mtime'
         /\ saving' \subseteq SavingType'
         /\ AllFresh'
<1>1. file' = content /\ mtime' = mtime + 1 /\ alone' = (alone /\ content = file)
  BY DEF SaveElsewhere, Save
<1>2. /\ mtime \in Nat \ {0} /\ last \in 0..mtime /\ hot \in 0..mtime
      /\ alone \in BOOLEAN /\ saving \subseteq SavingType
  BY DEF ConfigInv, ConfigTypeOK, SavingType
<1>3. /\ last' \in 0..mtime' /\ last' # mtime'
      /\ hot' \in 0..mtime' /\ hot' # mtime'
  BY <1>1, <1>2
<1>4. saving' \subseteq SavingType'
  <2>1. 1..mtime \subseteq 1..mtime' BY <1>1, <1>2
  <2> QED BY <1>2, <2>1 DEF SavingType
<1>5. alone' => alone /\ file' = file BY <1>1, <1>2
<1>6. WindowFresh' BY <1>5 DEF ConfigInv, AllFresh, WindowFresh
<1>7. MergeFresh'
  <2> SUFFICES ASSUME NEW s \in saving
               PROVE  /\ gui.open
                      /\ s.at # mtime'
                      /\ alone' => s.content[s.field] = gui.ui[s.field]
    BY DEF MergeFresh
  <2>1. s.at \in 1..mtime BY <1>2 DEF SavingType
  <2>2. s.at # mtime' BY <1>1, <1>2, <2>1
  <2> QED BY <1>5, <2>2 DEF ConfigInv, AllFresh, MergeFresh
<1>8. CopyFresh' /\ HotkeyFresh' BY <1>3 DEF CopyFresh, HotkeyFresh
<1> QED BY <1>1, <1>2, <1>3, <1>4, <1>6, <1>7, <1>8 DEF AllFresh

-----------------------------------------------------------------------------
(* One step for each action.                                                *)

LEMMA PollKeeps == ConfigInv /\ Poll => ConfigInv'
<1> SUFFICES ASSUME ConfigInv, Poll PROVE ConfigInv' OBVIOUS
<1> USE DEF ConfigInv
<1>1. cfg' \in Settings /\ fp' \in Layouts /\ last' \in 0..mtime' /\ mtime' \in Nat \ {0}
  BY DEF Poll, ConfigTypeOK, Settings
<1>2. /\ built' \in [Contexts -> Layouts \cup {NotBuilt}]
      /\ pending' \subseteq {c \in Contexts : built'[c] # NotBuilt}
      /\ early' \subseteq Contexts
  <2>1. CASE file.layout = fp BY <2>1 DEF Poll, ConfigTypeOK
  <2>2. CASE file.layout # fp
    <3>1. file.layout \in Layouts BY DEF ConfigTypeOK, Settings
    <3>2. PICK composing \in SUBSET {c \in Contexts : built[c] # NotBuilt} :
            LET idle == {c \in Contexts : built[c] # NotBuilt} \ composing IN
            /\ built' = [c \in Contexts |-> IF c \in idle THEN file.layout ELSE built[c]]
            /\ pending' = (pending \ idle) \cup composing
            /\ early' = early \ idle
      BY <2>2 DEF Poll
    <3>3. built' \in [Contexts -> Layouts \cup {NotBuilt}]
      BY <3>1, <3>2 DEF ConfigTypeOK
    <3>4. \A c \in Contexts : built[c] # NotBuilt => built'[c] # NotBuilt
      BY <3>1, <3>2 DEF ConfigTypeOK
    <3>5. early' \subseteq Contexts BY <3>2 DEF ConfigTypeOK
    <3>6. pending' \subseteq {c \in Contexts : built[c] # NotBuilt}
      BY <3>2 DEF ConfigTypeOK
    <3> QED BY <3>3, <3>4, <3>5, <3>6
  <2> QED BY <2>1, <2>2
<1>3. ConfigTypeOK' BY <1>1, <1>2 DEF Poll, others, ConfigTypeOK
<1>4. CopyFresh' /\ HotkeyFresh' BY DEF Poll, CopyFresh, HotkeyFresh, ConfigTypeOK
<1>5. WindowFresh' BY DEF Poll, others, AllFresh, WindowFresh
<1>6. MergeFresh' BY DEF Poll, others, AllFresh, MergeFresh
<1> QED BY <1>3, <1>4, <1>5, <1>6 DEF AllFresh

LEMMA BuildKeeps ==
  ASSUME ConfigInv, NEW c \in Contexts, Build(c)
  PROVE  ConfigInv'
<1> USE DEF ConfigInv
<1>1. cfg.layout \in Layouts /\ cfg.layout # NotBuilt BY DEF ConfigTypeOK, Settings
<1>2. /\ built' \in [Contexts -> Layouts \cup {NotBuilt}]
      /\ \A d \in Contexts : built[d] # NotBuilt => built'[d] # NotBuilt
  BY <1>1 DEF Build, ConfigTypeOK
<1>3. pending' \subseteq {d \in Contexts : built'[d] # NotBuilt}
  BY <1>2 DEF Build, PendingWithout, ConfigTypeOK
<1>4. early' \subseteq Contexts BY DEF Build, ConfigTypeOK
<1>5. ConfigTypeOK' BY <1>2, <1>3, <1>4 DEF Build, others, ConfigTypeOK
<1>6. FreshFrame BY DEF Build, others, FreshFrame
<1>7. AllFresh' BY <1>6, FrameFresh
<1> QED BY <1>5, <1>7

LEMMA DestroyKeeps ==
  ASSUME ConfigInv, NEW c \in Contexts, DestroyContext(c)
  PROVE  ConfigInv'
<1> USE DEF ConfigInv
<1>1. /\ built' \in [Contexts -> Layouts \cup {NotBuilt}]
      /\ \A d \in Contexts \ {c} : built'[d] = built[d]
  BY DEF DestroyContext, ConfigTypeOK
<1>2. pending' \subseteq {d \in Contexts : built'[d] # NotBuilt}
  BY <1>1 DEF DestroyContext, PendingWithout, ConfigTypeOK
<1>3. early' \subseteq Contexts BY DEF DestroyContext, ConfigTypeOK
<1>4. ConfigTypeOK' BY <1>1, <1>2, <1>3 DEF DestroyContext, others, ConfigTypeOK
<1>5. FreshFrame BY DEF DestroyContext, others, FreshFrame
<1>6. AllFresh' BY <1>5, FrameFresh
<1> QED BY <1>4, <1>6

LEMMA CategoryKeeps == ConfigInv /\ (ChangeCategory \/ WorkerGlobalMode) => ConfigInv'
<1> SUFFICES ASSUME ConfigInv, ChangeCategory \/ WorkerGlobalMode PROVE ConfigInv'
  OBVIOUS
<1> USE DEF ConfigInv
<1>1. PICK v \in Categories : cfg' = With(cfg, "category", v)
  BY DEF ChangeCategory, WorkerGlobalMode
<1>2. cfg' \in Settings /\ cfg'.layout = cfg.layout /\ cfg'.switch = cfg.switch
  BY <1>1, WithCategory DEF ConfigTypeOK
<1>3. ConfigTypeOK' BY <1>2 DEF ChangeCategory, WorkerGlobalMode, others, ConfigTypeOK
<1>4. FreshFrame BY <1>2 DEF ChangeCategory, WorkerGlobalMode, others, FreshFrame
<1>5. AllFresh' BY <1>4, FrameFresh
<1> QED BY <1>3, <1>5

\* What the hotkey takes for the file is the file, read now or as old as the file.
LEMMA ReloadedIsFile ==
  ASSUME ConfigInv, hot = 0
  PROVE  /\ Reloaded \in Settings
         /\ Reloaded.layout = file.layout /\ Reloaded.switch = file.switch
<1>1. CASE NeedsReload BY <1>1 DEF Reloaded, ConfigInv, ConfigTypeOK
<1>2. CASE ~NeedsReload
  <2>1. last = mtime BY <1>2 DEF NeedsReload, ConfigInv, ConfigTypeOK
  <2> QED BY <1>2, <2>1 DEF Reloaded, ConfigInv, ConfigTypeOK, AllFresh, CopyFresh
<1> QED BY <1>1, <1>2

LEMMA HotkeyReadKeeps == ConfigInv /\ HotkeyRead => ConfigInv'
<1> SUFFICES ASSUME ConfigInv, HotkeyRead PROVE ConfigInv' OBVIOUS
<1>1. /\ hot' = mtime /\ UNCHANGED <<file, mtime, gui, saving, alone>>
      /\ last' \in {last, mtime}
      /\ cfg' = With(Reloaded, "switch", ~Reloaded.switch)
  BY DEF HotkeyRead, others
<1>2. /\ Reloaded \in Settings
      /\ Reloaded.layout = file.layout /\ Reloaded.switch = file.switch
  BY ReloadedIsFile DEF HotkeyRead
<1>3. cfg' \in Settings /\ cfg'.layout = file.layout /\ cfg'.switch = ~file.switch
  BY <1>1, <1>2, WithSwitch
<1>4. mtime \in Nat \ {0} /\ last \in 0..mtime BY DEF ConfigInv, ConfigTypeOK
<1>5. last' \in 0..mtime' /\ hot' \in 0..mtime' BY <1>1, <1>4
<1>6. ConfigTypeOK' BY <1>3, <1>5 DEF HotkeyRead, others, ConfigInv, ConfigTypeOK
<1>7. CopyFresh' /\ HotkeyFresh' BY <1>1, <1>3, <1>4 DEF CopyFresh, HotkeyFresh
<1>8. WindowFresh' BY <1>1 DEF ConfigInv, AllFresh, WindowFresh
<1>9. MergeFresh' BY <1>1 DEF ConfigInv, AllFresh, MergeFresh
<1> QED BY <1>6, <1>7, <1>8, <1>9 DEF ConfigInv, AllFresh

LEMMA HotkeyEndKeeps == ConfigInv /\ (HotkeyWrite \/ HotkeyFails) => ConfigInv'
<1> SUFFICES ASSUME ConfigInv, HotkeyWrite \/ HotkeyFails PROVE ConfigInv' OBVIOUS
<1>1. CASE HotkeyWrite
  <2>1. cfg \in Settings /\ UNCHANGED cfg BY <1>1 DEF HotkeyWrite, ConfigInv, ConfigTypeOK
  <2>2. SaveElsewhere(cfg) /\ last' = 0 /\ hot' = 0 /\ UNCHANGED <<gui, saving>>
    BY <1>1 DEF HotkeyWrite, TimeAfterHotkey, others
  <2>3. /\ file' \in Settings /\ mtime' \in Nat \ {0} /\ alone' \in BOOLEAN
        /\ last' \in 0..mtime' /\ hot' \in 0..mtime'
        /\ saving' \subseteq SavingType' /\ AllFresh'
    BY <2>1, <2>2, SavedElsewhere
  <2>4. ConfigTypeOK'
    BY <1>1, <2>1, <2>3 DEF HotkeyWrite, others, ConfigInv, ConfigTypeOK, SavingType
  <2> QED BY <2>3, <2>4 DEF ConfigInv
<1>2. CASE HotkeyFails
  <2>1. last' = 0 /\ hot' = 0 /\ fails' = fails + 1
    BY <1>2 DEF HotkeyFails, TimeAfterHotkey
  <2>2. mtime' = mtime /\ mtime \in Nat \ {0} /\ fails \in Nat
    BY <1>2 DEF HotkeyFails, ConfigInv, ConfigTypeOK
  <2>3. ConfigTypeOK'
    BY <1>2, <2>1, <2>2 DEF HotkeyFails, others, ConfigInv, ConfigTypeOK
  <2>4. CopyFresh' /\ HotkeyFresh' BY <2>1, <2>2 DEF CopyFresh, HotkeyFresh
  <2>5. WindowFresh' BY <1>2 DEF HotkeyFails, others, ConfigInv, AllFresh, WindowFresh
  <2>6. MergeFresh' BY <1>2 DEF HotkeyFails, others, ConfigInv, AllFresh, MergeFresh
  <2> QED BY <2>3, <2>4, <2>5, <2>6 DEF ConfigInv, AllFresh
<1> QED BY <1>1, <1>2

LEMMA SetConfigKeeps ==
  ASSUME ConfigInv, NEW f \in Fields, NEW v \in ValuesOf(f), SetConfig(f, v)
  PROVE  ConfigInv'
<1>1. own' \in Settings BY WithType DEF SetConfig, ConfigInv, ConfigTypeOK
<1>2. SaveElsewhere(own') /\ UNCHANGED <<last, hot>> /\ UNCHANGED <<gui, saving>>
  BY DEF SetConfig, others
<1>3. /\ file' \in Settings /\ mtime' \in Nat \ {0} /\ alone' \in BOOLEAN
      /\ last' \in 0..mtime' /\ hot' \in 0..mtime'
      /\ saving' \subseteq SavingType' /\ AllFresh'
  BY <1>1, <1>2, SavedElsewhere
<1>4. ConfigTypeOK'
  BY <1>1, <1>3 DEF SetConfig, others, ConfigInv, ConfigTypeOK, SavingType
<1> QED BY <1>3, <1>4 DEF ConfigInv

LEMMA CallKeeps ==
  ASSUME ConfigInv, NEW call \in calls,
         YamlSave(call) \/ YamlReplace(call) \/ CallFails(call)
  PROVE  ConfigInv'
<1>1. call \in CallType /\ calls \subseteq CallType
  BY DEF ConfigInv, ConfigTypeOK, CallType
<1>2. call.content \in Settings BY <1>1 DEF CallType
<1>3. CASE YamlSave(call)
  <2>1. [call EXCEPT !.saved = TRUE] \in CallType BY <1>1 DEF CallType
  <2>2. calls' \subseteq CallType BY <1>1, <1>3, <2>1 DEF YamlSave
  <2>3. /\ SaveElsewhere(call.content)
        /\ UNCHANGED <<last, hot>> /\ UNCHANGED <<gui, saving>>
    BY <1>3 DEF YamlSave, others
  <2>4. /\ file' \in Settings /\ mtime' \in Nat \ {0} /\ alone' \in BOOLEAN
        /\ last' \in 0..mtime' /\ hot' \in 0..mtime'
        /\ saving' \subseteq SavingType' /\ AllFresh'
    BY <1>2, <2>3, SavedElsewhere
  <2>5. ConfigTypeOK'
    BY <1>3, <2>2, <2>4
       DEF YamlSave, others, ConfigInv, ConfigTypeOK, CallType, SavingType
  <2> QED BY <2>4, <2>5 DEF ConfigInv
<1>4. CASE YamlReplace(call)
  <2>1. own' \in Settings /\ calls' \subseteq calls BY <1>2, <1>4 DEF YamlReplace
  <2>2. ConfigTypeOK' BY <1>4, <2>1 DEF YamlReplace, others, ConfigInv, ConfigTypeOK
  <2>3. FreshFrame BY <1>4 DEF YamlReplace, others, FreshFrame
  <2>4. AllFresh' BY <2>3, FrameFresh DEF ConfigInv
  <2> QED BY <2>2, <2>4 DEF ConfigInv
<1>5. CASE CallFails(call)
  <2>1. calls' \subseteq calls BY <1>5 DEF CallFails
  <2>2. ConfigTypeOK' BY <1>5, <2>1 DEF CallFails, others, ConfigInv, ConfigTypeOK
  <2>3. FreshFrame BY <1>5 DEF CallFails, others, FreshFrame
  <2>4. AllFresh' BY <2>3, FrameFresh DEF ConfigInv
  <2> QED BY <2>2, <2>4 DEF ConfigInv
<1> QED BY <1>3, <1>4, <1>5

LEMMA SetGlobalModeKeeps ==
  ASSUME ConfigInv, NEW v \in Categories, SetGlobalMode(v)
  PROVE  ConfigInv'
<1>1. own' \in Settings BY WithCategory DEF SetGlobalMode, ConfigInv, ConfigTypeOK
<1>2. ConfigTypeOK' BY <1>1 DEF SetGlobalMode, others, ConfigInv, ConfigTypeOK
<1>3. FreshFrame BY DEF SetGlobalMode, others, FreshFrame
<1>4. AllFresh' BY <1>3, FrameFresh DEF ConfigInv
<1> QED BY <1>2, <1>4 DEF ConfigInv

\* A window that opens has no save under way: only an open one has.
LEMMA WindowKeeps == ConfigInv /\ (OpenWindow \/ CloseWindow) => ConfigInv'
<1> SUFFICES ASSUME ConfigInv, OpenWindow \/ CloseWindow PROVE ConfigInv' OBVIOUS
<1>1. saving = {} /\ saving' = {}
  <2>1. CASE OpenWindow BY <2>1 DEF OpenWindow, ConfigInv, AllFresh, MergeFresh
  <2>2. CASE CloseWindow BY <2>2 DEF CloseWindow
  <2> QED BY <2>1, <2>2
<1>2. UNCHANGED <<file, mtime, daemon, commands, fails, early>>
  BY DEF OpenWindow, CloseWindow
<1>3. /\ gui' \in GuiType /\ alone' \in BOOLEAN
      /\ gui'.open => gui'.ui = gui'.base /\ gui'.base = file'
  <2>1. CASE OpenWindow
    <3>1. gui' = Window(file, file, FALSE) /\ alone' = TRUE /\ file' = file
      BY <2>1 DEF OpenWindow
    <3>2. file \in Settings BY DEF ConfigInv, ConfigTypeOK
    <3>3. gui' \in GuiType /\ gui'.ui = file /\ gui'.base = file
      BY <3>1, <3>2 DEF Window, GuiType
    <3>4. alone' \in BOOLEAN BY <3>1
    <3> QED BY <3>1, <3>3, <3>4
  <2>2. CASE CloseWindow
    BY <2>2 DEF CloseWindow, Closed, GuiType, ConfigInv, ConfigTypeOK
  <2> QED BY <2>1, <2>2
<1>4. ConfigTypeOK' BY <1>1, <1>2, <1>3 DEF daemon, ConfigInv, ConfigTypeOK, GuiType
<1>5. CopyFresh' /\ HotkeyFresh'
  BY <1>2 DEF daemon, ConfigInv, AllFresh, CopyFresh, HotkeyFresh
<1>6. WindowFresh' BY <1>3 DEF WindowFresh
<1>7. MergeFresh' BY <1>1 DEF MergeFresh
<1> QED BY <1>4, <1>5, <1>6, <1>7 DEF ConfigInv, AllFresh

LEMMA CommandKeeps ==
  ConfigInv /\ (CommandReset \/ \E content \in commands : CommandWrite(content))
    => ConfigInv'
<1> SUFFICES ASSUME ConfigInv,
                    CommandReset \/ \E content \in commands : CommandWrite(content)
             PROVE  ConfigInv'
  OBVIOUS
<1>1. commands \subseteq Settings /\ commands' \subseteq commands
  BY DEF CommandReset, CommandWrite, others, ConfigInv, ConfigTypeOK
<1>2. PICK content \in Settings : SaveElsewhere(content)
  BY <1>1 DEF CommandReset, CommandWrite
<1>3. UNCHANGED daemon /\ UNCHANGED <<gui, saving, fails, early>>
  BY DEF CommandReset, CommandWrite, others
<1>4. /\ file' \in Settings /\ mtime' \in Nat \ {0} /\ alone' \in BOOLEAN
      /\ last' \in 0..mtime' /\ hot' \in 0..mtime'
      /\ saving' \subseteq SavingType' /\ AllFresh'
  BY <1>2, <1>3, SavedElsewhere DEF daemon
<1>5. ConfigTypeOK'
  BY <1>1, <1>3, <1>4 DEF daemon, ConfigInv, ConfigTypeOK, SavingType
<1> QED BY <1>4, <1>5 DEF ConfigInv

LEMMA CommandReadKeeps ==
  ASSUME ConfigInv, NEW f \in Fields, NEW v \in ValuesOf(f), CommandRead(f, v)
  PROVE  ConfigInv'
<1>1. With(file, f, v) \in Settings BY WithType DEF ConfigInv, ConfigTypeOK
<1>2. ConfigTypeOK' BY <1>1 DEF CommandRead, daemon, ConfigInv, ConfigTypeOK
<1>3. FreshFrame BY DEF CommandRead, daemon, FreshFrame
<1>4. AllFresh' BY <1>3, FrameFresh DEF ConfigInv
<1> QED BY <1>2, <1>4 DEF ConfigInv

LEMMA RestartKeeps == ConfigInv /\ Restart => ConfigInv'
<1> SUFFICES ASSUME ConfigInv, Restart PROVE ConfigInv' OBVIOUS
<1>1. built' \in [Contexts -> Layouts \cup {NotBuilt}] BY DEF Restart
<1>2. fp' \in Layouts BY DEF Restart, ConfigInv, ConfigTypeOK, Settings
<1>3. ConfigTypeOK' BY <1>1, <1>2 DEF Restart, others, ConfigInv, ConfigTypeOK
<1>4. mtime \in Nat \ {0} BY DEF ConfigInv, ConfigTypeOK
<1>5. CopyFresh' /\ HotkeyFresh' BY <1>4 DEF Restart, CopyFresh, HotkeyFresh
<1>6. WindowFresh' BY DEF Restart, others, ConfigInv, AllFresh, WindowFresh
<1>7. MergeFresh' BY DEF Restart, others, ConfigInv, AllFresh, MergeFresh
<1> QED BY <1>3, <1>5, <1>6, <1>7 DEF ConfigInv, AllFresh

\* What is merged: the window's value of the field that was changed, when the
\* baseline is the file; of a field that is not, the file's.
LEMMA MergedField ==
  ASSUME NEW disk \in Settings, NEW base \in Settings, NEW ui \in Settings,
         NEW g \in Fields
  PROVE  /\ Merged(disk, base, ui)[g] = MergeField(disk[g], base[g], ui[g])
         /\ ui[g] = base[g] => Merged(disk, base, ui)[g] = disk[g]
         /\ disk = base => Merged(disk, base, ui)[g] = ui[g]
<1>1. CASE g = "layout" BY <1>1 DEF Merged, MergeField, Settings
<1>2. CASE g = "switch" BY <1>2 DEF Merged, MergeField, Settings
<1>3. CASE g = "category" BY <1>3 DEF Merged, MergeField, Settings
<1> QED BY <1>1, <1>2, <1>3 DEF Fields

LEMMA WithOthers ==
  ASSUME NEW s \in Settings, NEW f \in Fields, NEW v \in ValuesOf(f),
         NEW g \in Fields \ {f}
  PROVE  With(s, f, v)[g] = s[g]
<1>1. CASE g = "layout" BY <1>1, WithType DEF Fields
<1>2. CASE g = "switch" BY <1>2, WithType DEF Fields
<1>3. CASE g = "category" BY <1>3, WithType DEF Fields
<1> QED BY <1>1, <1>2, <1>3 DEF Fields

LEMMA ChangeLoadKeeps ==
  ASSUME ConfigInv, NEW f \in Fields, NEW v \in ValuesOf(f), ChangeLoad(f, v)
  PROVE  ConfigInv'
<1> DEFINE ui == With(gui.ui, f, v)
           written == Merged(file, gui.base, ui)
           save == [at |-> mtime, field |-> f, content |-> written]
<1>1. /\ gui.ui \in Settings /\ gui.base \in Settings /\ file \in Settings
      /\ gui.edited \in BOOLEAN /\ mtime \in Nat \ {0}
  BY DEF ConfigInv, ConfigTypeOK
<1>2. ui \in Settings BY <1>1, WithType
<1>3. written \in Settings BY <1>1, <1>2, MergedType
<1>4. /\ gui.open /\ saving = {}
      /\ gui' = Window(ui, gui.base, gui.edited) /\ saving' = {save}
      /\ UNCHANGED <<file, mtime, daemon, commands, fails, early, alone>>
  BY DEF ChangeLoad
<1>5. /\ gui' \in GuiType /\ gui'.open /\ gui'.ui = ui /\ gui'.base = gui.base
      /\ gui'.edited = gui.edited
  BY <1>1, <1>2, <1>4, WindowType
<1>6. saving' \subseteq SavingType'
  BY <1>1, <1>3, <1>4 DEF SavingType
<1>7. ConfigTypeOK'
  BY <1>4, <1>5, <1>6 DEF daemon, ConfigInv, ConfigTypeOK, GuiType, SavingType
<1>8. CopyFresh' /\ HotkeyFresh'
  BY <1>4 DEF daemon, ConfigInv, AllFresh, CopyFresh, HotkeyFresh
<1>9. WindowFresh' BY <1>4, <1>5 DEF ConfigInv, AllFresh, WindowFresh
<1>10. ASSUME ~gui.edited, NEW g \in Fields \ {f} PROVE written[g] = file[g]
  <2>1. gui.ui = gui.base BY <1>4, <1>10 DEF ConfigInv, AllFresh, WindowFresh
  <2>2. ui[g] = gui.base[g] BY <1>1, <2>1, WithOthers
  <2> QED BY <1>1, <1>2, <2>2, MergedField
<1>11. ASSUME alone PROVE written[f] = ui[f]
  <2>1. file = gui.base BY <1>4, <1>11 DEF ConfigInv, AllFresh, WindowFresh
  <2> QED BY <1>1, <1>2, <2>1, MergedField
<1>12. MergeFresh'
  <2> HIDE DEF ui, written
  <2> SUFFICES /\ gui'.open
               /\ ~gui'.edited => \A g \in Fields \ {f} : written[g] = file'[g]
               /\ alone' => written[f] = gui'.ui[f]
    BY <1>4 DEF MergeFresh
  <2> QED BY <1>4, <1>5, <1>10, <1>11
<1> QED BY <1>7, <1>8, <1>9, <1>12 DEF ConfigInv, AllFresh

LEMMA ChangeSaveKeeps ==
  ASSUME ConfigInv, NEW s \in saving, ChangeSave(s)
  PROVE  ConfigInv'
<1>1. /\ file' = s.content /\ mtime' = mtime + 1 /\ saving' = {}
      /\ gui' = Window(gui.ui, s.content, TRUE)
      /\ calls' = calls \cup {[id |-> mtime, content |-> s.content, saved |-> FALSE]}
  BY DEF ChangeSave, Save, NextBaseline
<1>2. /\ s.content \in Settings /\ gui.ui \in Settings /\ mtime \in Nat \ {0}
      /\ last \in 0..mtime /\ hot \in 0..mtime
  BY DEF ConfigInv, ConfigTypeOK
<1>3. /\ gui' \in GuiType /\ gui'.open /\ gui'.base = s.content /\ gui'.edited = TRUE
  BY <1>1, <1>2, WindowType
<1>4. calls' \subseteq CallType
  <2>1. [id |-> mtime, content |-> s.content, saved |-> FALSE] \in CallType
    BY <1>2 DEF CallType
  <2> QED BY <1>1, <2>1 DEF ConfigInv, ConfigTypeOK, CallType
<1>5. /\ mtime' \in Nat \ {0} /\ last' \in 0..mtime' /\ last' # mtime'
      /\ hot' \in 0..mtime' /\ hot' # mtime'
  BY <1>1, <1>2 DEF ChangeSave
<1>6. ConfigTypeOK'
  BY <1>1, <1>2, <1>3, <1>4, <1>5
     DEF ChangeSave, ConfigInv, ConfigTypeOK, GuiType, CallType
<1>7. CopyFresh' /\ HotkeyFresh' BY <1>5 DEF CopyFresh, HotkeyFresh
<1>8. WindowFresh' BY <1>1, <1>3 DEF WindowFresh
<1>9. MergeFresh' BY <1>1 DEF MergeFresh
<1> QED BY <1>6, <1>7, <1>8, <1>9 DEF ConfigInv, AllFresh

LEMMA ChangeFailsKeeps ==
  ASSUME ConfigInv, NEW s \in saving, ChangeFails(s)
  PROVE  ConfigInv'
<1>1. /\ gui' = Window(gui.ui, gui.base, TRUE) /\ saving' = {} /\ fails' = fails + 1
      /\ UNCHANGED <<file, mtime, daemon, commands, early, alone>>
  BY DEF ChangeFails
<1>2. gui.ui \in Settings /\ gui.base \in Settings /\ fails \in Nat
  BY DEF ConfigInv, ConfigTypeOK
<1>3. /\ gui' \in GuiType /\ gui'.open /\ gui'.base = gui.base /\ gui'.edited = TRUE
  BY <1>1, <1>2, WindowType
<1>4. fails' \in Nat BY <1>1, <1>2
<1>5. ConfigTypeOK'
  BY <1>1, <1>3, <1>4 DEF daemon, ConfigInv, ConfigTypeOK, GuiType
<1>6. CopyFresh' /\ HotkeyFresh'
  BY <1>1 DEF daemon, ConfigInv, AllFresh, CopyFresh, HotkeyFresh
<1>7. gui.open BY DEF ConfigInv, AllFresh, MergeFresh
<1>8. WindowFresh' BY <1>1, <1>3, <1>7 DEF ConfigInv, AllFresh, WindowFresh
<1>9. MergeFresh' BY <1>1 DEF MergeFresh
<1> QED BY <1>5, <1>6, <1>8, <1>9 DEF ConfigInv, AllFresh

LEMMA ConfigStep == ConfigInv /\ [Next]_vars => ConfigInv'
<1> SUFFICES ASSUME ConfigInv, [Next]_vars PROVE ConfigInv' OBVIOUS
<1>1. CASE Poll BY <1>1, PollKeeps
<1>2. CASE ChangeCategory \/ WorkerGlobalMode BY <1>2, CategoryKeeps
<1>3. CASE HotkeyRead BY <1>3, HotkeyReadKeeps
<1>4. CASE HotkeyWrite \/ HotkeyFails BY <1>4, HotkeyEndKeeps
<1>5. ASSUME NEW c \in Contexts, RebuildPending(c) \/ CreateContext(c)
      PROVE  ConfigInv'
  BY <1>5, BuildKeeps DEF RebuildPending, CreateContext
<1>6. ASSUME NEW c \in Contexts, DestroyContext(c) PROVE ConfigInv'
  BY <1>6, DestroyKeeps
<1>7. ASSUME NEW f \in Fields, NEW v \in ValuesOf(f), SetConfig(f, v) PROVE ConfigInv'
  BY <1>7, SetConfigKeeps
<1>8. ASSUME NEW f \in Fields, NEW v \in ValuesOf(f), ChangeLoad(f, v) PROVE ConfigInv'
  BY <1>8, ChangeLoadKeeps
<1>9. ASSUME NEW f \in Fields, NEW v \in ValuesOf(f), CommandRead(f, v) PROVE ConfigInv'
  BY <1>9, CommandReadKeeps
<1>10. ASSUME NEW v \in Categories, SetGlobalMode(v) PROVE ConfigInv'
  BY <1>10, SetGlobalModeKeeps
<1>11. ASSUME NEW call \in calls, YamlSave(call) \/ YamlReplace(call) \/ CallFails(call)
       PROVE  ConfigInv'
  BY <1>11, CallKeeps
<1>12. CASE OpenWindow \/ CloseWindow BY <1>12, WindowKeeps
<1>13. ASSUME NEW s \in saving, ChangeSave(s) \/ ChangeFails(s) PROVE ConfigInv'
  BY <1>13, ChangeSaveKeeps, ChangeFailsKeeps
<1>14. CASE CommandReset \/ \E content \in commands : CommandWrite(content)
  BY <1>14, CommandKeeps
<1>15. CASE Restart BY <1>15, RestartKeeps
<1>16. CASE UNCHANGED vars
  <2>1. ConfigTypeOK' BY <1>16 DEF vars, daemon, others, ConfigInv, ConfigTypeOK
  <2>2. FreshFrame BY <1>16 DEF vars, daemon, others, FreshFrame
  <2>3. AllFresh' BY <2>2, FrameFresh DEF ConfigInv
  <2> QED BY <2>1, <2>3 DEF ConfigInv
<1> QED
  BY <1>1, <1>2, <1>3, <1>4, <1>5, <1>6, <1>7, <1>8, <1>9, <1>10, <1>11, <1>12, <1>13,
     <1>14, <1>15, <1>16
     DEF Next

LEMMA ConfigAlways == Spec => []ConfigInv
<1> QED BY ConfigInit, ConfigStep, PTL DEF Spec

-----------------------------------------------------------------------------
(* The theorems.                                                            *)

\* Every variable has its type, the worker's copy is never newer than the file and
\* only a living context waits for its rebuild.
THEOREM ConfigTypeCorrect == Spec => []ConfigTypeOK
<1>1. ConfigInv => ConfigTypeOK BY DEF ConfigInv
<1> QED BY <1>1, ConfigAlways, PTL

\* The auto-typefix hotkey of engine_worker.rs undoes no change of the layout that
\* was in the file when its handler read it: a copy that it does not read anew says
\* what the file says.  What is written between its read and its write is undone.
THEOREM HotkeyLosesNothing == Spec => HotkeyRebases
<1>1. ConfigInv /\ [Next]_vars =>
        [HotkeyWrite /\ hot = mtime =>
           file'.layout = file.layout /\ file'.switch = ~file.switch]_vars
  <2> SUFFICES ASSUME ConfigInv, HotkeyWrite, hot = mtime
               PROVE  file'.layout = file.layout /\ file'.switch = ~file.switch
    OBVIOUS
  <2>1. file' = cfg BY DEF HotkeyWrite, SaveElsewhere, Save
  <2> QED BY <2>1 DEF ConfigInv, AllFresh, HotkeyFresh
<1> QED BY <1>1, ConfigAlways, PTL DEF Spec, HotkeyRebases

\* The first save of a settings window leaves every other field of the file as the
\* others wrote it before the save loaded it (merge_field).  What is written between
\* that load and the save is lost.
THEOREM FirstSaveMerges == Spec => FirstSaveKeepsUnedited
<1>1. ConfigInv /\ [Next]_vars =>
        [\A s \in saving : ChangeSave(s) /\ ~gui.edited /\ s.at = mtime =>
           \A g \in Fields \ {s.field} : file'[g] = file[g]]_vars
  <2> SUFFICES ASSUME ConfigInv, NEW s \in saving, ChangeSave(s), ~gui.edited,
                      s.at = mtime, NEW g \in Fields \ {s.field}
               PROVE  file'[g] = file[g]
    OBVIOUS
  <2>1. file' = s.content BY DEF ChangeSave, Save
  <2> QED BY <2>1 DEF ConfigInv, AllFresh, MergeFresh
<1> QED BY <1>1, ConfigAlways, PTL DEF Spec, FirstSaveKeepsUnedited

\* A choice in a settings window that is alone with the file reaches the file, one
\* that returns to the session's first value included (the moving baseline).
THEOREM ChoiceIsSaved == Spec => ChangeReachesFile
<1>1. ConfigInv /\ [Next]_vars =>
        [\A s \in saving : ChangeSave(s) /\ alone =>
           file'[s.field] = gui.ui[s.field]]_vars
  <2> SUFFICES ASSUME ConfigInv, NEW s \in saving, ChangeSave(s), alone
               PROVE  file'[s.field] = gui.ui[s.field]
    OBVIOUS
  <2>1. file' = s.content BY DEF ChangeSave, Save
  <2> QED BY <2>1 DEF ConfigInv, AllFresh, MergeFresh
<1> QED BY <1>1, ConfigAlways, PTL DEF Spec, ChangeReachesFile
=============================================================================
