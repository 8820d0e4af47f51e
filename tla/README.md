# A TLA+ model of UNIM

UNIM is a Korean input method: front ends (GTK, Qt, XIM, Wayland, GNOME, IBus)
send the keys of a text field to a daemon over D-Bus, and the daemon answers with
confirmed text (commit) and text still being composed (preedit).  This directory
models the parts in which a character can be lost, doubled or composed where it
must not be, and those in which two processes hold copies of one thing: the
engine and its composers, the worker thread that owns the engines, chords and their
timers, auto-typefix with its undo, popups shown by another process, the
configuration file, and the client in the application.  TLC checks small
instances; TLAPS proves some of the properties for every instance.

## The system

| Component | Code | State | Operations | Hard because |
|---|---|---|---|---|
| Input engine | `src/input_engine/{engine,press_key}.rs` | category (Korean/English), `korean_context`, `commit_buffer`, `preedit_cache`, word unit, purpose, `saved_category` | `press_key`, `set_input_category`, `set_word_mode`, `rebuild_korean_context`, `reset` | every path that ends a composition must confirm it exactly once |
| Conversions and popups | `candidates.rs`, `popup_dispatch.rs`, `src/popup/` | `hanja_mode`, `special_char_mode`, `popup_state` (page, cursor, expansion), the target, bookmarks | begin, select, cancel, move, turn, expand, bookmark | the target lives outside the composition; answers come from another process, by signals and calls |
| Purpose, surrounding text | `surrounding.rs` | `content_purpose`, `saved_category` | `set_content_purpose`, `typefix_convert` | the purpose arrives at any time |
| Chord buffer | `chord_buffer.rs`, `chord_compose.rs` | entries, epoch, `preview_injected`, `preview_is_atomic` | `push_inner`, `force_flush`, `clear`, preview | a key is shown before its chord is known; timers outlive chords |
| Hangul composer | `src/hangul/` | `jamo_queue`, `current_korean_char`, `word_buffer`, `word_keys`, `chord_input_order` | `process_jamo_with_meta`, `backspace`, `commit`, `inject_chord_syllable` | a queue, a character and a list of keys must say the same |
| Engine worker | `unim-dbus/src/engine_worker.rs` | an engine per context, `config`, `korean_fp`, `pending_korean_rebuild`, `app_modes`, `last_focused_context_id` | one request at a time from a channel, each after a look at the configuration file | several contexts share a category; a reload meets compositions |
| Auto-typefix | `src/auto_typefix/`, `typefix_blacklist.rs`, parts of the worker | keystroke buffer, undo state, recent corrections, blacklist | detect a word typed in the wrong mode, retype it, undo it, learn from rollbacks | guesses what the application holds |
| D-Bus service | `unim-dbus/src/service.rs` | contexts' paths, its own copy of the configuration, the last active path | turns calls into requests, replies into signals, spawns the chord timers | asynchronous; two paths for text |
| Configuration | `src/config.rs`, `atomic_io.rs` | a YAML file, its time stamp, four copies | load, save, `reload_if_changed` (at most every two seconds), `reload_now`, the merge of the settings window | lost updates |
| Popup service | `unim-popup-service/`, `unim-gui-common/` | three windows, the active context's path | draw what signals say, call the daemon for clicks, hide hooks | its picture is behind the engine's; calls fail |
| GTK front end | `unim-frontends/gtk3/`, `gtk-common/` | `preedit_cache`, `popup_active`, `pending_skip_commit`, injected Backspaces | filter keys, focus, reset, apply signals | replies and signals overtake each other; the daemon may die |
| Other clients | XIM, Wayland, Qt, GNOME, IBus, indicator, `unim-cli`, Windows | | call the daemon, write the file, or embed the engine (Windows, C) | act between any two requests |

`PROJECT.json` lists each with its files and what is left out of it, and under
`hazards` what in this code is hard to test, each at its line.

What makes them correct: each character typed reaches the application once and in
order, on every path that ends a composition; what is shown spells the keys that
were pressed; nothing is composed in English or by an engine whose purpose is a
password's; a category is shared, or separate, as `mode_sharing` says; a change of the
settings reaches every context and cuts no composition, and whoever writes the file
starts from what is in it; a fix
retypes a word and touches no other, and a word the user put back is left alone;
a timer ends the chord it was set for and every chord ends; a conversion ends
once, with the candidate that is highlighted.

## The modules

* `Engine` - the engine as a record; an operator per method, from the old record
  to the new one.  A key is its class (`Keys`), and an operator for a key gives
  the set of what it may do: which jamo join a syllable is the tables' affair.
* `EngineWorker` - EXTENDS `Engine`.  The worker as a state machine: `Poll` is the
  prologue (reload, rebuilds, pending rebuilds), and one action per request is the
  `match` of `run_engine_worker`.  `phase` alternates between the two, so
  that another process may write the file between prologue and handler.
* `TextFields` - the abstract specification of the whole: what a field has been
  given is the beginning of what its user typed, and it only grows.
  `EngineWorker` implements it (`ImplementsTextFields`, with `given <- delivered`).
* `Chord` - the chord buffer and the chord branches of `press_key.rs` as operators
  on a smaller engine record.  `ChordTimers` EXTENDS it: one field, its keys, the
  idle-flush timers of `service.rs`, the replacement of the engine, and the rebuild
  of its context by the worker's prologue when the layout changes.
* `HangulComposer` - the key queue of `BaseHangulComposer`, the two- and three-set
  composers, the input context with words, chords and backspaces: what `Engine`
  leaves open.  A jamo is an area of the syllable and the letters it is made of, so
  that a compound is the letters it was combined from.
* `AutoTypefix` - one field: keystroke buffer, verdicts, fix, undo, rollback
  observation, blacklist, and what the application makes of it: what
  `EngineWorker` leaves to chance.
* `ConfigStore` - the file and its copies in the worker, the service and the
  settings window, and the command line; restart of the daemon.  The file has no
  lock: the hotkey (`HotkeyRead`, `HotkeyWrite`), the window (`ChangeLoad`,
  `ChangeSave`) and the command line (`CommandRead`, `CommandWrite`) read in one step
  and write in another, which may fail, and anyone may write in between.  `hot` and
  `saving` hold the time stamp of the file as it was read.
* `PopupSession` - a conversion or emoji popup: the engine's `PopupState`, the
  windows of the popup service, the calls and the signals between the two.
* `FieldClient` - a field of a GTK application, the module and its D-Bus client,
  against a daemon of which only the order of replies and signals is modelled.
* `MC*` - values for the constants.  `*Proofs` - lemmas and theorems.
  `SequenceLemmas` - what the proofs share: induction, and facts about sequences.

**Text.** In `Engine` and `EngineWorker` the n-th character a user types into a
context is the number n.  A conversion keeps the number (`나` to `羅`), so that the
properties see loss, repetition and order and nothing else.  `typed` and
`delivered` are what the user typed and what the application got; the code has
neither.  A character is typed when its first jamo is, and erased by a backspace
that takes its last.  `FieldClient` counts characters the same way and negates one
that became Hanja.  Finer grains: in `Chord`, text is the sequence of the keys it
was made of; in `HangulComposer`, of letters; in `AutoTypefix`, a character is
its keys and the script it is shown in, so that a word respelled keeps its keys.

**State and code.** The comment above the `Engine` record in both modules, above
`NewContext` in `HangulComposer`, and beside each VARIABLE elsewhere names
the field or local variable of the code it stands for; what is marked "history" is
not in the code.  In `Engine`, `preedit` stands for both `preedit_cache` and the
composer, which the code keeps equal after every method; `hanja_mode` and
`special_char_mode` are one flag there, `conv`, as their code is the same but for
the table.  `newer` in `EngineWorker` is the comparison of time stamps in
`needs_reload`; that `Poll` may ignore it is the two-second throttle.

**Orderly.** With `Orderly = TRUE` the clients of `EngineWorker` follow the
protocol of the front ends: one field has the focus, only it sends keys, FocusIn
follows FocusOut, and a cancel is sent for a popup that is shown.  With FALSE any
request may come at any time for any context.

### What each module leaves out

* `EngineWorker`: two requests are never handled at once (the worker is one
  thread), and text is delivered with the reply (`FieldClient` has the rest). A fix
  may happen at any key for which the code would ask for one and retype any
  number of characters: the module checks what the worker does with a fix.
  The word gate is a set of (layout, application) pairs, and applications match
  `app_rules` by a function in place of patterns.
* `ChordTimers`: final consonants, a third area that combines like the other two;
  `wrapping_add` of the 64-bit epoch is taken as addition.  A changed layout has
  chords and the same compounds as the one before.
* `HangulComposer`: a few letters with some compounds, keyboards of every combination of
  the two options of three-set layouts; a shortcut within a chord
  (in `Chord`); the expiry of the window is a chord's end followed by a first key.
  A change of the word unit waits for a chord to end, and chords exist
  on three-set layouts that allow them only, as in the code.
* `AutoTypefix`: numbers and punctuation in a word, Ctrl with a letter, the scores
  of the reverse detector (a set of words), the file of the blacklist (an edit
  by another process is read at once).  The fix is applied with its reply.
* `ConfigStore`: a file is written whole (temporary file and rename, as
  `atomic_write` does) and each write advances the time stamp; no file that cannot be
  parsed, no migration, and no interactive editor of the command line.
  `load_from_path` takes the time stamp before the content: the model reads both in one
  step, for a write between the two leaves an old stamp on a new copy, which the next
  look reads again.  A `set_config` whose save fails leaves its value in the service's
  copy; the model has the value only with its save.  A command that fails is one that
  never writes.
* `PopupSession`: how a window is placed and drawn; how candidates are looked up.
* `FieldClient`: the user's own Backspaces, deletion of a selection, surrounding
  text, and which characters a key confirms (any beginning of the composition).

## The runs

| Run | Question | Instance |
|---|---|---|
| `worker_text` | does any path lose, double or swap a character; does each layout arrive without cutting a syllable; is each field one of `TextFields` | 3 contexts, 2 applications, 2 layouts, every key class, popups, 2 writes of the file, 3 characters |
| `worker_modes` | can anything compose in English or in an engine whose purpose is a password's; do applications stay separate | 2 contexts, disorderly clients, words and fixes, an app rule, purposes, 2 characters |
| `worker_global` | fields that compose at the same time and share a category: does a toggle, a fix or SetGlobalMode in one turn and confirm the others | 3 contexts, disorderly clients, words and fixes, 4 characters |
| `worker_switches` | is any text lost by the hotkey, a selection fix under a composition, words, the loss of focus | 2 contexts, 2 writes, 2 characters |
| `chord_text` | chords ended in every way: is each jamo typed once; which chord does a timer end; do chords end | 4 keys of any kind or changes of layout, a buffer of 2, compound initials, 1 reset, fairness |
| `hangul_text` | do what is shown and what is confirmed spell the keys | two- and three-set, with and without chords, words of 4 keys (2 with chords), chords of 3 |
| `typefix_text` | does a fix touch its own word only; is a rejected word left alone; does the undo of a live correction restore; is what is typed under a password's purpose kept anywhere | 5 keys, words and syllables, words of both detectors, a correction made before |
| `config_store` | what do the hotkey and a window keep of others' changes; do engines follow the file | 1 context, 2 layouts, 3 writes of the file, failed ones among them, each but the service's in two steps, fairness |
| `popup_session` | does a conversion end once, whoever ends it; are cursor and window right | 2 by 2 cells, 3 Hanja, 5 special characters, 2 popups, 1 bookmark, 2 calls or signals under way, fairness |
| `field_client` | does the field hold each character once, over two paths, with failures | 4 characters, 5 signals under way, fairness |
| `hangul_commit`, `typefix_undo` | violations, below | as `hangul_text` with two-set layouts; as `typefix_text` with 4 keys |

Between 50 thousand and 2.7 million distinct states each, a few seconds to three
minutes.

Bounds.  The constants named `Max...` only cut behaviours short: a step beyond
them is not taken, and everything before it is.  Three contexts give one that
acts, one that is composing and one that is idle; interactions in the code are
between one context and the rest (propagation, popup owner, last focused).  Three
characters give a word with a first, a middle and a last syllable; two writes a
change and its reversal while a rebuild waits; three writes of
`config_store` one each of the hotkey, a window and a third process, in every order
of their reads and writes: the third may write before, between and after the steps of
another, and a save of a window may fail and be followed by two.  The real
CHORD_BUFFER_MAX is 16; with 2 the limit is reached after a preview, and the third
key takes the same branch as the seventeenth.  A popup of 2 by 2 with 3 and 5
candidates has full and partial pages, full and partial columns, and a page that
a bookmark crosses; the real one is 9 rows and up to 9 columns.  Five keys of
auto-typefix hold a word of two or three with text before it and a rollback after
it.  In `field_client`, once a race has happened that the module has no order for
(`raced`), what is on its way arrives and nothing new begins.

The runs of `EngineWorker`, `HangulComposer` and `AutoTypefix` check deadlock: some
request or key can always be handled.  The others run out of keys, writes or
popups, and say CHECK_DEADLOCK FALSE.

### Fairness

* `ChordTimers`: each timer that sleeps wakes and is answered (`IdleFlush`), which
  `tokio::time::sleep` and the worker's blocking loop give.  Nothing is assumed
  of the user, so that `ChordEnds` is by timers alone.
* `ConfigStore`: `Poll` and `RebuildPending`.  Requests of some client keep coming
  (the worker looks at the file only then) and compositions end.  The hotkey's handler
  ends (`HotkeyWrite` or `HotkeyFails`), for the worker does not stop within a request.
  Nothing is assumed of the window, the service and the command line.  Weak fairness
  is enough because hotkeys, which keep the worker from the other two while they
  last, are bounded; were they not, the two would be strongly fair, as
  the request of a hotkey has a prologue of its own.
* `PopupSession`: the signal that was sent first is received and each call is
  served, the main loop and the executor of the two processes.
* `FieldClient`: injected Backspaces arrive and idle functions run, the
  application's main loop.
* `EngineWorker`, `HangulComposer`, `AutoTypefix`: none, and no liveness property.

### What the properties say

* `TextIntact`: what was delivered, what waits in `commit_buffer` and what is
  composed make up what was typed.  `TextInOrder` and `TextKept` are the two halves
  that hold where the code gives up the other: disorderly clients may lose text,
  and a selection fix may put keys before a composition.  `ImplementsTextFields`
  says it without engines: a step concerns one field, and gives it more of what
  was typed there.  `FieldTextIntact` is the same at the other end of the wire.
* `EnglishNeverComposes`, `PasswordNeverComposes`, `PerAppIndependent`,
  `GlobalModeShared`: categories and purposes.
* `LayoutApplied`, `ReloadKeepsText`, `EnginesFollow`: the deferred rebuild, for one
  request and in the long run.
* `ChordTextIntact`: a jamo that is previewed is not typed again and a preview taken
  back takes its own keys only.  `EpochNamesChordOfEngine`, `ChordEnds`: the timers.
* `KeyKeepsText`, `WordKeysComposeText`, `BackspaceUndoesKey`, `ChordKeepsText`: a key
  adds its letters to what is shown or confirmed and takes none away; the keys a
  word keeps for backspace compose what is shown; a backspace undoes the last
  key; a chord that breaks gives back what was there before it.
* `FixKeepsText`, `LiveUndoIsComposition`, `LiveUndoRestores`, `RejectedNotFixed`:
  auto-typefix.  `PasswordNotKept`: while the engine knows the purpose to be a password's,
  nothing is observed, and no key typed under it turns up in a later buffer or undo.  It
  is silent on keys after a Reset, which takes the purpose from the engine.
* `HotkeyRebases`, `FirstSaveKeepsUnedited`: the hotkey and the first save of a settings
  window undo nothing that was in the file when they read it, however old their copies
  were.  What is written between that read and their own write they do undo: the
  properties ask for a file that has not changed between the two.
  `ChangeReachesFile`: no choice of the user is lost.
* `ConversionEndsOnce`, `HighlightIsCursor`, `NavigationFindsCandidate`,
  `BookmarkKeepsCursor`, `WindowAgrees`: popups.
* `BypassSafe`, `FixArrives`: the client's caches decide which keys go past the
  daemon, and a fix that is typed with injected Backspaces is completed.

### Where the code and its comments disagree

Each is a run that expects its violation; `PROJECT.json` quotes the line.

1. `hangul_commit`: with a two-set layout, a consonant that does not combine with
   the final stays a lone final in the queue; the next one joins it as an
   initial, and a commit, which asks for a syllable and gets none, drops both.
2. `typefix_undo`: the undo of a forward fix in a field of syllables erases as many
   characters as the corrected word has, though its last one is only composed:
   a character before the word goes with it.

### Known deviations

The models show these too.  No text of the repository promises otherwise in a way
a run could quote, or the promise is a general one, and the properties except them
by a condition or a history variable that their comments name:

* SetGlobalMode and a propagated toggle move a composition into `commit_buffer`; if the
  next request for that field is FocusOut or Reset, the buffer is thrown away
  with the engine (`TextIntact` is checked where the two do not meet).
* A Reset inside a password field replaces the engine (`engine_worker.rs:757`), whose
  purpose is Normal from then on; the client does not send the purpose again.  Hangul
  may then be composed there, and auto-typefix observes, corrects and learns from the
  rest of the password, contrary to the doc of its gate (`engine_worker.rs:560-564`: no
  key of a password field gets into `keystroke_buffer`).  `Reset` of `AutoTypefix` does
  so; `PasswordNotKept`, `PasswordNeverComposes` and the theorems about them speak of
  the purpose the engine has.  FocusOut forgets the category to return to.
* The configuration file has no lock.  What another process writes between
  `reload_now` and the save of the hotkey (`engine_worker.rs:1782` and `1803`) is lost,
  though the comment before it (`1776-1781`) re-reads the file lest an update be lost;
  so is what is written between the load and the save of a settings window
  (`settings_dialog.rs:181` and `184`, whose doc, `173-175`, says that values changed
  while the window is open are preserved), or of a command
  (`unim-cli/src/main.rs:1188` and `1771`).
  Without `hot = mtime` and `s.at = mtime`, `HotkeyRebases` and
  `FirstSaveKeepsUnedited` do not hold in `ConfigStore`.
* The auto-typefix hotkey writes the worker's whole configuration, with the
  `default_category` that toggles have changed in memory; and between its
  `reload_now` and the next reload a new context may get a layout no fingerprint
  knows (`early`).
* A symbol that is alone in a chord is committed by its preview and again at the
  chord's end; a shortcut confirms a chord and leaves its keys in the buffer; a
  change of layout throws away the keys of a chord that shows no preview, for
  `is_mid_composition` sees nothing composed (`spoilt`).
* With `bidirectional_combine` and chords both on, a chord's first key may combine in front
  of the jamo before it; the queue then holds one jamo for both keys, and when the next
  key of the chord takes the preview back (`pop_last_jamo`) the earlier key goes with it
  (`ChordFirst` has no `base` there).
* A new engine counts epochs from 0, so that a timer set before a reset may end a
  chord begun after it.
* A settings window's first save merges; from the second on, what another process
  wrote in between is put back as the window shows it.
* `set_config` and `set_config_yaml` write the service's own copy.
* A CancelHanja that comes after its conversion ended clears the composition begun
  since; a window that is hidden always sends one.
* A window takes an expanded Hanja page of one column for a compact page, and goes on
  doing so when a bookmark takes the cursor back to a wider page (`NarrowEnd`).
* A fix that loses the focus before its Backspaces are handled leaves
  `autofix_bs_pending` above zero for good.
* A text signal that is overtaken by the reply of a later key comes out of order
  (`raced`).

## The proofs

All are checked by TLAPS with no step left out, from the named ASSUMEs of the
modules alone: any contexts, layouts, words, thresholds, pages and bounds.

* `EngineWorker`: `TypeCorrect`; `EnglishNever`, `PasswordNever` if no selection is
  converted (`"typefix"` is not in `Requests`), for orderly and disorderly clients
  alike; `LayoutPending`, `LayoutInForce` if the hotkey is not pressed;
  `PrologueKeeps`; `PerAppApart`; `OneSharedMode` as long as no password field, converted
  selection, app rule, hotkey or write of the file comes in (`OnlyKeysTurn`: each of
  these turns a category by itself).  `Engine`: `PressKeyKeeps`, `PressKeyText`.
* The text of `EngineWorker`'s fields: `NoTextLost`, `NoTextReordered`,
  `NoTextMissing`, `WorkerImplementsTextFields` and the invariant they share,
  `AlwaysShape`.  They are about clients that are `Serial` (one field after the other,
  whose purpose and category only keys and their own focus turn) or about fields in
  which no conversion begins; `NoTextLost` and `NoTextReordered` about clients that
  convert no selection.
* `ChordTimers`: `ChordTypeCorrect`, `ChordTextKept`, `EpochNames`, for every set of inputs.
* `AutoTypefix`: `PasswordNeverKept`, `RejectionsHonoured`, `LiveUndoOwnsText`,
  `FixesKeepText`, `LiveUndoRestoresWord`, for every dictionary, threshold and unit.
* `ConfigStore`: `ConfigTypeCorrect`, `HotkeyLosesNothing`, `FirstSaveMerges`,
  `ChoiceIsSaved`.
* `PopupSession`: `ConversionCommitsOnce`; `PopupTypeCorrect`, `NavigationLands`,
  `BookmarkFollows`, `HighlightTrue`, for every grid, number of candidates, bound and set
  of keys.
* `FieldClient`: `ClientTypeCorrect`, `BypassAgrees`, `FieldKeepsText`, for every set of
  events and with no premise.
* `HangulComposer`: `HangulTypeCorrect`, `WordKeysTold`, `KeyTextKept`, `BackspaceUndoes`,
  `ChordTextHeld`, for every keyboard and set of compounds.

The argument for the worker.  Neither of the two category invariants is inductive: a
password field that is in Korean and composes nothing is a legal state, and the
next key must not compose.  `Quiet` (of an engine) says that nothing is composed in
English or under a blocking purpose; `Keeps` (of two engines) that the second is of
the right type, has the first one's layout, and is quiet if the first was.
The first part of `EngineWorkerProofs` shows `Keeps` for each engine method, up to
`PressKeyKeeps`; the second shows for each handler that every engine was handled by such
methods (`Handled`), or was made anew with the configuration's layout, and that the
handler leaves `koreanFp` and `pending` alone.  From these facts the type invariant,
`AllQuiet` and `LayoutFresh` (an engine with an old layout is in
`pending_korean_rebuild`) follow for all handlers at once, and `Poll` is the only
step left to reason about for the layout.

For the two sharings of categories, `PerAppIndependent`
needs no invariant but the types: a handler changes one context's engine and what
is remembered for its application (`OwnChange`), or turns no category (`CatsKept`).
`GlobalModeShared` is inductive together with a file without news (`OneMode`); each
handler leaves every context with the default category it leaves (`StaysShared`).

The text of a field is what it was given, what waits in its engine and what is
composed (`TextOf`).  None of the text properties is inductive: what a step does to
`TextOf` depends on whether a popup that is shown agrees with the composition it
converts, on whether an engine out of use still holds something, and on whether a
conversion may cross another field.  `Shape` says so: every engine is `Fit` (its popup
converts the syllable it composes), and for serial clients every engine is drained and
all but that of the field in use are idle.  Under it each handler `Handles` one context
and lets the others rest, and a step takes one `Turn` for each field: the text stays,
has the next character put at its end, loses its last, or is closed; or, where a
premise does not exclude it, has a character put before the composition (`Inserted`:
a selection converted under it) or loses a part (`Dropped`: text confirmed for a field
out of use).  The four theorems are what each `Turn` means for them.  Their
premises are the code's own limits, and `worker_text` to `worker_switches` meet them:
a conversion takes the last syllable as its target and its end clears the whole
composition (`candidates.rs:16`), so that where conversions begin, `Serial` asks for the
syllable unit and no retyped word; `TextFields` has no place for a word that is
retyped (`NoFixes`); and after a conversion of a selection Backspace erases another
character than the one typed last.

For the chords, `Taken` is what an engine has taken: the keys it composes and, unless
the preview has composed them, those pending.  `ChordTextIntact` says that what was
delivered and `Taken` make up what was typed; it is not inductive, for a preview that is
not the chord's would be taken back, or kept, wrongly.  The invariant `ChordKeepsKeys`
adds `PreviewOf` (a preview of several keys is all of the syllable, one of a single key
its last) and that a pending chord has jamo only, where nothing has spoilt the text; and
that the keys are numbered in their order, so that a Backspace, which erases keys of the
syllable, erases none of the text before it.  One lemma for each operator of `Chord` says
what it adds to `Taken`, up to `PressSays` for a character key.  What the keys compose
plays no part but in the case it selects.  For the timers, `Later` says that the epoch
never goes back and that the chord pending before and after within one epoch begins with
the same key; every operator obeys it.  `TimersNameChords` adds that no timer of this
engine is ahead of its epoch, and none belongs to an engine not yet made.

Chords are read key by key (`Among`, `JamoByJamo`): recursive functions, about which the
library's induction theorems, whose parameter is an operator, say nothing the provers
can use.  In `SequenceLemmas`, `NatInduct` is induction over a set of numbers, from the
well-foundedness of the naturals, and `Iterates` says that such a function has a value;
what is in a set of a joined text, of its order and its length follows from these two.

For auto-typefix, a rejected word is listed, or is among the observations that the
detectors consult (`Remembered`): a word leaves both only when the entry expires or is
edited away.  A live undo's composition is a beginning of the undo's keys, in a field of words
(`LiveOK`), and a key that composes anything else ends the undo.

`FixesKeepText` is about the screen: the application erases a number of characters that the
daemon computed from keys.  The number is right because the characters that hold keys of
the buffer have the shape it takes them to have (`ShapeOK`).  In English each of them is
one key.  In Korean, in word mode or with nothing composed, the last character before
the caret is none of them; else the characters before the caret and the composition are
what their keys give when they are pressed again (`SpelledBehind`).  Every step keeps this
and the types of keys (`TextOK`: a new key is on the screen nowhere).  That a letter keeps
`SpelledBehind` is a fact about the two-set automaton: from the syllables that the keys gave,
what follows a beginning of them is what its own keys give (`Remainders`), so that a
consonant that leaves its syllable for the next vowel leaves the rest alone.
`AlignedCut` then says that the text is what is kept and the word, and `ForwardText` and
`ReverseText` that the count erases the word's part of it; `SettledComposed` that what a
replay commits and composes together is the word in Korean.

That nothing of a password is kept is not inductive: it must be known that a key typed
now is none of those typed before.  `SecretTyped` says that the keys typed under a
password's purpose have numbers up to the count of keys, `KeysOK` that those of the buffer
are keys.  What is kept (`Kept`) then grows by a new key at most, and only while no
password's purpose is known (`PasswordLetter`, `PasswordFrame`).

For the configuration, what a writer holds between its read and its write must be tied
to the file as long as no one else has written.  The invariant `ConfigInv` adds to the
types that a copy whose stamp is the file's has the file's layout and switch (`CopyFresh`);
that a copy read by a hotkey at the file's present time has its layout, and the other
switch (`HotkeyFresh`); that an open window without a save has its baseline, and one that
is alone with the file has the file as its baseline (`WindowFresh`); and that a first save
merged at the file's present time differs from the file in the user's field only, and
carries the user's value there while the window is alone (`MergeFresh`).

For the popup, `ConversionEndsOnce` needs only the values of `mode` with it (`Ends`), and
one lemma for each thing that may end a conversion.  The cursor rests on what a page
holds: `CursorOK` says that the page is one there is, and row and column are of its
grid; `TopCell`, that every column of a page has a candidate at its top, so that a row
corrected to 0 finds one; and a lemma for each key and button says where it
leaves the cursor (`MovedOK`, `ChangePageOK`).  The list of Hanja is given by ranks
(`Place`: how many precede), which is the stable sort of `toggle_hanja_bookmark` without
its order of comparisons: `OrderOK` says that it holds each Hanja once, at its place, so
that a cursor set to a place is on the Hanja of that place.  `PopupInv` says that a
popup of Hanja lists them in this order; with the types of calls, signals and windows it
is the inductive invariant `SessionInv`.

`HighlightIsCursor` is about an empty queue, and says nothing while signals are under way.
Its invariant `Arrives` says what they will do: whichever drawings a window may pass
through when it takes the signals one after the other (`Replays`, which lets the user
hide it before any of them), the last of them is one of the engine's popup (`Shows`).
A signal sent is taken last, so that only what it makes of a drawing of the popup
before counts (`SaysArrives`); the first one handled is a step of every such passage
(`DeliverArrives`); a window hidden has fewer of them (`SameArrives`).  `Shows` leaves room for one
thing, the number of columns, which HanjaCandidatesReordered does not carry:
`NarrowIsLast` says that it matters only where a page of one column is the last of
several.

For the GTK client, what decides which keys bypass the daemon are copies: `CopiesFollow`
says that a composition is cached, or comes with the last fix on its way, or with the
one that is deferred; that an emoji popup is shown or its signal is the last of its
kind; and that a deferred fix still has its Backspaces or its idle callback to come.
The text needs to know where each signal's text belongs.  `TextFollows`: there are
positions, one for each signal on its way (`Chain`), such that the signal handled when
the field ends at the one leaves it at the next, from what the field will be when the
deferred fix is done (`Written`) to where the composition begins (`Composed`); a fix is
alone on its way (`OneFix`); and the signal that is to be skipped has nothing before it
that writes (`Skipped`).  Every property of the queue that would be proved by induction
is a part of `Positions`, and kept by sending at its end and handling at its head.

For the composer, everything is said of sequences of jamo: what an area of a queue holds,
which letters they spell, and whether they combine from the left.  The model joins
and retypes with recursive functions and `FlattenSeq`, so that `SeqInduct` (induction
over a set of sequences) reaches them.  The keys of a word must be held when
something is composed (`Held`), and nothing of a word is held outside word mode
(`Proper`), for the types to be kept.  What the keys of a word compose depends on
nothing but the keys (`ReplayAlike`), and one key more composes what it would compose
in the word as it is (`RouteReplay`): hence `Told`, that they compose the word.

The text properties of the composer need to know how the syllable that is shown
(`cur`) and the queue it is composed from belong together, for
only the queue can be composed again.  `Whole` says that each area of the syllable is
what the jamo of the area spell.  It is not invariant: a chord whose syllable breaks the
three-set rules, or a backward combination in an area that has an earlier jamo, leaves an
area that shows less than the queue spells.  `Sound` allows this, as long as the area then has
fewer letters than its jamo, and says that what comes before the last jamo composes.
Counting letters shows that a composition the properties speak of (`Unsettled` is false)
is whole (`SettledWhole`).  `TextInv` is `Sound` with the keys of two-set words of one letter
each and no chord on a two-set keyboard.  From `Whole` follows what each way of adding
a jamo does to the letters: joining, beginning anew (`AddText`), the dokkaebi effect
(`MoveText`, with `FrontSettled` for the syllable it leaves) and combining backward
(`BackwardText`, with `CountConcat` for letters in another order); and that without its last
jamo the queue composes the syllable there was (`AddBack`, `MoveBack`).

While a chord waits, the letters there were before it are still to be found: spelt by the
queue without its last jamo under the preview of the first key, by the whole queue when
nothing is shown, or committed when the chord's syllable is all there is (`Waits`).  The
queue in question must spell one character, for the next key commits what it composes
(`Neat`); it does because the text was settled when the chord began and the first key took
nothing from it (`FirstNeat`).  The chord's syllable is composed from a reordered queue,
one jamo for each area, found by trying the orders of the keys: no order changes how often
a letter stands in it (`OrderTally`, by induction on the number of keys).

Every safety and action property of the passing runs is a theorem, under the premises
named above.  Model-checked only: all
liveness (`ChordEnds`, `EnginesFollow`, `WindowAgrees`, `FixArrives`), which is out of this
prover's reach.

## Not modelled

* The other clients of the daemon (GTK 4, Qt, XIM, Wayland, the GNOME extension, the
  IBus front): the protocol of `FieldClient` written again for another toolkit, with
  the same two paths for text.  What is theirs alone is the toolkit's or the
  compositor's: Wayland counts bytes where the others count characters, and gives a
  key to the application when the daemon does not answer within 50 ms.
* Windows (`unim-tsf`, `unim-imm32`, `unim-popup-win`) and the C interface: they embed
  the engine, whose methods are in `Engine`, in a protocol of COM edit sessions that
  is documented outside this repository.
* Tables: keyboards, the Hanja and emoji dictionaries, Unicode composition.  Nothing
  changes them; the models take their results as constants or free choices.
* User interfaces: drawing, pages of the settings, the key-map studio, typing
  practice, the indicator, the commands that print.
* The daemon's start, single instance, migration, sounds, status file, statistics
  and localisation: work of the operating system, without a state of interest.
* In modelled components: key-repeat suppression, the sticky-modifier mask, surrounding
  text and its slices, the user dictionary (adds words to a constant), the recent
  emojis, the files of blacklist and bookmarks.

These are the larger part of the repository by lines (two thirds of it are tables,
user interfaces, tests beside the code and front ends for other platforms), so that
the modules map a small share of all its lines, and most of the
lines of the components that decide what text a field gets.

What a further step would add: a second client beside `FieldClient` for the Wayland
front end's timeout.
