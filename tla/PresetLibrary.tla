---------------------------- MODULE PresetLibrary ----------------------------
(***************************************************************************)
(* Presets: the preset tab, PresetService and PresetRepository.  A handler *)
(* takes the tab and the form as they are at the click; it reads the       *)
(* preset in one transaction and writes it in another, and the handlers of *)
(* other clicks run in between.                                            *)
(*                                                                         *)
(* Of the form there is what presets decide about: the words of the        *)
(* prompts, the LoRAs, and whether a seed is fixed.                        *)
(***************************************************************************)
EXTENDS Integers, FiniteSets, Sequences

CONSTANTS Preset,       \* ids presets may get
          NoPreset,
          Title,        \* names of presets
          Word,         \* words of prompts
          Lora,
          Limits,       \* values of max_loras
          Handler,      \* handlers that may run at the same time
          MaxClicks,    \* bound: clicks and edits, the confirmation's box apart
          MaxProcesses  \* bound: processes started

PresetAssumption ==
    /\ Preset # {} /\ Title # {}
    /\ NoPreset \notin Preset /\ Limits \subseteq Nat
    /\ MaxClicks \in Nat /\ MaxProcesses \in Nat

VARIABLES
  presets,  \* the table: id -> row
  spent,    \* history: ids there has been a preset of
  ptab,     \* the preset tab
  form,     \* the generation form
  due,      \* change events, by a user or by an answer: "select", "favorite"
  calls,    \* handlers
  limit,    \* max_loras of this process
  clicks, processes

pvars == <<presets, spent, ptab, form, due, calls, limit, clicks, processes>>

-----------------------------------------------------------------------------
(* Rows and the form.                                                       *)

Kind == {"generation", "prompt", "lora"}

SeedMode == {"random", "fixed", "previous"}

EmptyForm == [words |-> {}, loras |-> {}, fixed |-> FALSE, seed |-> "random"]

\* "append" stands for the modes of prompts and of LoRAs.
EmptyTab == [selected |-> NoPreset, kind |-> "generation", title |-> "", favorite |-> FALSE,
             confirmed |-> FALSE, append |-> FALSE]

\* The settings have a seed: the number of the field counts unless the mode is random.
Seeded(f) == f.seed # "random" /\ f.fixed

\* What a preset of a kind keeps of the form.
Payload(kind, f, append) ==
    [words |-> IF kind = "lora" THEN {} ELSE f.words,
     loras |-> IF kind = "prompt" THEN {} ELSE f.loras,
     fixed |-> kind = "generation" /\ Seeded(f),
     seed |-> IF kind = "generation" THEN f.seed ELSE "random",
     append |-> kind = "prompt" /\ append]

\* _settings_from_form: the editor's rows are checked against the limit.
Valid(f) == Cardinality(f.loras) <= limit

\* (kind, name) is unique, and a name is not empty.
Named(kind, title, id) ==
    /\ title \in Title
    /\ \A p \in DOMAIN presets \ {id} : <<presets[p].kind, presets[p].title>> # <<kind, title>>

\* A LoRA is not used twice, and no more are used than the limit.
Usable(f, row, append) ==
    /\ row.kind = "lora" /\ append => f.loras \cap row.payload.loras = {}
    /\ row.kind = "lora" =>
           Cardinality(row.payload.loras \union (IF append THEN f.loras ELSE {})) <= limit
    /\ row.kind = "generation" =>
           /\ Cardinality(row.payload.loras) <= limit
           /\ row.payload.seed = "previous" => Seeded(f)
           /\ row.payload.seed = "fixed" => row.payload.fixed

\* PresetService.apply and what the form shows of its settings.  The mode of the tab
\* goes before the one of a prompt preset; a form with a seed then says "fixed".
Applied(row, f, append) ==
    IF row.kind = "generation"
    THEN [words |-> row.payload.words, loras |-> row.payload.loras,
          fixed |-> row.payload.seed # "random", seed |-> row.payload.seed]
    ELSE [words |-> row.payload.words \union
                      (IF row.kind = "lora" \/ append THEN f.words ELSE {}),
          loras |-> row.payload.loras \union
                      (IF row.kind = "prompt" \/ append THEN f.loras ELSE {}),
          fixed |-> Seeded(f), seed |-> IF Seeded(f) THEN "fixed" ELSE "random"]

-----------------------------------------------------------------------------
(* The user: what a handler works with is taken here.                       *)

NoCall == [op |-> "none", pc |-> "idle", tab |-> EmptyTab, form |-> EmptyForm, got |-> {}]

Clicks == clicks < MaxClicks /\ clicks' = clicks + 1

Begins(h, op) ==
    /\ calls[h].op = "none"
    /\ calls' = [calls EXCEPT ![h] = [NoCall EXCEPT !.op = op, !.pc = "read",
                                                    !.tab = ptab, !.form = form]]

\* Components of the tab whose value has changed have an event, whoever changed them.
Shows(new) ==
    /\ ptab' = new
    /\ due' = due \union (IF new.selected # ptab.selected THEN {"select"} ELSE {})
                 \union (IF new.favorite # ptab.favorite THEN {"favorite"} ELSE {})

\* The list may be older than the table.
ChoosePreset(id) ==
    /\ id \in spent /\ Clicks
    /\ Shows([ptab EXCEPT !.selected = id])
    /\ UNCHANGED <<presets, spent, form, calls, limit, processes>>

EditPresetTab ==
    /\ Clicks
    /\ \/ \E t \in Title : Shows([ptab EXCEPT !.title = t])
       \/ \E k \in Kind : Shows([ptab EXCEPT !.kind = k])
       \/ Shows([ptab EXCEPT !.favorite = ~@])
       \/ Shows([ptab EXCEPT !.append = ~@])
    /\ UNCHANGED <<presets, spent, form, calls, limit, processes>>

Confirm ==
    /\ Shows([ptab EXCEPT !.confirmed = ~@])
    /\ UNCHANGED <<presets, spent, form, calls, limit, clicks, processes>>

EditForm ==
    /\ Clicks
    /\ \/ \E w \in SUBSET Word : form' = [form EXCEPT !.words = w]
       \/ \E l \in SUBSET Lora : Cardinality(l) <= limit /\ form' = [form EXCEPT !.loras = l]
       \/ \E m \in SeedMode : form' = [form EXCEPT !.seed = m]
       \/ form' = [form EXCEPT !.fixed = ~@]
    /\ UNCHANGED <<presets, spent, ptab, due, calls, limit, processes>>

ClickPreset(h, op) ==
    /\ op \in {"save", "update", "duplicate", "delete", "apply"} /\ Clicks
    /\ op # "save" => ptab.selected # NoPreset
    /\ op = "delete" => ptab.confirmed
    /\ Begins(h, op)
    /\ UNCHANGED <<presets, spent, ptab, form, due, limit, processes>>

\* A change event: for what the tab shows at that moment.
Changed(h, op) ==
    /\ op \in due /\ due' = due \ {op}
    /\ IF ptab.selected = NoPreset THEN UNCHANGED calls ELSE Begins(h, op)
    /\ UNCHANGED <<presets, spent, ptab, form, limit, clicks, processes>>

Cleared == [EmptyTab EXCEPT !.confirmed = ptab.confirmed]

ClearTab ==
    /\ Clicks /\ Shows(Cleared)
    /\ UNCHANGED <<presets, spent, form, calls, limit, processes>>

-----------------------------------------------------------------------------
(* Handlers.                                                                *)

Returns(h) == calls' = [calls EXCEPT ![h] = NoCall]

\* get_by_id; a save has nothing to read.
ReadPreset(h) ==
    /\ calls[h].pc = "read" /\ calls[h].op \notin {"save", "delete", "favorite"}
    /\ LET id == calls[h].tab.selected
       IN IF id \in DOMAIN presets
          THEN calls' = [calls EXCEPT ![h].pc = IF calls[h].op = "select"
                                                THEN "answer" ELSE "write",
                                      ![h].got = {presets[id]}]
          ELSE Returns(h)
    /\ UNCHANGED <<presets, spent, ptab, form, due, limit, clicks, processes>>

Fresh == Preset \ spent

Insert(h, kind, title, favorite, payload) ==
    /\ Fresh # {}
    /\ \/ LET id == CHOOSE p \in Fresh : TRUE
          IN /\ Named(kind, title, id)
             /\ presets' = [p \in DOMAIN presets \union {id} |->
                               IF p = id THEN [kind |-> kind, title |-> title, uses |-> 0,
                                               favorite |-> favorite, payload |-> payload]
                               ELSE presets[p]]
             /\ spent' = spent \union {id}
             /\ calls' = [calls EXCEPT ![h].pc = "answer", ![h].got = {presets'[id]},
                                       ![h].tab.selected = id]
       \/ Returns(h) /\ UNCHANGED <<presets, spent>>

SavePreset(h) ==
    /\ calls[h].op = "save" /\ calls[h].pc = "read"
    /\ LET t == calls[h].tab
       IN IF Valid(calls[h].form)
          THEN Insert(h, t.kind, t.title, t.favorite, Payload(t.kind, calls[h].form, t.append))
          ELSE Returns(h) /\ UNCHANGED <<presets, spent>>
    /\ UNCHANGED <<ptab, form, due, limit, clicks, processes>>

\* The name is free in the list of the kind, read before it is inserted.
DuplicatePreset(h) ==
    /\ calls[h].op = "duplicate" /\ calls[h].pc = "write"
    /\ \E r \in calls[h].got, title \in Title :
           /\ title # r.title
           /\ Insert(h, r.kind, title, r.favorite, r.payload)
    /\ UNCHANGED <<ptab, form, due, limit, clicks, processes>>

\* PresetRepository.update writes what was read before with the form's values, into the
\* row as it is now: a preset that is gone stays gone, and its use is not counted back.
WrongUpdated(id, row) ==
    {[p \in DOMAIN presets \union {id} |-> IF p = id THEN row ELSE presets[p]]}

Updated(id, row) ==
    IF id \in DOMAIN presets
    THEN {[presets EXCEPT ![id] = [row EXCEPT !.uses = presets[id].uses]]}
    ELSE {}

UpdatePreset(h) ==
    /\ calls[h].op = "update" /\ calls[h].pc = "write"
    /\ \E r \in calls[h].got :
       LET t == calls[h].tab
           row == [r EXCEPT !.title = t.title, !.favorite = t.favorite,
                            !.payload = Payload(r.kind, calls[h].form, t.append)]
       IN \/ /\ Valid(calls[h].form) /\ Named(r.kind, t.title, t.selected)
             /\ presets' \in Updated(t.selected, row)
             /\ calls' = [calls EXCEPT ![h].pc = "answer", ![h].got = {row}]
          \/ Returns(h) /\ UNCHANGED presets
    /\ UNCHANGED <<spent, ptab, form, due, limit, clicks, processes>>

DeletePreset(h) ==
    /\ calls[h].op = "delete" /\ calls[h].pc = "read"
    /\ \/ /\ presets' = [p \in DOMAIN presets \ {calls[h].tab.selected} |-> presets[p]]
          /\ calls' = [calls EXCEPT ![h].pc = "answer"]
       \/ Returns(h) /\ UNCHANGED presets
    /\ UNCHANGED <<spent, ptab, form, due, limit, clicks, processes>>

SaveFavorite(h) ==
    /\ calls[h].op = "favorite" /\ calls[h].pc = "read"
    /\ \/ /\ calls[h].tab.selected \in DOMAIN presets
          /\ presets' = [presets EXCEPT ![calls[h].tab.selected].favorite = calls[h].tab.favorite]
          /\ calls' = [calls EXCEPT ![h].pc = "answer"]
       \/ Returns(h) /\ UNCHANGED presets
    /\ UNCHANGED <<spent, ptab, form, due, limit, clicks, processes>>

\* record_usage; that the preset is gone by now does not stop the apply.
UsePreset(h) ==
    /\ calls[h].op = "apply" /\ calls[h].pc = "write"
    /\ LET id == calls[h].tab.selected
       IN \E r \in calls[h].got :
            IF Valid(calls[h].form) /\ Usable(calls[h].form, r, calls[h].tab.append)
            THEN /\ presets' = (IF id \in DOMAIN presets
                                THEN [presets EXCEPT ![id].uses = @ + 1] ELSE presets)
                 /\ calls' = [calls EXCEPT ![h].pc = "answer"]
            ELSE Returns(h) /\ UNCHANGED presets
    /\ UNCHANGED <<spent, ptab, form, due, limit, clicks, processes>>

\* What the tab and the form show then.
AnswerPreset(h) ==
    /\ calls[h].pc = "answer" /\ Returns(h)
    /\ \/ /\ calls[h].op = "apply"
          /\ \E r \in calls[h].got : form' = Applied(r, calls[h].form, calls[h].tab.append)
          /\ UNCHANGED <<ptab, due>>
       \/ calls[h].op = "delete" /\ Shows(Cleared) /\ UNCHANGED form
       \/ /\ calls[h].op = "favorite"
          /\ Shows([ptab EXCEPT !.favorite = calls[h].tab.favorite]) /\ UNCHANGED form
       \/ /\ calls[h].op \notin {"apply", "delete", "favorite"}
          /\ \E r \in calls[h].got :
                 Shows([selected |-> IF calls[h].op = "select" THEN ptab.selected
                                     ELSE calls[h].tab.selected,
                        kind |-> r.kind, title |-> r.title, favorite |-> r.favorite,
                        confirmed |-> ptab.confirmed, append |-> r.payload.append])
          /\ UNCHANGED form
    /\ UNCHANGED <<presets, spent, limit, clicks, processes>>

-----------------------------------------------------------------------------

\* The settings may say another max_loras then.
RestartPresets ==
    /\ processes < MaxProcesses /\ processes' = processes + 1
    /\ limit' \in Limits
    /\ ptab' = EmptyTab /\ form' = EmptyForm /\ due' = {}
    /\ calls' = [h \in Handler |-> NoCall]
    /\ UNCHANGED <<presets, spent, clicks>>

\* One preset of an earlier process is there.
Init ==
    /\ \E k \in Kind :
       LET id == CHOOSE p \in Preset : TRUE
           t == CHOOSE x \in Title : TRUE
       IN  /\ presets = [p \in {id} |->
                            [kind |-> k, title |-> t, favorite |-> FALSE, uses |-> 0,
                             payload |-> Payload(k, EmptyForm, FALSE)]]
           /\ spent = {id}
    /\ ptab = EmptyTab /\ form = EmptyForm /\ due = {}
    /\ calls = [h \in Handler |-> NoCall] /\ limit \in Limits
    /\ clicks = 0 /\ processes = 1

Next ==
    \/ \E id \in Preset : ChoosePreset(id)
    \/ \E h \in Handler, op \in {"save", "update", "duplicate", "delete", "apply"} :
           ClickPreset(h, op)
    \/ EditPresetTab \/ Confirm \/ EditForm \/ ClearTab \/ RestartPresets
    \/ \E h \in Handler :
           \/ Changed(h, "select") \/ Changed(h, "favorite") \/ ReadPreset(h) \/ SavePreset(h) \/ DuplicatePreset(h)
           \/ UpdatePreset(h) \/ DeletePreset(h) \/ SaveFavorite(h) \/ UsePreset(h)
           \/ AnswerPreset(h)

Spec == Init /\ [][Next]_pvars

-----------------------------------------------------------------------------
(* Properties.                                                              *)

\* A step brings no deleted preset back and takes no counted use away.
UndoesNothing ==
    /\ (spent \ DOMAIN presets) \cap DOMAIN presets' = {}
    /\ \A p \in DOMAIN presets \cap DOMAIN presets' : presets'[p].uses >= presets[p].uses

\* A handler that read a preset before another one changed it undoes nothing of that:
\* a deleted preset does not come back, and no use of a preset is uncounted.
EditsUndoNothing == [][UndoesNothing]_pvars
=============================================================================
