----------------------- MODULE ProviderSettingsProofs -----------------------
(***************************************************************************)
(* What ProviderSettings promises for any names, scopes and number of      *)
(* faults: a credential is what the user stored last, through saves that   *)
(* change several names one by one, failing files, restarts and a desktop  *)
(* that can encrypt at one call and not at the next.                       *)
(***************************************************************************)
EXTENDS ProviderSettings, TLAPS

SettingsConstants ==
  /\ Keyless \subseteq Scopes /\ Scopes \ Keyless # {} /\ ApiKey \in Names
  /\ MaxTyped \in Nat /\ MaxCalls \in Nat /\ MaxFaults \in Nat

Maps == [Names -> Values]
Rows == [exists : BOOLEAN, scope : Scopes, refs : SUBSET Names]
Stores == [persistent : BOOLEAN, loaded : {"no", "yes", "failed"}, file : Maps,
           memory : Maps, flushing : BOOLEAN]
Calls == [pc : {"none", "save", "delete"}, scope : Scopes, deletes : SUBSET Names,
          puts : SUBSET Names, values : Maps, names : SUBSET Names]
Forms == [scope : Scopes, names : SUBSET Names, values : Maps]
Counts == [typed : 0..MaxTyped, calls : 0..MaxCalls, faults : 0..MaxFaults]

\* What a provider should be called with.
Expected(n) == IF n \in Existing THEN entered[n] ELSE 0

\* The names that the call has still to change, what it makes of one, and all it changes.
Left == call.deletes \cup call.puts
Wants(n) == IF call.pc = "save" THEN call.values[n] ELSE 0
Concerned == IF Busy THEN Mutated ELSE {}

\* The call goes through its deletes first, then through its puts.
Plan ==
  /\ call.pc = "none" => Left = {}
  /\ call.pc = "delete" =>
       call.puts = {} /\ row.exists /\ call.deletes \subseteq row.refs
  /\ call.pc = "save" =>
       /\ Typed(call.values) \subseteq call.names
       /\ ScopeChanged(call.scope) => call.names = Typed(call.values)
       /\ call.deletes \subseteq Dropped(call.scope, call.names)
       /\ call.puts \subseteq Typed(call.values)
       /\ call.deletes # {} => call.puts = Typed(call.values)

\* The file differs from the contents in memory only under names that a call has changed
\* and not finished, or that are astray.
Written ==
  /\ store.flushing => Busy /\ store.loaded = "yes"
  /\ store.loaded = "yes" =>
       \A n \in Names \ astray :
         n \notin torn \cup Concerned \/ (~store.flushing /\ n \in Concerned \ Left)
           => disk[n] = store.file[n]

\* What is stored under a name, whether or not it can be decrypted now, and that it is not
\* stored in two places.
Held(n) == IF store.memory[n] # 0 THEN store.memory[n] ELSE Contents[n]
Single(n) == store.memory[n] = 0 \/ (disk[n] = 0 /\ Contents[n] = 0)

\* A name that no call has touched is as the user left it, and one that the call has
\* changed is as the user wants it now.
Kept ==
  /\ \A n \in Names \ Existing : entered[n] = 0
  /\ \A n \in Names \ (torn \cup astray \cup Concerned) : Single(n) /\ Held(n) = Expected(n)
  /\ \A n \in (Concerned \ Left) \ astray : Single(n) /\ Held(n) = Wants(n)

Safe == TypeOK /\ Plan /\ Written /\ Kept

----------------------------------------------------------------------------
(* The types.                                                              *)

LEMMA Records ==
  TypeOK <=> /\ row \in Rows /\ disk \in Maps /\ store \in Stores /\ call \in Calls
             /\ form \in Forms /\ entered \in Maps /\ torn \subseteq Names
             /\ astray \subseteq Names /\ made \in Counts
BY DEF TypeOK, Maps, Rows, Stores, Calls, Forms, Counts

LEMMA EmptyIsMap == ASSUME SettingsConstants PROVE Empty \in Maps
BY DEF SettingsConstants, Empty, Maps, Values

LEMMA FormsAreForms ==
  ASSUME SettingsConstants
  PROVE  /\ \A s \in Scopes : NewForms(s) \subseteq Forms
         /\ \A r \in Rows : FormsOf(r) \subseteq Forms
<1>1. ASSUME NEW s \in Scopes PROVE NewForms(s) \subseteq Forms
  <2>1. ASSUME NEW f \in NewForms(s) PROVE f \in Forms
    <3>1. f \in [scope : Scopes, values : Maps, names : SUBSET Names]
      BY EmptyIsMap DEF NewForms, SettingsConstants
    <3>2. QED
      BY <3>1 DEF Forms
  <2>2. QED
    BY <2>1
<1>2. ASSUME NEW r \in Rows PROVE FormsOf(r) \subseteq Forms
  <2>1. r.scope \in Scopes /\ r.refs \in SUBSET Names
    BY DEF Rows
  <2>2. [scope |-> r.scope, names |-> r.refs, values |-> Empty] \in Forms
    BY <2>1, EmptyIsMap DEF Forms
  <2>3. QED
    BY <1>1, <2>1, <2>2 DEF FormsOf
<1>3. QED
  BY <1>1, <1>2

LEMMA FormUpdates ==
  ASSUME NEW f \in Forms, 0 \in Values
  PROVE  /\ \A s \in Scopes : [f EXCEPT !.scope = s] \in Forms
         /\ \A n \in Names : [f EXCEPT !.names = @ \cup {n}] \in Forms
         /\ \A n \in Names : [f EXCEPT !.names = @ \ {n}, !.values[n] = 0] \in Forms
         /\ \A n \in Names, v \in Values : [f EXCEPT !.values[n] = v] \in Forms
<1>1. f.names \in SUBSET Names /\ f.values \in Maps
  BY DEF Forms
<1>2. \A s \in Scopes : [f EXCEPT !.scope = s] \in Forms
  BY DEF Forms
<1>3. ASSUME NEW n \in Names PROVE [f EXCEPT !.names = @ \cup {n}] \in Forms
  BY <1>1 DEF Forms
<1>4. ASSUME NEW n \in Names, NEW v \in Values PROVE [f.values EXCEPT ![n] = v] \in Maps
  BY <1>1 DEF Maps
<1>5. ASSUME NEW n \in Names, NEW v \in Values PROVE [f EXCEPT !.values[n] = v] \in Forms
  <2>1. [f EXCEPT !.values = [f.values EXCEPT ![n] = v]] \in Forms
    BY <1>4 DEF Forms
  <2>2. QED
    BY <2>1
<1>6. ASSUME NEW n \in Names PROVE [f EXCEPT !.names = @ \ {n}, !.values[n] = 0] \in Forms
  <2>1. f.names \ {n} \in SUBSET Names /\ [f.values EXCEPT ![n] = 0] \in Maps
    BY <1>1, <1>4
  <2>2. [f EXCEPT !.names = f.names \ {n}, !.values = [f.values EXCEPT ![n] = 0]] \in Forms
    BY <2>1 DEF Forms
  <2>3. [f EXCEPT !.names = @ \ {n}, !.values[n] = 0] =
          [f EXCEPT !.names = f.names \ {n}, !.values = [f.values EXCEPT ![n] = 0]]
    BY DEF Forms
  <2>4. QED
    BY <2>2, <2>3
<1>7. QED
  BY <1>2, <1>3, <1>5, <1>6

LEMMA CallUpdates ==
  ASSUME SettingsConstants, row \in Rows
  PROVE  /\ NoCall \in Calls
         /\ \A s \in Scopes : [NoCall EXCEPT !.scope = s] \in Calls
         /\ [NoCall EXCEPT !.pc = "delete", !.deletes = row.refs] \in Calls
         /\ \A c \in Calls, names \in SUBSET Names :
              [c EXCEPT !.deletes = names] \in Calls /\ [c EXCEPT !.puts = names] \in Calls
<1>1. row.scope \in Scopes /\ row.refs \in SUBSET Names
  BY DEF Rows
<1>2. NoCall \in Calls
  BY <1>1, EmptyIsMap DEF NoCall, Calls
<1>3. \A s \in Scopes : [NoCall EXCEPT !.scope = s] \in Calls
  BY <1>2 DEF Calls
<1>4. [NoCall EXCEPT !.pc = "delete", !.deletes = row.refs] \in Calls
  BY <1>1, <1>2 DEF Calls
<1>5. ASSUME NEW c \in Calls, NEW names \in SUBSET Names
      PROVE  [c EXCEPT !.deletes = names] \in Calls /\ [c EXCEPT !.puts = names] \in Calls
  BY DEF Calls
<1>6. QED
  BY <1>2, <1>3, <1>4, <1>5

LEMMA CountUpdates ==
  ASSUME SettingsConstants, made \in Counts
  PROVE  /\ Fault => made' \in Counts
         /\ made.typed < MaxTyped /\ made' = [made EXCEPT !.typed = @ + 1] => made' \in Counts
         /\ made.calls < MaxCalls /\ made' = [made EXCEPT !.calls = @ + 1] => made' \in Counts
<1>1. made.typed \in 0..MaxTyped /\ made.calls \in 0..MaxCalls /\ made.faults \in 0..MaxFaults
      /\ MaxTyped \in Nat /\ MaxCalls \in Nat /\ MaxFaults \in Nat
  BY DEF Counts, SettingsConstants
<1>2. ASSUME Fault PROVE made' \in Counts
  <2>1. made.faults + 1 \in 0..MaxFaults
    BY <1>1, <1>2 DEF Fault
  <2>2. made' = [made EXCEPT !.faults = made.faults + 1]
    BY <1>2 DEF Fault
  <2>3. QED
    BY <2>1, <2>2 DEF Counts
<1>3. ASSUME made.typed < MaxTyped, made' = [made EXCEPT !.typed = @ + 1] PROVE made' \in Counts
  <2>1. made.typed + 1 \in 0..MaxTyped
    BY <1>1, <1>3
  <2>2. made' = [made EXCEPT !.typed = made.typed + 1]
    BY <1>3
  <2>3. QED
    BY <2>1, <2>2 DEF Counts
<1>4. ASSUME made.calls < MaxCalls, made' = [made EXCEPT !.calls = @ + 1] PROVE made' \in Counts
  <2>1. made.calls + 1 \in 0..MaxCalls
    BY <1>1, <1>4
  <2>2. made' = [made EXCEPT !.calls = made.calls + 1]
    BY <1>4
  <2>3. QED
    BY <2>1, <2>2 DEF Counts
<1>5. QED
  BY <1>2, <1>3, <1>4

LEMMA ContentsAreMaps ==
  ASSUME SettingsConstants, TypeOK, NEW n \in Names
  PROVE  /\ Contents \in Maps /\ store.memory \in Maps
         /\ Changed(Contents, n) \in Maps /\ Changed(store.memory, n) \in Maps
<1>1. Contents \in Maps /\ store.memory \in Maps /\ call.values \in Maps
  BY Records DEF Contents, Stores, Calls
<1>2. 0 \in Values
  BY DEF Values, SettingsConstants
<1>3. (IF n \in call.deletes THEN 0 ELSE call.values[n]) \in Values
  BY <1>1, <1>2 DEF Maps
<1>4. \A m \in Maps : Changed(m, n) \in Maps
  BY <1>3 DEF Changed, Maps
<1>5. QED
  BY <1>1, <1>4

LEMMA WithoutIsMap ==
  ASSUME SettingsConstants, NEW m \in Maps, NEW names PROVE Without(m, names) \in Maps
<1>1. 0 \in Values
  BY DEF Values, SettingsConstants
<1>2. QED
  BY <1>1 DEF Without, Maps

\* The steps of the dialog, and what they leave alone.
Editing ==
  \/ \E scope \in Scopes : ChangeScope(scope)
  \/ \E n \in Names : AddField(n) \/ RemoveField(n) \/ TypeValue(n)
  \/ Reload

LEMMA EditingEdits ==
  ASSUME Editing PROVE UNCHANGED <<row, disk, store, call, entered, torn, astray>>
  BY DEF Editing, ChangeScope, AddField, RemoveField, TypeValue, Reload, Edits

LEMMA EditingTypes == ASSUME SettingsConstants, TypeOK, Editing PROVE TypeOK'
<1>0. form \in Forms /\ row \in Rows /\ made \in Counts /\ 0 \in Values /\ row.scope \in Scopes
  BY Records DEF Values, SettingsConstants, Rows
<1>1. form' \in Forms
  <2>1. ASSUME NEW s \in Scopes, ChangeScope(s) PROVE form' \in Forms
    BY <1>0, <2>1, FormsAreForms, FormUpdates DEF ChangeScope, Edits
  <2>2. ASSUME NEW n \in Names, AddField(n) \/ RemoveField(n) PROVE form' \in Forms
    <3>1. \/ form' = [form EXCEPT !.names = @ \cup {n}]
          \/ form' = [form EXCEPT !.names = @ \ {n}, !.values[n] = 0]
      BY <2>2 DEF AddField, RemoveField, Edits
    <3>2. QED
      BY <1>0, <3>1, FormUpdates
  <2>3. ASSUME NEW n \in Names, TypeValue(n) PROVE form' \in Forms
    <3>1. made.typed + 1 \in Values
      BY <1>0, <2>3 DEF TypeValue, Values, Counts, SettingsConstants
    <3>2. form' = [form EXCEPT !.values[n] = made.typed + 1]
      BY <2>3 DEF TypeValue, Edits
    <3>3. QED
      BY <1>0, <3>1, <3>2, FormUpdates
  <2>4. CASE Reload
    BY <1>0, <2>4, FormsAreForms DEF Reload, Edits
  <2>5. QED
    BY <2>1, <2>2, <2>3, <2>4 DEF Editing
<1>2. made' \in Counts
  <2>1. \/ made' = made
        \/ made.typed < MaxTyped /\ made' = [made EXCEPT !.typed = @ + 1]
    BY DEF Editing, ChangeScope, AddField, RemoveField, TypeValue, Reload
  <2>2. QED
    BY <1>0, <2>1, CountUpdates
<1>3. QED
  BY <1>1, <1>2, EditingEdits, Records DEF TypeOK, Forms, Counts, Maps

LEMMA DoneTypes ==
  ASSUME SettingsConstants, TypeOK, NEW n, Done(n) PROVE call' \in Calls
<1>1. call \in Calls /\ call.deletes \ {n} \in SUBSET Names /\ call.puts \ {n} \in SUBSET Names
      /\ row \in Rows
  BY Records DEF Calls
<1>2. [call EXCEPT !.deletes = call.deletes \ {n}] \in Calls
      /\ [call EXCEPT !.puts = call.puts \ {n}] \in Calls
  BY <1>1, CallUpdates
<1>3. QED
  BY <1>2 DEF Done

LEMMA SaveTypes == ASSUME SettingsConstants, TypeOK, Save PROVE call' \in Calls
<1>1. /\ form.scope \in Scopes /\ form.values \in Maps /\ form.names \in SUBSET Names
      /\ row.refs \in SUBSET Names
  BY Records DEF Forms, Rows
<1>2. Typed(form.values) \in SUBSET Names
  BY DEF Typed
<1>3. Desired(form) \in SUBSET Names
  BY <1>1, <1>2 DEF Desired, Sent
<1>4. Dropped(form.scope, Desired(form)) \in SUBSET Names
  BY <1>1 DEF Dropped, Existing
<1>5. QED
  BY <1>1, <1>2, <1>3, <1>4 DEF Save, Calls

LEMMA MutatedIsNames == ASSUME TypeOK PROVE Mutated \subseteq Names
<1>1. row.refs \subseteq Names
  BY Records DEF Rows
<1>2. QED
  BY <1>1 DEF Mutated, Dropped, Existing, Typed

LEMMA SavedTypes ==
  ASSUME SettingsConstants, TypeOK, RowSaved \/ RowDeleted PROVE TypeOK'
<1>0. /\ row \in Rows /\ call \in Calls /\ entered \in Maps /\ torn \subseteq Names
      /\ call.scope \in Scopes /\ call.names \in SUBSET Names /\ call.values \in Maps
      /\ row.scope \in Scopes /\ row.exists \in BOOLEAN
  BY Records DEF Calls, Rows
<1>1. CASE RowSaved
  <2>1. row' \in Rows /\ row'.scope \in Scopes
    BY <1>0, <1>1 DEF RowSaved, Rows
  <2>2. form' \in Forms
    BY <1>1, <2>1, FormsAreForms DEF RowSaved
  <2>3. call' \in Calls
    <3>1. call' = [NoCall EXCEPT !.scope = row'.scope]
      BY <1>1 DEF RowSaved
    <3>2. QED
      BY <1>0, <2>1, <3>1, CallUpdates
  <2>4. entered' \in Maps
    <3>1. 0 \in Values
      BY DEF Values, SettingsConstants
    <3>2. QED
      BY <1>0, <1>1, <3>1 DEF RowSaved, Remembers, Maps
  <2>5. torn' \subseteq Names /\ UNCHANGED <<disk, store, astray, made>>
    BY <1>0, <1>1 DEF RowSaved
  <2>6. QED
    BY <2>1, <2>2, <2>3, <2>4, <2>5, Records
    DEF TypeOK, Maps, Rows, Stores, Calls, Forms, Counts
<1>2. CASE RowDeleted
  <2>1. row' \in Rows
    <3>1. row' = [row EXCEPT !.exists = FALSE, !.refs = {}]
      BY <1>2 DEF RowDeleted
    <3>2. QED
      BY <1>0, <3>1 DEF Rows
  <2>2. form' \in Forms /\ call' \in Calls /\ entered' \in Maps
    BY <1>0, <1>2, FormsAreForms, CallUpdates, EmptyIsMap DEF RowDeleted
  <2>3. torn' \subseteq Names /\ UNCHANGED <<disk, store, astray, made>>
    BY <1>0, <1>2 DEF RowDeleted
  <2>4. QED
    BY <2>1, <2>2, <2>3, Records DEF TypeOK, Maps, Rows, Stores, Calls, Forms, Counts
<1>3. QED
  BY <1>1, <1>2

LEMMA FaultTypes ==
  ASSUME SettingsConstants, TypeOK,
         RowFails \/ LoadFails \/ FlushFails \/ EncryptionChanges \/ Restart
  PROVE  TypeOK'
<1>0. /\ row \in Rows /\ store \in Stores /\ entered \in Maps /\ torn \subseteq Names
      /\ made \in Counts /\ form \in Forms /\ Empty \in Maps /\ NoCall \in Calls
      /\ Mutated \subseteq Names /\ disk \in Maps /\ call \in Calls /\ astray \subseteq Names
      /\ store.file \in Maps /\ store.memory \in Maps
  BY Records, EmptyIsMap, CallUpdates, MutatedIsNames DEF Stores
<1>1. row' \in Rows /\ call' \in Calls /\ torn' \subseteq Names /\ astray' \subseteq Names
  BY <1>0 DEF RowFails, LoadFails, FlushFails, EncryptionChanges, Restart, CallFails
<1>2. made' \in Counts
  BY <1>0, CountUpdates DEF RowFails, LoadFails, FlushFails, EncryptionChanges, Restart
<1>3. entered' \in Maps
  <2>1. CASE Restart
    <3>1. 0 \in Values
      BY DEF Values, SettingsConstants
    <3>2. QED
      BY <1>0, <2>1, <3>1 DEF Restart, Maps
  <2>2. QED
    BY <1>0, <2>1 DEF RowFails, LoadFails, FlushFails, EncryptionChanges, CallFails
<1>4. form' \in Forms
  BY <1>0, FormsAreForms DEF RowFails, LoadFails, FlushFails, EncryptionChanges, Restart, CallFails
<1>5. store' \in Stores
  <2>1. CASE Restart
    BY <1>0, <2>1 DEF Restart, Stores
  <2>2. \A names : Without(store.file, names) \in Maps /\ Without(store.memory, names) \in Maps
    BY <1>0, WithoutIsMap
  <2>3. \/ store' = store \/ store' = [store EXCEPT !.persistent = ~@]
        \/ store' = [store EXCEPT !.loaded = "failed", !.memory = Without(store.memory, Rest)]
        \/ store' = [store EXCEPT !.flushing = FALSE, !.file = Without(store.file, Rest),
                                  !.memory = Without(store.memory, Rest)]
        \/ Restart
    BY DEF RowFails, LoadFails, FlushFails, EncryptionChanges
  <2> DEFINE f == Without(store.file, Rest)
             m == Without(store.memory, Rest)
  <2>4. f \in Maps /\ m \in Maps
    BY <2>2
  <2>5. \/ store' = store \/ store' = [store EXCEPT !.persistent = ~@]
        \/ store' = [store EXCEPT !.loaded = "failed", !.memory = m]
        \/ store' = [store EXCEPT !.flushing = FALSE, !.file = f, !.memory = m]
        \/ Restart
    BY <2>3
  <2> HIDE DEF f, m
  <2>6. CASE store' = [store EXCEPT !.persistent = ~@]
    BY <1>0, <2>6 DEF Stores
  <2>7. CASE store' = [store EXCEPT !.loaded = "failed", !.memory = m]
    BY <1>0, <2>4, <2>7 DEF Stores
  <2>8. CASE store' = [store EXCEPT !.flushing = FALSE, !.file = f, !.memory = m]
    BY <1>0, <2>4, <2>8 DEF Stores
  <2>9. QED
    BY <1>0, <2>1, <2>5, <2>6, <2>7, <2>8
<1>6. disk' \in Maps
  <2>1. CASE FlushFails
    BY <1>0, <2>1, WithoutIsMap DEF FlushFails
  <2>2. QED
    BY <1>0, <2>1 DEF RowFails, LoadFails, EncryptionChanges, Restart
<1>7. QED
  BY <1>1, <1>2, <1>3, <1>4, <1>5, <1>6 DEF TypeOK, Maps, Rows, Stores, Calls, Forms, Counts

LEMMA StepTypes == ASSUME SettingsConstants, TypeOK, Next PROVE TypeOK'
<1>0. /\ row \in Rows /\ disk \in Maps /\ store \in Stores /\ call \in Calls
      /\ form \in Forms /\ entered \in Maps /\ torn \subseteq Names
      /\ astray \subseteq Names /\ made \in Counts
  BY Records
<1>1. CASE Save \/ Delete
  <2>1. call' \in Calls
    BY <1>0, <1>1, SaveTypes, CallUpdates DEF Delete
  <2>2. made' \in Counts /\ UNCHANGED <<row, disk, store, form, entered, torn, astray>>
    BY <1>0, <1>1, CountUpdates DEF Save, Delete
  <2>3. QED
    BY <1>0, <2>1, <2>2 DEF TypeOK, Maps, Rows, Stores, Calls, Forms, Counts
<1>2. ASSUME NEW n \in Names, Mutate(n) \/ MutateMemory(n) PROVE TypeOK'
  <2>1. call' \in Calls
    BY <1>2, DoneTypes DEF Mutate, MutateMemory, MutatesIn
  <2>2. store' \in Stores
    <3> DEFINE f == Changed(Contents, n)
               m == Changed(store.memory, n)
               k == IF n \in call.deletes THEN m ELSE store.memory
    <3>1. f \in Maps /\ m \in Maps /\ k \in Maps
      BY ContentsAreMaps
    <3>2. \/ store' = [store EXCEPT !.loaded = "yes", !.flushing = TRUE, !.file = f, !.memory = k]
          \/ store' = [store EXCEPT !.memory = m]
      BY <1>2 DEF Mutate, MutateMemory
    <3> HIDE DEF f, m, k
    <3>3. CASE store' = [store EXCEPT !.loaded = "yes", !.flushing = TRUE, !.file = f, !.memory = k]
      BY <1>0, <3>1, <3>3 DEF Stores
    <3>4. CASE store' = [store EXCEPT !.memory = m]
      BY <1>0, <3>1, <3>4 DEF Stores
    <3>5. QED
      BY <3>2, <3>3, <3>4
  <2>3. UNCHANGED <<row, disk, form, entered, torn, made>> /\ astray' \subseteq Names
    BY <1>0, <1>2 DEF Mutate, MutateMemory, MutatesIn
  <2>4. QED
    BY <1>0, <2>1, <2>2, <2>3 DEF TypeOK, Maps, Rows, Stores, Calls, Forms, Counts
<1>3. CASE Flushed
  <2>1. disk' \in Maps
    BY <1>0, <1>3 DEF Flushed, Stores
  <2>2. store' \in Stores
    BY <1>0, <1>3 DEF Flushed, Stores
  <2>3. QED
    BY <1>0, <1>3, <2>1, <2>2 DEF Flushed, TypeOK, Maps, Rows, Stores, Calls, Forms, Counts
<1>4. QED
  BY <1>1, <1>2, <1>3, EditingTypes, SavedTypes, FaultTypes DEF Next, Editing

LEMMA InitTypes == ASSUME SettingsConstants, Init PROVE TypeOK
<1>0. (CHOOSE s \in Scopes \ Keyless : TRUE) \in Scopes
  BY DEF SettingsConstants
<1>1. row \in Rows
  BY <1>0 DEF Init, Rows
<1>2. form \in Forms
  <2>1. row.scope \in Scopes
    BY <1>1 DEF Rows
  <2>2. QED
    BY <2>1, FormsAreForms DEF Init
<1>3. call \in Calls /\ disk \in Maps /\ entered \in Maps /\ torn \subseteq Names
      /\ astray \subseteq Names
  BY <1>1, CallUpdates, EmptyIsMap DEF Init
<1>4. store \in Stores
  BY EmptyIsMap DEF Init, Stores
<1>5. made \in Counts
  BY DEF Init, Counts, SettingsConstants
<1>6. QED
  BY <1>1, <1>2, <1>3, <1>4, <1>5, Records

----------------------------------------------------------------------------
(* The invariant.                                                          *)

LEMMA InitIsSafe == ASSUME SettingsConstants, Init PROVE Safe
<1>1. Existing = {} /\ Left = {} /\ ~Busy /\ Concerned = {}
  BY DEF Init, Existing, Left, Busy, NoCall, Concerned
<1>2. Contents = Empty /\ store.memory = Empty /\ entered = Empty /\ store.loaded = "no"
      /\ ~store.flushing
  BY DEF Init, Contents
<1>3. \A n \in Names : Held(n) = 0 /\ Single(n) /\ entered[n] = 0
  BY <1>2 DEF Held, Single, Empty
<1>4. QED
  BY <1>1, <1>2, <1>3, InitTypes
  DEF Safe, Plan, Written, Kept, Expected, Init, NoCall

\* What the dialog edits does not matter until it is saved.
LEMMA UntouchedIsSafe ==
  ASSUME Safe, TypeOK', UNCHANGED <<row, disk, call, entered, torn, astray>>,
         UNCHANGED <<store.loaded, store.file, store.memory, store.flushing>>
  PROVE  Safe'
  BY DEF Safe, Plan, Written, Kept, Left, ScopeChanged, Typed, Dropped, Existing, Busy,
     Concerned, Mutated, Held, Single, Contents, Expected, Wants

\* A call that begins has everything still to do.
LEMMA BeginningIsSafe ==
  ASSUME SettingsConstants, Safe, Save \/ Delete PROVE Safe'
<1>0. /\ ~Busy /\ Concerned = {}
      /\ UNCHANGED <<row, disk, store, form, entered, torn, astray>>
  BY DEF Save, Delete, Concerned
<1>t. TypeOK'
  BY StepTypes DEF Safe, Next
<1>1. Plan' /\ Concerned' = Left' /\ Busy'
  <2>1. CASE Save
    <3>1. call' = [pc |-> "save", scope |-> form.scope, names |-> Desired(form),
              values |-> form.values, puts |-> Typed(form.values),
              deletes |-> Dropped(form.scope, Desired(form))]
      BY <2>1 DEF Save
    <3>2. /\ Typed(form.values) \subseteq Desired(form)
          /\ ScopeChanged(form.scope) => Desired(form) = Typed(form.values)
      BY DEF Desired
    <3>3. Busy' /\ Mutated' = Left'
      BY <1>0, <3>1 DEF Busy, Mutated, Left, Dropped, Typed, ScopeChanged, Existing
    <3>4. Plan'
      BY <1>0, <3>1, <3>2 DEF Plan, ScopeChanged, Dropped, Typed, Existing
    <3>5. QED
      BY <3>3, <3>4 DEF Concerned
  <2>2. CASE Delete
    <3>1. call'.pc = "delete" /\ call'.deletes = row.refs /\ call'.puts = {} /\ row.exists
      BY <2>2 DEF Delete, NoCall
    <3>2. QED
      BY <1>0, <3>1 DEF Plan, Busy, Mutated, Left, Concerned
  <2>3. QED
    BY <2>1, <2>2
<1>2. ~store.flushing
  BY <1>0 DEF Safe, Written
<1>3. Written'
  BY <1>0, <1>1, <1>2 DEF Safe, Written
<1>4. Kept'
  <2>1. \A n : /\ Held(n)' = Held(n) /\ Single(n)' = Single(n)
               /\ Expected(n)' = Expected(n) /\ Existing' = Existing
    BY <1>0 DEF Held, Single, Contents, Expected, Existing
  <2>2. QED
    BY <1>0, <1>1, <2>1 DEF Safe, Kept
<1>5. QED
  BY <1>t, <1>1, <1>3, <1>4 DEF Safe

\* One name of the call is changed, in memory.
LEMMA DoneIsPlanned ==
  ASSUME TypeOK, Plan, NEW n \in Todo, Done(n), row' = row
  PROVE  /\ Plan' /\ Busy /\ Busy' /\ Concerned' = Concerned /\ Left' = Left \ ({n} \ call'.puts)
         /\ n \in Concerned
         /\ \A m \in Names : Wants(m)' = Wants(m)
         /\ n \notin Left' => (IF n \in call.deletes THEN 0 ELSE call.values[n]) = Wants(n)
<1>0. call \in Calls /\ row \in Rows
  BY Records
<1>1. Busy /\ n \in Left
  BY DEF Todo, Plan, Busy, Left
<1>2. /\ call'.pc = call.pc /\ call'.scope = call.scope /\ call'.values = call.values
      /\ call'.names = call.names
      /\ IF n \in call.deletes THEN call'.deletes = call.deletes \ {n} /\ call'.puts = call.puts
         ELSE call'.puts = call.puts \ {n} /\ call'.deletes = call.deletes
  BY <1>0 DEF Done, Calls
<1>3. n \notin call.deletes => call.deletes = {}
  BY DEF Todo
<1>4. Busy' /\ Mutated' = Mutated /\ \A m \in Names : Wants(m)' = Wants(m)
  BY <1>1, <1>2 DEF Busy, Mutated, Dropped, Typed, ScopeChanged, Existing, Wants
<1>5. Plan'
  <2>1. ScopeChanged(call.scope)' = ScopeChanged(call.scope)
        /\ Dropped(call.scope, call.names)' = Dropped(call.scope, call.names)
        /\ Typed(call.values)' = Typed(call.values)
    BY <1>2 DEF ScopeChanged, Dropped, Existing, Typed
  <2>2. CASE call.pc = "save"
    BY <1>2, <1>3, <2>1, <2>2 DEF Plan
  <2>3. CASE call.pc = "delete"
    BY <1>2, <1>3, <2>3 DEF Plan
  <2>4. QED
    BY <1>0, <1>1, <2>2, <2>3 DEF Busy, Calls
<1>6. n \in Mutated
  BY <1>0, <1>1 DEF Plan, Mutated, Left, Busy, Calls
<1>7. ASSUME n \notin Left', n \in call.deletes PROVE Wants(n) = 0
  <2>1. n \notin call.puts
    BY <1>2, <1>7 DEF Left
  <2>2. CASE call.pc = "save"
    <3>1. call.puts = Typed(call.values)
      BY <1>7, <2>2 DEF Plan
    <3>2. n \in Names
      BY <1>0, <1>7 DEF Calls
    <3>3. call.values[n] = 0
      BY <2>1, <3>1, <3>2 DEF Typed
    <3>4. QED
      BY <2>2, <3>3 DEF Wants
  <2>3. QED
    BY <2>2 DEF Wants
<1>8. ASSUME n \notin call.deletes PROVE call.values[n] = Wants(n)
  <2>1. call.pc = "save"
    BY <1>0, <1>1, <1>8 DEF Plan, Left, Busy, Calls
  <2>2. QED
    BY <2>1 DEF Wants
<1>9. Left' = Left \ ({n} \ call'.puts)
  BY <1>2, <1>3 DEF Left
<1>10. QED
  BY <1>1, <1>4, <1>5, <1>6, <1>7, <1>8, <1>9 DEF Concerned

LEMMA MutateIsSafe ==
  ASSUME SettingsConstants, Safe, NEW n \in Names, Mutate(n) PROVE Safe'
<1>0. /\ TypeOK /\ store \in Stores /\ disk \in Maps /\ Contents \in Maps
      /\ store.memory \in Maps /\ n \in Todo /\ Done(n) /\ ~store.flushing
      /\ UNCHANGED <<row, disk, form, entered, torn, made>>
      /\ astray' = IF store'.memory[n] # 0 THEN astray \cup {n} ELSE astray
  BY Records, ContentsAreMaps DEF Safe, Mutate, MutatesIn
<1>t. TypeOK'
  BY StepTypes DEF Next, Safe
<1>1. /\ Plan' /\ Busy /\ Busy' /\ Concerned' = Concerned /\ Left' = Left \ ({n} \ call'.puts)
      /\ n \in Concerned
      /\ \A m \in Names : Wants(m)' = Wants(m)
      /\ n \notin Left' => (IF n \in call.deletes THEN 0 ELSE call.values[n]) = Wants(n)
  BY <1>0, DoneIsPlanned DEF Safe
<1>2. /\ store'.loaded = "yes" /\ store'.flushing /\ store'.file = Changed(Contents, n)
      /\ store'.memory \in {store.memory, Changed(store.memory, n)}
  BY <1>0 DEF Mutate, Stores
<1>3. /\ \A m \in Names : m # n => Changed(Contents, n)[m] = Contents[m]
      /\ Changed(Contents, n)[n] = IF n \in call.deletes THEN 0 ELSE call.values[n]
      /\ \A m \in Names : m # n => Changed(store.memory, n)[m] = store.memory[m]
  BY <1>0 DEF Changed, Maps
<1>4. /\ \A m \in Names : m # n =>
           store'.memory[m] = store.memory[m] /\ Contents'[m] = Contents[m]
      /\ Contents'[n] = IF n \in call.deletes THEN 0 ELSE call.values[n]
  BY <1>2, <1>3 DEF Contents
<1>5. /\ \A m \in Names : m # n => Held(m)' = Held(m) /\ Single(m)' = Single(m)
      /\ n \notin astray' =>
           Single(n)' /\ Held(n)' = IF n \in call.deletes THEN 0 ELSE call.values[n]
  BY <1>0, <1>4 DEF Held, Single
<1>6. Written'
  <2>1. ASSUME NEW m \in Names \ astray, m \notin torn \cup Concerned PROVE disk[m] = Contents[m]
    BY <1>0, <2>1 DEF Contents, Safe, Written
  <2>2. QED
    BY <1>0, <1>1, <1>2, <1>3, <2>1 DEF Written
<1>7. Kept'
  <2>1. \A m : Expected(m)' = Expected(m) /\ Existing' = Existing
    BY <1>0 DEF Expected, Existing
  <2>2. ASSUME NEW m \in Names \ (torn \cup astray' \cup Concerned)
        PROVE  Single(m)' /\ Held(m)' = Expected(m)'
    BY <1>0, <1>1, <1>5, <2>1, <2>2 DEF Safe, Kept
  <2>3. ASSUME NEW m \in (Concerned \ Left') \ astray' PROVE Single(m)' /\ Held(m)' = Wants(m)'
    <3>1. m \in Names
      BY <1>0, MutatedIsNames DEF Concerned
    <3>2. CASE m = n
      BY <1>1, <1>5, <2>3, <3>1, <3>2
    <3>3. CASE m # n
      BY <1>0, <1>1, <1>5, <2>3, <3>1, <3>3 DEF Safe, Kept
    <3>4. QED
      BY <3>2, <3>3
  <2>4. \A m \in Names \ Existing' : entered'[m] = 0
    BY <1>0, <2>1 DEF Safe, Kept
  <2>5. QED
    BY <1>0, <1>1, <2>2, <2>3, <2>4 DEF Kept
<1>8. QED
  BY <1>t, <1>1, <1>6, <1>7 DEF Safe

\* The same where nothing can be encrypted: only the memory changes.
LEMMA MutateMemoryIsSafe ==
  ASSUME SettingsConstants, Safe, NEW n \in Names, MutateMemory(n) PROVE Safe'
<1>0. /\ TypeOK /\ store \in Stores /\ store.memory \in Maps /\ n \in Todo /\ Done(n)
      /\ store' = [store EXCEPT !.memory = Changed(store.memory, n)]
      /\ UNCHANGED <<row, disk, form, entered, torn, made>>
      /\ astray' = IF InFile(n) # 0 THEN astray \cup {n} ELSE astray
  BY Records, ContentsAreMaps DEF Safe, MutateMemory, MutatesIn
<1>t. TypeOK'
  BY StepTypes DEF Next, Safe
<1>1. /\ Plan' /\ Busy /\ Busy' /\ Concerned' = Concerned /\ Left' = Left \ ({n} \ call'.puts)
      /\ n \in Concerned
      /\ \A m \in Names : Wants(m)' = Wants(m)
      /\ n \notin Left' => (IF n \in call.deletes THEN 0 ELSE call.values[n]) = Wants(n)
  BY <1>0, DoneIsPlanned DEF Safe
<1>2. /\ store'.loaded = store.loaded /\ store'.flushing = store.flushing
      /\ store'.file = store.file /\ store'.memory = Changed(store.memory, n)
      /\ Contents' = Contents
  BY <1>0 DEF Stores, Contents
<1>3. /\ \A m \in Names : m # n => Changed(store.memory, n)[m] = store.memory[m]
      /\ Changed(store.memory, n)[n] = IF n \in call.deletes THEN 0 ELSE call.values[n]
  BY <1>0 DEF Changed, Maps
<1>4. n \notin astray' => disk[n] = 0 /\ Contents[n] = 0
  BY <1>0 DEF InFile
<1>5. /\ \A m \in Names : m # n => Held(m)' = Held(m) /\ Single(m)' = Single(m)
      /\ n \notin astray' =>
           Single(n)' /\ Held(n)' = IF n \in call.deletes THEN 0 ELSE call.values[n]
  BY <1>0, <1>2, <1>3, <1>4 DEF Held, Single
<1>6. Written'
  <2>1. ASSUME n \notin astray', store.loaded = "yes" PROVE disk[n] = store.file[n]
    BY <1>4, <2>1 DEF Contents
  <2>2. QED
    BY <1>0, <1>1, <1>2, <2>1 DEF Safe, Written
<1>7. Kept'
  <2>1. \A m : Expected(m)' = Expected(m) /\ Existing' = Existing
    BY <1>0 DEF Expected, Existing
  <2>2. ASSUME NEW m \in Names \ (torn \cup astray' \cup Concerned)
        PROVE  Single(m)' /\ Held(m)' = Expected(m)'
    BY <1>0, <1>1, <1>5, <2>1, <2>2 DEF Safe, Kept
  <2>3. ASSUME NEW m \in (Concerned \ Left') \ astray' PROVE Single(m)' /\ Held(m)' = Wants(m)'
    <3>1. m \in Names
      BY <1>0, MutatedIsNames DEF Concerned
    <3>2. CASE m = n
      BY <1>1, <1>5, <2>3, <3>1, <3>2
    <3>3. CASE m # n
      BY <1>0, <1>1, <1>5, <2>3, <3>1, <3>3 DEF Safe, Kept
    <3>4. QED
      BY <3>2, <3>3
  <2>4. \A m \in Names \ Existing' : entered'[m] = 0
    BY <1>0, <2>1 DEF Safe, Kept
  <2>5. QED
    BY <1>0, <1>1, <2>2, <2>3, <2>4 DEF Kept
<1>8. QED
  BY <1>t, <1>1, <1>6, <1>7 DEF Safe

\* The file catches up with the memory.
LEMMA FlushedIsSafe == ASSUME SettingsConstants, Safe, Flushed PROVE Safe'
<1>0. /\ store \in Stores /\ store.flushing /\ store.loaded = "yes" /\ disk' = store.file
      /\ store' = [store EXCEPT !.flushing = FALSE]
      /\ UNCHANGED <<row, call, form, entered, torn, astray, made>>
  BY Records DEF Safe, Flushed, Written
<1>1. /\ store'.loaded = store.loaded /\ ~store'.flushing /\ store'.file = store.file
      /\ store'.memory = store.memory /\ Contents' = Contents /\ Contents = store.file
  BY <1>0 DEF Stores, Contents
<1>t. TypeOK'
  BY StepTypes DEF Safe, Next
<1>2. /\ Plan' /\ Concerned' = Concerned /\ Left' = Left /\ Existing' = Existing
      /\ \A m \in Names : Wants(m)' = Wants(m) /\ Expected(m)' = Expected(m)
  BY <1>0 DEF Safe, Plan, Left, ScopeChanged, Typed, Dropped, Existing, Busy,
     Concerned, Mutated, Expected, Wants
<1>3. \A m \in Names : Held(m)' = Held(m) /\ (Single(m) => Single(m)')
  BY <1>0, <1>1 DEF Held, Single
<1>4. Written'
  BY <1>0, <1>1 DEF Written
<1>5. Concerned \subseteq Names
  BY MutatedIsNames DEF Concerned, Safe
<1>6. Kept'
  BY <1>0, <1>2, <1>3, <1>5 DEF Safe, Kept
<1>7. QED
  BY <1>t, <1>2, <1>4, <1>6 DEF Safe

\* A rejected call leaves its names torn, those included that are still deleted after it.
LEMMA FailureIsSafe ==
  ASSUME SettingsConstants, Safe, LoadFails \/ FlushFails \/ (~store.flushing /\ RowFails)
  PROVE  Safe'
<1>0. /\ store \in Stores /\ call' = NoCall /\ torn' = torn \cup Mutated
      /\ UNCHANGED <<row, form, entered, astray>>
      /\ store.file \in Maps /\ store.memory \in Maps /\ disk \in Maps
  BY Records DEF Safe, LoadFails, FlushFails, RowFails, CallFails, Stores
<1>1. Rest \subseteq Mutated
  BY DEF Rest, Mutated, Safe, Plan
<1>2. Without(store.file, Rest) \in Maps /\ Without(store.memory, Rest) \in Maps
  BY <1>0, WithoutIsMap
<1>3. \A m \in Names \ torn' : \A map : \A names \in SUBSET Rest :
        Without(map, names)[m] = map[m]
  BY <1>0, <1>1 DEF Without
<1>4. /\ ~store'.flushing
      /\ store'.loaded = "yes" => store.loaded = "yes"
      /\ \A m \in Names \ torn' :
           /\ store'.memory[m] = store.memory[m] /\ Contents'[m] = Contents[m]
           /\ store'.file[m] = store.file[m] /\ disk'[m] \in {disk[m], Contents[m]}
  <2>1. CASE FlushFails
    <3>1. store' = [store EXCEPT !.flushing = FALSE, !.file = Without(store.file, Rest),
                                 !.memory = Without(store.memory, Rest)]
          /\ store.loaded = "yes"
      BY <2>1 DEF FlushFails, Safe, Written
    <3>2. /\ ~store'.flushing /\ store'.loaded = "yes"
          /\ store'.file = Without(store.file, Rest)
          /\ store'.memory = Without(store.memory, Rest)
      BY <1>0, <3>1 DEF Stores
    <3>3. \A m \in Names \ torn' : disk'[m] \in {disk[m], store.file[m]}
      BY <1>3, <2>1 DEF FlushFails
    <3>4. QED
      BY <1>3, <3>1, <3>2, <3>3 DEF Contents
  <2>2. CASE LoadFails
    <3>1. /\ store' = [store EXCEPT !.loaded = "failed", !.memory = Without(store.memory, Rest)]
          /\ ~store.flushing /\ store.loaded # "yes" /\ disk' = disk
      BY <2>2 DEF LoadFails
    <3>2. /\ ~store'.flushing /\ store'.loaded = "failed" /\ store'.file = store.file
          /\ store'.memory = Without(store.memory, Rest)
      BY <1>0, <3>1 DEF Stores
    <3>3. QED
      BY <1>3, <3>1, <3>2 DEF Contents
  <2>3. CASE ~store.flushing /\ RowFails
    BY <2>3 DEF RowFails, Contents
  <2>4. QED
    BY <2>1, <2>2, <2>3
<1>t. TypeOK'
  BY StepTypes DEF Safe, Next
<1>5. Plan' /\ ~Busy' /\ Concerned' = {} /\ Left' = {}
  BY <1>0 DEF NoCall, Plan, Busy, Concerned, Left
<1>6. torn \cup Concerned \subseteq torn'
  BY <1>0 DEF Concerned
<1>7. \A m : Expected(m)' = Expected(m) /\ Existing' = Existing
  BY <1>0 DEF Expected, Existing
<1>8. \A m \in Names \ torn' : Held(m)' = Held(m) /\ (Single(m) => Single(m)')
  BY <1>4 DEF Held, Single
<1>9. Written'
  <2>1. ASSUME NEW m \in Names \ astray, m \notin torn', store.loaded = "yes"
        PROVE  disk[m] = store.file[m] /\ Contents[m] = store.file[m]
    BY <1>6, <2>1 DEF Safe, Written, Contents
  <2>2. QED
    BY <1>0, <1>4, <1>5, <2>1 DEF Written
<1>10. Kept'
  <2>1. ASSUME NEW m \in Names \ (torn' \cup astray) PROVE Single(m)' /\ Held(m)' = Expected(m)'
    BY <1>6, <1>7, <1>8, <2>1 DEF Safe, Kept
  <2>2. \A m \in Names \ Existing' : entered'[m] = 0
    BY <1>0, <1>7 DEF Safe, Kept
  <2>3. QED
    BY <1>0, <1>5, <2>1, <2>2 DEF Kept
<1>11. QED
  BY <1>t, <1>5, <1>9, <1>10 DEF Safe

\* What is stored does not depend on whether it can be decrypted.
LEMMA EncryptionIsSafe == ASSUME SettingsConstants, Safe, EncryptionChanges PROVE Safe'
<1>1. store \in Stores /\ UNCHANGED <<row, disk, call, entered, torn, astray>>
      /\ store' = [store EXCEPT !.persistent = ~@]
  BY Records DEF Safe, EncryptionChanges
<1>2. UNCHANGED <<store.loaded, store.file, store.memory, store.flushing>>
  BY <1>1 DEF Stores
<1>3. TypeOK'
  BY StepTypes DEF Safe, Next
<1>4. QED
  BY <1>1, <1>2, <1>3, UntouchedIsSafe

\* A process that starts again reads the file, which has every name but the torn ones and
\* those that were only in memory.
LEMMA RestartIsSafe == ASSUME SettingsConstants, Safe, Restart PROVE Safe'
<1>0. /\ call' = NoCall /\ torn' = IF Busy THEN torn \cup Mutated ELSE torn
      /\ UNCHANGED <<row, disk, astray>>
      /\ \A m \in Names : entered'[m] = IF store.memory[m] # 0 THEN 0 ELSE entered[m]
  BY DEF Restart
<1>1. ~store'.flushing /\ store'.memory = Empty /\ store'.loaded = "no"
  BY DEF Restart
<1>t. TypeOK'
  BY StepTypes DEF Safe, Next
<1>2. Plan' /\ ~Busy' /\ Concerned' = {} /\ Left' = {}
  BY <1>0 DEF NoCall, Plan, Busy, Concerned, Left
<1>3. torn' = torn \cup Concerned
  BY <1>0 DEF Concerned
<1>4. Existing' = Existing
  BY <1>0 DEF Existing
<1>5. Written'
  BY <1>1 DEF Written
<1>6. ASSUME NEW m \in Names PROVE Single(m)' /\ Held(m)' = disk[m]
  BY <1>0, <1>1 DEF Single, Held, Contents, Empty
<1>7. ASSUME NEW m \in Names \ (torn' \cup astray) PROVE disk[m] = Expected(m)'
  <2>1. Single(m) /\ Held(m) = Expected(m)
    BY <1>3, <1>7 DEF Safe, Kept
  <2>2. disk[m] = Contents[m]
    BY <1>3, <1>7 DEF Safe, Written, Contents
  <2>3. CASE store.memory[m] # 0
    BY <1>0, <1>4, <2>1, <2>3 DEF Single, Expected
  <2>4. CASE store.memory[m] = 0
    BY <1>0, <1>4, <2>1, <2>2, <2>4 DEF Held, Expected
  <2>5. QED
    BY <2>3, <2>4
<1>8. Kept'
  <2>1. ASSUME NEW m \in Names \ Existing' PROVE entered'[m] = 0
    BY <1>0, <1>4 DEF Safe, Kept
  <2>2. QED
    BY <1>0, <1>2, <1>6, <1>7, <2>1 DEF Kept
<1>9. QED
  BY <1>t, <1>2, <1>5, <1>8 DEF Safe

\* A call comes to its end: each of its names is as the user wants it.
LEMMA RowSavedIsSafe ==
  ASSUME SettingsConstants, Safe, ~store.flushing, RowSaved PROVE Safe'
<1>0. /\ row \in Rows /\ call \in Calls /\ call.pc = "save" /\ Todo = {} /\ Remembers
      /\ row' = [exists |-> TRUE, scope |-> call.scope, refs |-> call.names]
      /\ torn' = torn \ Mutated /\ call' = [NoCall EXCEPT !.scope = row'.scope]
      /\ UNCHANGED <<disk, store, astray>>
  BY Records DEF Safe, RowSaved
<1>t. TypeOK'
  BY StepTypes DEF Safe, Next
<1>1. Busy /\ Left = {} /\ Concerned = Mutated /\ Existing' = call.names
  BY <1>0 DEF Busy, Left, Todo, Concerned, Existing
<1>2. Plan' /\ ~Busy' /\ Concerned' = {} /\ Left' = {}
  BY <1>0 DEF NoCall, Plan, Busy, Concerned, Left
<1>3. \A m \in Names :
        entered'[m] = IF call.values[m] # 0 THEN call.values[m]
                      ELSE IF m \in call.names /\ row.scope = call.scope THEN entered[m] ELSE 0
  BY <1>0 DEF Remembers
<1>4. /\ Typed(call.values) \subseteq call.names
      /\ ScopeChanged(call.scope) => call.names = Typed(call.values)
  BY <1>0 DEF Safe, Plan
<1>5. Mutated = Dropped(call.scope, call.names) \cup Typed(call.values)
  BY <1>0 DEF Mutated
<1>6. Written'
  <2>1. ASSUME NEW m \in Names \ astray, m \notin torn', store.loaded = "yes"
        PROVE  disk[m] = store.file[m]
    BY <1>0, <1>1, <2>1 DEF Safe, Written
  <2>2. QED
    BY <1>0, <1>2, <2>1 DEF Written
<1>7. \A m \in Names : Held(m)' = Held(m) /\ Single(m)' = Single(m)
  BY <1>0 DEF Held, Single, Contents
<1>8. ASSUME NEW m \in Names, m \notin Existing' PROVE entered'[m] = 0
  <2>1. call.values[m] = 0
    BY <1>1, <1>4, <1>8 DEF Typed
  <2>2. QED
    BY <1>1, <1>3, <1>8, <2>1
<1>9. ASSUME NEW m \in Names, m \notin torn' \cup astray
      PROVE  Single(m)' /\ Held(m)' = Expected(m)'
  <2>1. CASE m \in Typed(call.values)
    <3>1. Single(m) /\ Held(m) = call.values[m] /\ call.values[m] # 0
      BY <1>0, <1>1, <1>5, <1>9, <2>1 DEF Safe, Kept, Wants, Typed
    <3>2. m \in Existing' /\ entered'[m] = call.values[m]
      BY <1>1, <1>3, <1>4, <2>1, <3>1
    <3>3. QED
      BY <1>7, <3>1, <3>2 DEF Expected
  <2>2. CASE m \in Mutated /\ m \notin Typed(call.values)
    <3>1. call.values[m] = 0 /\ m \in Dropped(call.scope, call.names)
      BY <1>5, <2>2 DEF Typed
    <3>2. Single(m) /\ Held(m) = 0
      BY <1>0, <1>1, <1>9, <2>2, <3>1 DEF Safe, Kept, Wants
    <3>3. m \notin Existing'
      BY <1>1, <1>4, <2>2, <3>1 DEF Dropped
    <3>4. QED
      BY <1>7, <3>2, <3>3 DEF Expected
  <2>3. CASE m \notin Mutated
    <3>1. call.values[m] = 0 /\ m \notin Dropped(call.scope, call.names)
      BY <1>5, <2>3 DEF Typed
    <3>2. Single(m) /\ Held(m) = Expected(m)
      BY <1>0, <1>1, <1>9, <2>3 DEF Safe, Kept
    <3>3. CASE m \in Existing
      <4>1. ~ScopeChanged(call.scope) /\ m \in call.names /\ row.exists
        BY <3>1, <3>3 DEF Dropped, Existing
      <4>2. row.scope = call.scope
        BY <4>1 DEF ScopeChanged
      <4>3. QED
        BY <1>1, <1>3, <1>7, <3>1, <3>2, <3>3, <4>1, <4>2 DEF Expected
    <3>4. CASE m \notin Existing
      <4>1. Held(m) = 0 /\ entered[m] = 0
        BY <3>2, <3>4 DEF Expected, Safe, Kept
      <4>2. entered'[m] = 0
        BY <1>3, <3>1, <4>1
      <4>3. QED
        BY <1>7, <3>2, <4>1, <4>2 DEF Expected
    <3>5. QED
      BY <3>3, <3>4
  <2>4. QED
    BY <2>1, <2>2, <2>3
<1>10. Kept'
  BY <1>0, <1>2, <1>8, <1>9 DEF Kept
<1>11. QED
  BY <1>t, <1>2, <1>6, <1>10 DEF Safe

LEMMA RowDeletedIsSafe ==
  ASSUME SettingsConstants, Safe, ~store.flushing, RowDeleted PROVE Safe'
<1>0. /\ row \in Rows /\ call \in Calls /\ call.pc = "delete" /\ Todo = {}
      /\ row' = [row EXCEPT !.exists = FALSE, !.refs = {}]
      /\ entered' = Empty /\ torn' = torn \ Mutated /\ call' = NoCall
      /\ UNCHANGED <<disk, store, astray>>
  BY Records DEF Safe, RowDeleted
<1>t. TypeOK'
  BY StepTypes DEF Safe, Next
<1>1. Busy /\ Left = {} /\ Concerned = Mutated /\ Mutated = Existing /\ Existing' = {}
  <2>1. row.exists
    BY <1>0 DEF Safe, Plan
  <2>2. row'.exists = FALSE
    BY <1>0 DEF Rows
  <2>3. QED
    BY <1>0, <2>1, <2>2 DEF Busy, Left, Todo, Concerned, Mutated, Existing
<1>2. Plan' /\ ~Busy' /\ Concerned' = {} /\ Left' = {}
  BY <1>0 DEF NoCall, Plan, Busy, Concerned, Left
<1>3. Written'
  <2>1. ASSUME NEW m \in Names \ astray, m \notin torn', store.loaded = "yes"
        PROVE  disk[m] = store.file[m]
    BY <1>0, <1>1, <2>1 DEF Safe, Written
  <2>2. QED
    BY <1>0, <1>2, <2>1 DEF Written
<1>4. \A m \in Names : Held(m)' = Held(m) /\ Single(m)' = Single(m)
  BY <1>0 DEF Held, Single, Contents
<1>5. ASSUME NEW m \in Names \ (torn' \cup astray) PROVE Single(m)' /\ Held(m)' = 0
  <2>1. CASE m \in Mutated
    BY <1>0, <1>1, <1>4, <1>5, <2>1 DEF Safe, Kept, Wants
  <2>2. CASE m \notin Mutated
    <3>1. Single(m) /\ Held(m) = Expected(m) /\ Expected(m) = 0
      BY <1>0, <1>1, <1>5, <2>2 DEF Safe, Kept, Expected
    <3>2. QED
      BY <1>4, <3>1
  <2>3. QED
    BY <2>1, <2>2
<1>6. Kept'
  BY <1>0, <1>1, <1>2, <1>5 DEF Kept, Expected, Empty
<1>7. QED
  BY <1>t, <1>2, <1>3, <1>6 DEF Safe

LEMMA NextIsSafe == ASSUME SettingsConstants, Safe, [Next]_vars PROVE Safe'
<1>1. CASE UNCHANGED vars
  BY <1>1, UntouchedIsSafe DEF vars, Safe, TypeOK
<1>2. CASE Editing
  <2>1. TypeOK' /\ UNCHANGED <<row, disk, store, call, entered, torn, astray>>
    BY <1>2, EditingTypes, EditingEdits DEF Safe
  <2>2. QED
    BY <2>1, UntouchedIsSafe
<1>3. CASE Next /\ ~Editing
  <2>1. \/ Save \/ Delete
        \/ ~store.flushing /\ (RowSaved \/ RowDeleted)
        \/ \E n \in Names : Mutate(n) \/ MutateMemory(n)
        \/ LoadFails \/ Flushed \/ FlushFails \/ (~store.flushing /\ RowFails)
        \/ EncryptionChanges \/ Restart
    BY <1>3 DEF Next, Editing
  <2>2. QED
    BY <2>1, BeginningIsSafe, RowSavedIsSafe, RowDeletedIsSafe, MutateIsSafe,
       MutateMemoryIsSafe, FailureIsSafe, FlushedIsSafe, EncryptionIsSafe,
       RestartIsSafe
<1>4. QED
  BY <1>1, <1>2, <1>3

\* The invariant of the component.
THEOREM AlwaysSafe == ASSUME SettingsConstants PROVE Spec => []Safe
<1>1. Init => Safe
  BY InitIsSafe
<1>2. Safe /\ [Next]_vars => Safe'
  BY NextIsSafe
<1>3. QED
  BY <1>1, <1>2, PTL DEF Spec

\* It says that what is stored is what was entered.
LEMMA SafeIsEntered == ASSUME Safe PROVE StoredIsEntered
<1>1. ASSUME ~Busy, NEW n \in Names \ (torn \cup astray), Persistent \/ InFile(n) = 0
      PROVE  Resolve(n) = Expected(n)
  <2>1. Held(n) = Expected(n)
    BY <1>1 DEF Safe, Kept, Concerned
  <2>2. Persistent \/ Contents[n] = 0
    BY <1>1 DEF InFile
  <2>3. QED
    BY <2>1, <2>2 DEF Resolve, Held
<1>2. QED
  BY <1>1 DEF StoredIsEntered, Expected

=============================================================================
