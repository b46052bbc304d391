-------------------------- MODULE ProviderSettings --------------------------
(***************************************************************************)
(* A provider profile and its credentials: the form of the settings        *)
(* dialog, ProviderProfileService, which brings the secrets in line with   *)
(* the profile one mutation at a time before it saves the row, and         *)
(* SecretStore, which keeps them in a file that is read once, changed in   *)
(* memory and written as a whole, or only in memory while the desktop      *)
(* cannot encrypt.  A credential is abstracted to the edit that typed it;  *)
(* kind and endpoint of a profile are its scope.                           *)
(***************************************************************************)
EXTENDS Naturals

CONSTANTS
  Scopes,    \* kinds and endpoint origins
  Keyless,   \* those of the managed service, which takes no credentials
  Names,     \* names of credentials
  ApiKey,    \* the name that a new form offers
  MaxTyped,  \* bound: values typed
  MaxCalls,  \* bound: saves and deletes
  MaxFaults  \* bound: failing operations, process ends, changes of the encryption

VARIABLES
  row,     \* the profile in the database: its scope and the names in secretRefs
  disk,    \* secrets.json
  store,   \* SecretStore: whether it can encrypt now, whether the file was loaded, its
           \* contents, and the volatile map
  call,    \* the save or delete that runs
  form,    \* the dialog: scope, rows of the credential editor and the values typed
  entered, \* history: what the user last stored under each name for this scope
  torn,    \* history: names whose mutation was interrupted, until one came to its end
  astray,  \* history: names that were changed where they were while the other place, the
           \* file or the volatile map, had a value of them too
  made     \* values typed, calls and faults made

vars == <<row, disk, store, call, form, entered, torn, astray, made>>

Values == 0..MaxTyped   \* 0 is no value
Empty == [n \in Names |-> 0]
Persistent == store.persistent
NoCall == [pc |-> "none", scope |-> row.scope, deletes |-> {}, puts |-> {},
           values |-> Empty, names |-> {}]

TypeOK ==
  /\ row \in [exists : BOOLEAN, scope : Scopes, refs : SUBSET Names]
  /\ disk \in [Names -> Values]
  /\ store \in [persistent : BOOLEAN, loaded : {"no", "yes", "failed"},
                file : [Names -> Values], memory : [Names -> Values], flushing : BOOLEAN]
  /\ call \in [pc : {"none", "save", "delete"}, scope : Scopes, deletes : SUBSET Names,
               puts : SUBSET Names, values : [Names -> Values], names : SUBSET Names]
  /\ form \in [scope : Scopes, names : SUBSET Names, values : [Names -> Values]]
  /\ entered \in [Names -> Values]
  /\ torn \subseteq Names /\ astray \subseteq Names
  /\ made \in [typed : 0..MaxTyped, calls : 0..MaxCalls, faults : 0..MaxFaults]

Fault == made.faults < MaxFaults /\ made' = [made EXCEPT !.faults = @ + 1]

----------------------------------------------------------------------------
(* The dialog.                                                             *)

Busy == call.pc # "none"

\* newProviderForm(): some kinds offer a field for the key.
NewForms(scope) ==
  [scope : {scope}, values : {Empty},
   names : IF scope \in Keyless THEN {{}} ELSE {{}, {ApiKey}}]

\* profileToForm(): the names are shown, the values stay in the main process.
FormsOf(profile) ==
  IF profile.refs = {} THEN NewForms(profile.scope)
  ELSE {[scope |-> profile.scope, names |-> profile.refs, values |-> Empty]}

Edits(f) == form' = f /\ UNCHANGED <<row, disk, store, call, entered, torn, astray>>

\* Another kind resets the fields, another endpoint of the same kind keeps them.
ChangeScope(scope) ==
  /\ scope # form.scope /\ UNCHANGED made
  /\ \/ \E f \in NewForms(scope) : Edits(f)
     \/ {scope, form.scope} \cap Keyless = {} /\ Edits([form EXCEPT !.scope = scope])

AddField(n) ==
  /\ n \notin form.names /\ UNCHANGED made
  /\ Edits([form EXCEPT !.names = @ \cup {n}])

RemoveField(n) ==
  /\ n \in form.names /\ UNCHANGED made
  /\ Edits([form EXCEPT !.names = @ \ {n}, !.values[n] = 0])

TypeValue(n) ==
  /\ n \in form.names /\ made.typed < MaxTyped
  /\ made' = [made EXCEPT !.typed = @ + 1]
  /\ Edits([form EXCEPT !.values[n] = made.typed + 1])

\* The profile is selected again, or the list of profiles changed under the form.
Reload ==
  /\ row.exists /\ UNCHANGED made
  /\ \E f \in FormsOf(row) : Edits(f)

----------------------------------------------------------------------------
(* ProviderProfileService.                                                 *)

\* A variant with a bug: credentials follow the profile to another endpoint.
ScopeChangedNever(scope) == FALSE

ScopeChanged(scope) == row.exists /\ row.scope # scope

Typed(values) == {n \in Names : values[n] # 0}

\* formToProfile(): the fields of the form, as names of references.
Sent(f) == IF f.scope \in Keyless THEN {} ELSE f.names

\* validate(): the managed service accepts no credentials.
Accepted(f) == f.scope \in Keyless => Typed(f.values) = {}

\* desiredSecretNames: what was typed, and what the form still lists in the same scope.
Desired(f) == Typed(f.values) \cup (IF ScopeChanged(f.scope) THEN {} ELSE Sent(f))

Existing == IF row.exists THEN row.refs ELSE {}

\* The references that a save of these names deletes.
Dropped(scope, names) == IF ScopeChanged(scope) THEN Existing ELSE Existing \ names

Mutated == IF call.pc = "delete" THEN row.refs
           ELSE Dropped(call.scope, call.names) \cup Typed(call.values)

\* save(): the references that are no longer wanted are deleted first, then what was
\* typed is stored.
Save ==
  /\ ~Busy /\ made.calls < MaxCalls /\ Accepted(form)
  /\ made' = [made EXCEPT !.calls = @ + 1]
  /\ call' = [pc |-> "save", scope |-> form.scope, names |-> Desired(form),
              values |-> form.values, puts |-> Typed(form.values),
              deletes |-> Dropped(form.scope, Desired(form))]
  /\ UNCHANGED <<row, disk, store, form, entered, torn, astray>>

\* remove(), if nothing uses the profile.
Delete ==
  /\ ~Busy /\ row.exists /\ made.calls < MaxCalls
  /\ made' = [made EXCEPT !.calls = @ + 1]
  /\ call' = [NoCall EXCEPT !.pc = "delete", !.deletes = row.refs]
  /\ UNCHANGED <<row, disk, store, form, entered, torn, astray>>

\* The names of the mutations to make now.
Todo == IF call.deletes # {} THEN call.deletes ELSE call.puts
Changed(map, n) == [map EXCEPT ![n] = IF n \in call.deletes THEN 0 ELSE call.values[n]]
Done(n) ==
  call' = IF n \in call.deletes THEN [call EXCEPT !.deletes = @ \ {n}]
          ELSE [call EXCEPT !.puts = @ \ {n}]

\* The call is rejected: the row stays as it is, and so does what was already mutated.
CallFails ==
  /\ call' = NoCall /\ torn' = torn \cup Mutated
  /\ UNCHANGED <<row, form, entered, astray>>

\* History: what was typed, and what was kept for the same kind and endpoint.
Remembers ==
  entered' = [n \in Names |->
                IF call.values[n] # 0 THEN call.values[n]
                ELSE IF n \in call.names /\ row.scope = call.scope THEN entered[n]
                ELSE 0]

\* A variant with a bug: a name that was left blank loses its value.
RowSavedBlank ==
  /\ call.pc = "save" /\ Todo = {}
  /\ row' = [exists |-> TRUE, scope |-> call.scope, refs |-> Typed(call.values)]
  /\ Remembers
  /\ form' \in FormsOf(row')
  /\ torn' = torn \ Mutated
  /\ call' = [NoCall EXCEPT !.scope = row'.scope]
  /\ UNCHANGED <<disk, store, astray, made>>

\* The row is written, and the dialog shows what was saved.
RowSaved ==
  /\ call.pc = "save" /\ Todo = {}
  /\ row' = [exists |-> TRUE, scope |-> call.scope, refs |-> call.names]
  /\ Remembers
  /\ form' \in FormsOf(row')
  /\ torn' = torn \ Mutated
  /\ call' = [NoCall EXCEPT !.scope = row'.scope]
  /\ UNCHANGED <<disk, store, astray, made>>

RowDeleted ==
  /\ call.pc = "delete" /\ Todo = {}
  /\ row' = [row EXCEPT !.exists = FALSE, !.refs = {}]
  /\ entered' = Empty /\ torn' = torn \ Mutated /\ call' = NoCall
  /\ form' \in NewForms(row.scope)
  /\ UNCHANGED <<disk, store, astray, made>>

\* The row cannot be written.
RowFails ==
  /\ Busy /\ Todo = {} /\ Fault
  /\ CallFails
  /\ UNCHANGED <<disk, store>>

----------------------------------------------------------------------------
(* SecretStore.                                                            *)

\* load(): the promise of the first reading is kept, also when it was rejected.
Contents == IF store.loaded = "yes" THEN store.file ELSE disk

\* A mutation, and whether the other place has a value: delete() empties the volatile map
\* in any case, put() does not.
MutatesIn(n, other) ==
  /\ Done(n)
  /\ astray' = IF other # 0 THEN astray \cup {n} ELSE astray
  /\ UNCHANGED <<row, disk, form, entered, torn, made>>

Mutate(n) ==
  /\ n \in Todo /\ Persistent /\ ~store.flushing /\ store.loaded # "failed"
  /\ store' = [store EXCEPT !.loaded = "yes", !.flushing = TRUE,
                            !.file = Changed(Contents, n),
                            !.memory = IF n \in call.deletes THEN Changed(@, n) ELSE @]
  /\ MutatesIn(n, store'.memory[n])

\* Where nothing can be encrypted the file is left alone, also by a delete().
InFile(n) == IF disk[n] # 0 THEN disk[n] ELSE Contents[n]

MutateMemory(n) ==
  /\ n \in Todo /\ ~Persistent /\ ~store.flushing
  /\ store' = [store EXCEPT !.memory = Changed(@, n)]
  /\ MutatesIn(n, InFile(n))

\* The remaining deletions of a delete() are begun together: when one of them fails, the
\* others go on.
Rest == IF call.pc = "delete" THEN call.deletes ELSE {}
Without(map, names) == [n \in Names |-> IF n \in names THEN 0 ELSE map[n]]

\* The file cannot be read: not now, and because of that not later.
LoadFails ==
  /\ Todo # {} /\ Persistent /\ ~store.flushing
  /\ \/ store.loaded = "failed" /\ UNCHANGED made
     \/ store.loaded = "no" /\ Fault
  /\ store' = [store EXCEPT !.loaded = "failed", !.memory = Without(@, Rest)]
  /\ CallFails
  /\ UNCHANGED disk

\* flush(): a temporary file is written and renamed.
Flushed ==
  /\ store.flushing
  /\ disk' = store.file
  /\ store' = [store EXCEPT !.flushing = FALSE]
  /\ UNCHANGED <<row, call, form, entered, torn, astray, made>>

\* It cannot be written; the map in memory keeps the change.
FlushFails ==
  /\ store.flushing /\ Fault
  /\ store' = [store EXCEPT !.flushing = FALSE, !.file = Without(@, Rest),
                            !.memory = Without(@, Rest)]
  /\ disk' \in {disk} \cup {Without(store.file, names) : names \in (SUBSET Rest) \ {{}}}
  /\ CallFails

\* get(): what a provider is called with.
Resolve(n) ==
  CASE store.memory[n] # 0 -> store.memory[n]
    [] store.memory[n] = 0 /\ Persistent -> Contents[n]
    [] OTHER -> 0

\* Whether anything can be encrypted is asked at every call, and may change: the keyring
\* of the desktop is unlocked, or another one is found.
EncryptionChanges ==
  /\ Fault
  /\ store' = [store EXCEPT !.persistent = ~@]
  /\ UNCHANGED <<row, disk, call, form, entered, torn, astray>>

\* The process ends and the application starts again, maybe with another keyring.
Restart ==
  /\ Fault
  /\ store' \in [persistent : BOOLEAN, loaded : {"no"}, file : {Empty}, memory : {Empty},
                  flushing : {FALSE}]
  /\ entered' = [n \in Names |-> IF store.memory[n] # 0 THEN 0 ELSE entered[n]]
  /\ torn' = IF Busy THEN torn \cup Mutated ELSE torn
  /\ call' = NoCall
  /\ form' \in FormsOf(row)
  /\ UNCHANGED <<row, disk, astray>>

----------------------------------------------------------------------------

Init ==
  /\ row = [exists |-> FALSE, scope |-> CHOOSE s \in Scopes \ Keyless : TRUE, refs |-> {}]
  /\ disk = Empty
  /\ store \in [persistent : BOOLEAN, loaded : {"no"}, file : {Empty}, memory : {Empty},
                flushing : {FALSE}]
  /\ form \in NewForms(row.scope)
  /\ call = NoCall
  /\ entered = Empty /\ torn = {} /\ astray = {}
  /\ made = [typed |-> 0, calls |-> 0, faults |-> 0]

Next ==
  \/ \E scope \in Scopes : ChangeScope(scope)
  \/ \E n \in Names : AddField(n) \/ RemoveField(n) \/ TypeValue(n)
  \/ Reload
  \/ Save \/ Delete
  \/ ~store.flushing /\ (RowSaved \/ RowDeleted)
  \/ \E n \in Names : Mutate(n) \/ MutateMemory(n)
  \/ LoadFails \/ Flushed \/ FlushFails \/ (~store.flushing /\ RowFails)
  \/ EncryptionChanges \/ Restart

Spec == Init /\ [][Next]_vars

----------------------------------------------------------------------------
(* Properties.                                                             *)

\* "Existing values stay stored when left blank": under the names that the profile lists
\* a provider is called with what the user last stored for this kind and endpoint, and
\* under other names with nothing.  The exceptions: a call that changed the name was
\* interrupted, the file is unreadable, its value cannot be decrypted now, or was hidden
\* or left behind by a change that was made while it could not (or could again).
StoredIsEntered ==
  ~Busy /\ store.loaded # "failed" =>
    \A n \in Names \ (torn \cup astray) :
      Persistent \/ InFile(n) = 0 =>
        Resolve(n) = IF n \in Existing THEN entered[n] ELSE 0
=============================================================================
