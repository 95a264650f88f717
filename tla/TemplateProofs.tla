----------------------------- MODULE TemplateProofs -----------------------------
(***************************************************************************)
(* The template store for any number of templates, texts and requests.     *)
(***************************************************************************)
EXTENDS Templates, TLAPS

\* A template that Render can use: what Validate asks, and with the content the
\* variables of that content.
Sound(t) ==
    /\ t.content # Empty
    /\ t.channel = "email" => t.subject # Empty
    /\ t.variables = ExtractVariables(t.content)

(***************************************************************************)
(* StoredIsValid is not inductive: what is stored next is what an editor   *)
(* holds, which was made from a row that may have changed since.           *)
(***************************************************************************)
EditorsAreSound ==
    \A e \in Editors :
        editor[e] # IdleEditor => /\ editor[e].id \in IDs
                                  /\ editor[e].template.exists
                                  /\ Sound(editor[e].template)

LEMMA ExtractedAreVariables ==
    ASSUME NEW text \in Texts \cup {Empty}
    PROVE  ExtractVariables(text) \in SUBSET Variables
  BY DEF ExtractVariables, Variables

LEMMA PatchedIsTemplate ==
    ASSUME NEW old \in Template, NEW patch \in Patch, Validate(Patched(old, patch))
    PROVE  Patched(old, patch) \in Template
<1>1. patch.content # Keep => ExtractVariables(patch.content) \in SUBSET Variables
  BY ExtractedAreVariables DEF Patch
<1>2. /\ Given(patch.channel, old.channel) \in Channels
      /\ Given(patch.subject, old.subject) \in Texts \cup {Empty}
      /\ Given(patch.content, old.content) \in Texts \cup {Empty}
  BY DEF Patch, Given, Template, Validate, Patched
<1> QED
  BY <1>1, <1>2 DEF Patched, Template

\* A patch of a sound template that passes the validation is sound.
LEMMA PatchedIsSound ==
    ASSUME NEW old \in Template, Sound(old), NEW patch \in Patch, Validate(Patched(old, patch))
    PROVE  Sound(Patched(old, patch))
  BY DEF Sound, Validate, Patched, Given

--------------------------------------------------------------------------------
LEMMA TemplateTypeStep == TypeOK /\ [Next]_vars => TypeOK'
<1> SUFFICES ASSUME TypeOK, [Next]_vars PROVE TypeOK'
  OBVIOUS
<1> USE DEF TypeOK
<1>0. NoTemplate \in Template /\ IdleEditor \in EditorState
  BY DEF NoTemplate, Template, Channels, IdleEditor, EditorState
<1>1. ASSUME NEW id \in IDs, CreateTemplate(id) PROVE TypeOK'
  <2>1. PICK channel \in Channels, subject \in Texts \cup {Empty}, content \in Texts :
           templates' = [templates EXCEPT ![id] = NewTemplate(channel, subject, content)]
    BY <1>1 DEF CreateTemplate
  <2>2. NewTemplate(channel, subject, content) \in Template
    BY ExtractedAreVariables DEF NewTemplate, Template
  <2> QED
    BY <1>1, <2>1, <2>2 DEF CreateTemplate
<1>2. ASSUME NEW id \in IDs, DeleteTemplate(id) PROVE TypeOK'
  BY <1>0, <1>2 DEF DeleteTemplate
<1>3. ASSUME NEW e \in Editors, LoadForUpdate(e) PROVE TypeOK'
  <2>1. PICK id \in IDs, patch \in Patch :
           /\ Validate(Patched(templates[id], patch))
           /\ editor' = [editor EXCEPT ![e] = [id       |-> id,
                                               template |-> Patched(templates[id], patch)]]
    BY <1>3 DEF LoadForUpdate
  <2>2. [id |-> id, template |-> Patched(templates[id], patch)] \in EditorState
    BY <2>1, PatchedIsTemplate DEF EditorState
  <2> QED
    BY <1>3, <2>1, <2>2 DEF LoadForUpdate
<1>4. ASSUME NEW e \in Editors, WriteUpdate(e) PROVE TypeOK'
  <2>1. editor[e].template \in Template
    BY DEF EditorState
  <2> QED
    BY <1>0, <1>4, <2>1 DEF WriteUpdate, UpdateTemplate
<1>5. ASSUME NEW e \in Editors, UpdateFails(e) PROVE TypeOK'
  BY <1>0, <1>5 DEF UpdateFails
<1>6. ASSUME NEW s \in Senders, RenderTemplate(s) PROVE TypeOK'
  BY <1>6 DEF RenderTemplate
<1>7. ASSUME NEW s \in Senders, InsertNotifications(s) \/ InsertFails(s) PROVE TypeOK'
  BY <1>7 DEF InsertNotifications, InsertFails
<1>8. CASE UNCHANGED vars
  BY <1>8 DEF vars
<1> QED
  BY <1>1, <1>2, <1>3, <1>4, <1>5, <1>6, <1>7, <1>8 DEF Next

\* The rows and what the requests hold keep their types.
THEOREM TemplateTypeCorrect == Spec => []TypeOK
<1>1. Init => TypeOK
  BY DEF Init, TypeOK, NoTemplate, Template, Channels, IdleEditor, EditorState
<1> QED
  BY <1>1, TemplateTypeStep, PTL DEF Spec

--------------------------------------------------------------------------------
LEMMA StoredStep ==
    TypeOK /\ StoredIsValid /\ EditorsAreSound /\ [Next]_vars
        => StoredIsValid' /\ EditorsAreSound'
<1> SUFFICES ASSUME TypeOK, StoredIsValid, EditorsAreSound, [Next]_vars
             PROVE  StoredIsValid' /\ EditorsAreSound'
  OBVIOUS
<1>0. \A id \in IDs : templates[id].exists => Sound(templates[id])
  BY DEF StoredIsValid, Sound
<1> SUFFICES (\A id \in IDs : templates'[id].exists => Sound(templates'[id])) /\ EditorsAreSound'
  BY DEF StoredIsValid, Sound
<1> DEFINE Goal == /\ \A id \in IDs : templates'[id].exists => Sound(templates'[id])
                   /\ EditorsAreSound'
<1>1. ASSUME NEW id \in IDs, CreateTemplate(id) PROVE Goal
  <2>1. PICK channel \in Channels, subject \in Texts \cup {Empty}, content \in Texts :
           /\ Validate(NewTemplate(channel, subject, content))
           /\ templates' = [templates EXCEPT ![id] = NewTemplate(channel, subject, content)]
    BY <1>1 DEF CreateTemplate
  <2>2. Sound(NewTemplate(channel, subject, content))
    BY <2>1 DEF Sound, Validate, NewTemplate
  <2> QED
    BY <1>0, <1>1, <2>1, <2>2 DEF CreateTemplate, TypeOK, EditorsAreSound
<1>2. ASSUME NEW id \in IDs, DeleteTemplate(id) PROVE Goal
  BY <1>0, <1>2 DEF DeleteTemplate, NoTemplate, TypeOK, EditorsAreSound
<1>3. ASSUME NEW e \in Editors, LoadForUpdate(e) PROVE Goal
  <2>1. PICK id \in IDs, patch \in Patch :
           /\ templates[id].exists
           /\ Validate(Patched(templates[id], patch))
           /\ editor' = [editor EXCEPT ![e] = [id       |-> id,
                                               template |-> Patched(templates[id], patch)]]
    BY <1>3 DEF LoadForUpdate
  <2>2. Sound(Patched(templates[id], patch))
    BY <1>0, <2>1, PatchedIsSound DEF TypeOK
  <2>3. Patched(templates[id], patch).exists
    BY DEF Patched
  <2>4. EditorsAreSound'
    BY <2>1, <2>2, <2>3 DEF EditorsAreSound, TypeOK
  <2> QED
    BY <1>0, <1>3, <2>4 DEF LoadForUpdate
<1>4. ASSUME NEW e \in Editors, WriteUpdate(e) PROVE Goal
  <2>1. Sound(editor[e].template)
    BY <1>4 DEF WriteUpdate, EditorsAreSound
  <2>2. \A id \in IDs : templates'[id] = templates[id] \/ templates'[id] = editor[e].template
    BY <1>4 DEF WriteUpdate, UpdateTemplate, TypeOK
  <2>3. EditorsAreSound'
    BY <1>4 DEF WriteUpdate, EditorsAreSound, TypeOK
  <2> QED
    BY <1>0, <2>1, <2>2, <2>3
<1>5. ASSUME NEW e \in Editors, UpdateFails(e) PROVE Goal
  BY <1>0, <1>5 DEF UpdateFails, EditorsAreSound, TypeOK
<1>6. CASE UNCHANGED <<templates, editor>>
  BY <1>0, <1>6 DEF EditorsAreSound
<1> QED
  BY <1>1, <1>2, <1>3, <1>4, <1>5, <1>6
     DEF Next, RenderTemplate, InsertNotifications, InsertFails, vars

\* Overlapping updates leave every row as valid as each of them was.
THEOREM StoredIsValidCorrect == Spec => []StoredIsValid
<1>1. Init => StoredIsValid /\ EditorsAreSound
  BY DEF Init, StoredIsValid, EditorsAreSound, NoTemplate
<1> QED
  BY <1>1, TemplateTypeCorrect, StoredStep, PTL DEF Spec

--------------------------------------------------------------------------------
LEMMA ExistenceStep ==
    TypeOK /\ EditorsAreSound /\ DeletedStaysDeleted /\ NoDanglingReference /\ [Next]_vars
        => DeletedStaysDeleted' /\ NoDanglingReference'
<1> SUFFICES ASSUME TypeOK, EditorsAreSound, DeletedStaysDeleted, NoDanglingReference, [Next]_vars
             PROVE  DeletedStaysDeleted' /\ NoDanglingReference'
  OBVIOUS
<1> USE DEF TypeOK, DeletedStaysDeleted, NoDanglingReference
<1>1. ASSUME NEW id \in IDs, CreateTemplate(id)
      PROVE  DeletedStaysDeleted' /\ NoDanglingReference'
  <2>1. /\ id \notin deleted /\ deleted' = deleted
        /\ ~templates[id].exists /\ referenced' = referenced
        /\ \A i \in IDs \ {id} : templates'[i] = templates[i]
    BY <1>1 DEF CreateTemplate
  <2> QED
    BY <2>1
<1>2. ASSUME NEW id \in IDs, DeleteTemplate(id)
      PROVE  DeletedStaysDeleted' /\ NoDanglingReference'
  <2>1. /\ deleted' = deleted \cup {id} /\ id \notin referenced /\ referenced' = referenced
        /\ ~templates'[id].exists
        /\ \A i \in IDs \ {id} : templates'[i] = templates[i]
    BY <1>2 DEF DeleteTemplate, NoTemplate
  <2> QED
    BY <2>1
<1>3. ASSUME NEW e \in Editors, WriteUpdate(e)
      PROVE  DeletedStaysDeleted' /\ NoDanglingReference'
  <2>1. templates[editor[e].id].exists /\ editor[e].template.exists /\ editor[e].id \in IDs
    BY <1>3 DEF WriteUpdate, UpdateTemplate, EditorsAreSound
  <2>2. templates' = [templates EXCEPT ![editor[e].id] = editor[e].template]
    BY <1>3 DEF WriteUpdate, UpdateTemplate
  <2>3. \A id \in IDs : templates'[id].exists <=> templates[id].exists
    BY <2>1, <2>2
  <2> QED
    BY <1>3, <2>3 DEF WriteUpdate
<1>4. ASSUME NEW s \in Senders, InsertNotifications(s)
      PROVE  DeletedStaysDeleted' /\ NoDanglingReference'
  BY <1>4 DEF InsertNotifications
<1>5. CASE UNCHANGED <<templates, deleted, referenced>>
  BY <1>5
<1> QED
  BY <1>1, <1>2, <1>3, <1>4, <1>5
     DEF Next, LoadForUpdate, UpdateFails, RenderTemplate, InsertFails, vars

\* No update brings a deleted template back.
THEOREM DeletedStaysDeletedCorrect == Spec => []DeletedStaysDeleted
<1>1. Init => EditorsAreSound /\ StoredIsValid /\ DeletedStaysDeleted /\ NoDanglingReference
  BY DEF Init, EditorsAreSound, StoredIsValid, DeletedStaysDeleted, NoDanglingReference,
         NoTemplate
<1> QED
  BY <1>1, TemplateTypeCorrect, StoredStep, ExistenceStep, PTL DEF Spec

\* The template of a stored notification exists.
THEOREM NoDanglingReferenceCorrect == Spec => []NoDanglingReference
<1>1. Init => EditorsAreSound /\ StoredIsValid /\ DeletedStaysDeleted /\ NoDanglingReference
  BY DEF Init, EditorsAreSound, StoredIsValid, DeletedStaysDeleted, NoDanglingReference,
         NoTemplate
<1> QED
  BY <1>1, TemplateTypeCorrect, StoredStep, ExistenceStep, PTL DEF Spec
================================================================================
