------------------------------- MODULE Templates -------------------------------
(***************************************************************************)
(* Stored templates: the requests that create, change and delete them      *)
(* (template_handler.go, template_service.go, template_repository.go) and  *)
(* the requests that create notifications from them                        *)
(* (renderTemplate in notification_service.go).                            *)
(*                                                                         *)
(* An update reads the row, changes the fields the client named and writes *)
(* the whole row back; another request may come between.  A row keeps the  *)
(* columns that Validate and Render look at.  The name is left out: a      *)
(* write that its unique index refuses is a write that fails.  So is       *)
(* is_active, which nothing in the program asks for.                       *)
(***************************************************************************)
EXTENDS FiniteSets, Integers

CONSTANTS
    IDs,            \* the UUIDs of templates
    NoID,
    Texts,          \* subjects and contents
    VariablesOf,    \* the placeholders of each text
    Editors,        \* requests that change templates
    Senders,        \* requests that create notifications from templates
    MaxBatch,       \* maxBatchSize
    Empty,          \* a text that is absent or empty
    Keep            \* a field the client did not name

ASSUME TemplatesAssumption ==
    /\ NoID \notin IDs
    /\ MaxBatch \in Nat \ {0}
    /\ Empty \notin Texts
    /\ Keep \notin Texts \cup {Empty} \cup {"sms", "email", "other"}

ExtractVariables(text) == IF text = Empty THEN {} ELSE VariablesOf[text]

\* sms and push are treated alike.  A client may name any other channel.
Channels      == {"sms", "email"}
NamedChannels == Channels \cup {"other"}

Variables == UNION {VariablesOf[text] : text \in Texts}

\* exists is FALSE before the insert and after the delete.
Template == [exists    : BOOLEAN,
             channel   : Channels,
             subject   : Texts \cup {Empty},
             content   : Texts \cup {Empty},
             variables : SUBSET Variables]

NoTemplate == [exists |-> FALSE, channel |-> "sms", subject |-> Empty, content |-> Empty,
               variables |-> {}]

NewTemplate(channel, subject, content) ==
    [exists    |-> TRUE,
     channel   |-> channel,
     subject   |-> subject,
     content   |-> content,
     variables |-> ExtractVariables(content)]

\* Mutant: Validate does not ask for a channel that exists.
ValidateAnyChannel(t) ==
    /\ t.content # Empty
    /\ t.channel = "email" => t.subject # Empty
    /\ t.variables \subseteq ExtractVariables(t.content)

Validate(t) ==
    /\ t.channel \in Channels
    /\ t.content # Empty
    /\ t.channel = "email" => t.subject # Empty
    /\ t.variables \subseteq ExtractVariables(t.content)

VARIABLES
    templates,  \* the rows
    deleted,    \* the templates that a Delete has removed
    editor,     \* the row each update is about to write
    sender,     \* the templates each creation of notifications has rendered
    referenced  \* the templates that rows of notifications refer to

vars == <<templates, deleted, editor, sender, referenced>>

EditorState == [id : IDs \cup {NoID}, template : Template]

IdleEditor == [id |-> NoID, template |-> NoTemplate]

Init ==
    /\ templates = [id \in IDs |-> NoTemplate]
    /\ deleted = {}
    /\ editor = [e \in Editors |-> IdleEditor]
    /\ sender = [s \in Senders |-> {}]
    /\ referenced = {}

--------------------------------------------------------------------------------
\* Create: the binding asks for a content and a channel that exists, an update's
\* does not.
CreateTemplate(id) ==
    /\ ~templates[id].exists
    /\ id \notin deleted
    /\ \E channel \in Channels, subject \in Texts \cup {Empty}, content \in Texts :
          LET new == NewTemplate(channel, subject, content) IN
          /\ Validate(new)
          /\ templates' = [templates EXCEPT ![id] = new]
    /\ UNCHANGED <<deleted, editor, sender, referenced>>

(***************************************************************************)
(* UpdateTemplateRequest: a field is given or kept.                        *)
(***************************************************************************)
Patch == [channel : NamedChannels \cup {Keep},
          subject : Texts \cup {Empty, Keep},
          content : Texts \cup {Empty, Keep}]

Given(field, old) == IF field = Keep THEN old ELSE field

\* The fields that are given, and with the content its variables.
Patched(old, patch) ==
    [exists    |-> TRUE,
     channel   |-> Given(patch.channel, old.channel),
     subject   |-> Given(patch.subject, old.subject),
     content   |-> Given(patch.content, old.content),
     variables |-> IF patch.content = Keep THEN old.variables
                                           ELSE ExtractVariables(patch.content)]

\* The handler's GetByID, the patch and the validation of the service.
LoadForUpdate(e) ==
    /\ editor[e] = IdleEditor
    /\ \E id \in IDs, patch \in Patch :
          LET new == Patched(templates[id], patch) IN
          /\ templates[id].exists
          /\ Validate(new)
          /\ editor' = [editor EXCEPT ![e] = [id |-> id, template |-> new]]
    /\ UNCHANGED <<templates, deleted, sender, referenced>>

\* Mutant: the row is inserted when there is none.
UpsertTemplate(id, t) == templates' = [templates EXCEPT ![id] = t]

\* Mutant: the statement sets the columns the client is likely to have named.
UpdateSomeColumns(id, t) ==
    /\ templates[id].exists
    /\ templates' = [templates EXCEPT ![id].channel = t.channel, ![id].content = t.content,
                                      ![id].variables = t.variables]

\* UPDATE ... WHERE id, which sets every column; a CHECK refuses other channels.
UpdateTemplate(id, t) ==
    /\ templates[id].exists
    /\ t.channel \in Channels
    /\ templates' = [templates EXCEPT ![id] = t]

WriteUpdate(e) ==
    /\ editor[e] # IdleEditor
    /\ UpdateTemplate(editor[e].id, editor[e].template)
    /\ editor' = [editor EXCEPT ![e] = IdleEditor]
    /\ UNCHANGED <<deleted, sender, referenced>>

\* The statement fails or finds no row, or the request is cancelled.
UpdateFails(e) ==
    /\ editor[e] # IdleEditor
    /\ editor' = [editor EXCEPT ![e] = IdleEditor]
    /\ UNCHANGED <<templates, deleted, sender, referenced>>

\* Mutant: notifications keep no template alive.
DeleteReferenced(id) ==
    /\ templates[id].exists
    /\ templates' = [templates EXCEPT ![id] = NoTemplate]
    /\ deleted' = deleted \cup {id}
    /\ UNCHANGED <<editor, sender, referenced>>

\* A hard delete, which the foreign key of notifications may refuse.
DeleteTemplate(id) ==
    /\ templates[id].exists
    /\ id \notin referenced
    /\ templates' = [templates EXCEPT ![id] = NoTemplate]
    /\ deleted' = deleted \cup {id}
    /\ UNCHANGED <<editor, sender, referenced>>

--------------------------------------------------------------------------------
\* renderTemplate, for one notification after the other.
RenderTemplate(s) ==
    /\ Cardinality(sender[s]) < MaxBatch
    /\ \E id \in IDs \ sender[s] :
          /\ templates[id].exists
          /\ sender' = [sender EXCEPT ![s] = @ \cup {id}]
    /\ UNCHANGED <<templates, deleted, editor, referenced>>

\* The INSERT of all of them; the foreign key refuses a template that is gone.
InsertNotifications(s) ==
    /\ sender[s] # {}
    /\ \A id \in sender[s] : templates[id].exists
    /\ referenced' = referenced \cup sender[s]
    /\ sender' = [sender EXCEPT ![s] = {}]
    /\ UNCHANGED <<templates, deleted, editor>>

\* A render or the INSERT is refused; nothing is stored.
InsertFails(s) ==
    /\ sender[s] # {}
    /\ sender' = [sender EXCEPT ![s] = {}]
    /\ UNCHANGED <<templates, deleted, editor, referenced>>

--------------------------------------------------------------------------------
Next ==
    \/ \E id \in IDs : CreateTemplate(id) \/ DeleteTemplate(id)
    \/ \E e \in Editors : LoadForUpdate(e) \/ WriteUpdate(e) \/ UpdateFails(e)
    \/ \E s \in Senders : RenderTemplate(s) \/ InsertNotifications(s) \/ InsertFails(s)

Spec == Init /\ [][Next]_vars

--------------------------------------------------------------------------------
\* The variables have the types the code declares; whatever channel a client
\* names, a row that is handed to the repository has one that exists, so that no
\* update ends at the CHECK of the database instead of the service's validation.
TypeOK ==
    /\ templates \in [IDs -> Template]
    /\ deleted \subseteq IDs
    /\ editor \in [Editors -> EditorState]
    /\ sender \in [Senders -> SUBSET IDs]
    /\ referenced \subseteq IDs

\* Every row satisfies what each single update was checked for, although updates
\* that overlap were checked against rows that are no longer there: an e-mail
\* has a subject, and the variables that Render asks a client for are those of
\* the content that is stored.
StoredIsValid ==
    \A id \in IDs :
        LET t == templates[id] IN
        t.exists => /\ t.content # Empty
                    /\ t.channel = "email" => t.subject # Empty
                    /\ t.variables = ExtractVariables(t.content)

\* An update that was under way when its template was deleted does not bring
\* it back.
DeletedStaysDeleted == \A id \in deleted : ~templates[id].exists

\* A stored notification's template exists, even one that was deleted by
\* somebody between the rendering and the insert.
NoDanglingReference == \A id \in referenced : templates[id].exists
================================================================================
