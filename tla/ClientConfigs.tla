--------------------------- MODULE ClientConfigs ---------------------------
(***************************************************************************)
(* The documents of client configurations and their versions               *)
(* (services/xray_templates.py, routers/xray_templates.py): a history that *)
(* is only appended to, of which the last version is active; the cache of  *)
(* the active bodies in the process, get_cached_active_bodies, that the    *)
(* subscriptions read; and the document a host names, in the database and  *)
(* in the copy that xray.hosts keeps: PUT /hosts commits, and the refresh  *)
(* that follows clears the copy, reads and stores.                         *)
(*                                                                         *)
(* Calls run in threads without a lock.  functools.cache computes outside  *)
(* its lock too: cache_clear does not stop a load that is under way from   *)
(* storing what it read.                                                   *)
(*                                                                         *)
(* A body is the number of the edit that wrote it; Empty is a blank one.   *)
(***************************************************************************)
EXTENDS Integers, Sequences, SequencesExt

CONSTANTS
    Savers,      \* threads that serve requests
    MaxDocs,     \* bound on the ids of documents
    MaxSaves,    \* bound on the calls that write
    ReuseIds,    \* SQLite: it gives a freed id again and lets a host name an id that is gone
    NoDoc,       \* no document, and no cache
    NoCall

Ids == 1 .. MaxDocs

\* A new installation has the default document; the two markers are neither
\* documents nor calls.
ASSUME DocAssumption ==
    /\ MaxDocs \in Nat \ {0}
    /\ NoDoc \notin Int /\ NoDoc \notin Seq(Int) /\ NoDoc \notin [Ids -> Int]
    /\ \A o \in {"invalidate", "refresh"} : NoCall # [op |-> o]

VARIABLES
    docs,        \* id -> the bodies of its versions, or NoDoc
    lastDoc,     \* the largest id given so far
    binding,     \* hosts.client_config_id of a host
    hostCache,   \* the same in xray.hosts, Unread when that is empty
    bodyCache,   \* get_cached_active_bodies, NoDoc when it is empty
    docCalls,    \* what each thread does
    saves,       \* writing calls begun
    loadCrossed, \* some commit came while a subscription loaded the bodies
    hostCrossed  \* some PUT /hosts committed between the reading and the storing of a refresh

docVars ==
    <<docs, lastDoc, binding, hostCache, bodyCache, docCalls, saves, loadCrossed, hostCrossed>>

Default == 1      \* the document with the slug "default"
Unread == 0
Empty == 0
FileBody == -1    \* V2RAY_SUBSCRIPTION_TEMPLATE
Live == {d \in Ids : docs[d] # NoDoc}

\* get_active_bodies: the last versions, blank ones left out.
Active == [d \in Ids |-> IF d \in Live /\ docs[d] # <<>> THEN Last(docs[d]) ELSE Empty]

\* select_config and make_template_lookup: the document, else the default one,
\* else the file.
Selected(bodies, d) ==
    IF d # NoDoc /\ bodies[d] # Empty THEN bodies[d]
    ELSE IF bodies[Default] # Empty THEN bodies[Default] ELSE FileBody

\* The panel starts with a blank default document and some others.
DocInit ==
    /\ lastDoc \in Ids
    /\ docs = [d \in Ids |-> IF d = Default THEN <<Empty>>
                             ELSE IF d <= lastDoc THEN <<FileBody - d>> ELSE NoDoc]
    /\ binding = NoDoc /\ hostCache = Unread
    /\ bodyCache = NoDoc
    /\ docCalls = [t \in Savers |-> NoCall]
    /\ saves = 0
    /\ loadCrossed = FALSE /\ hostCrossed = FALSE

BeginSave(t, c) ==
    /\ docCalls[t] = NoCall
    /\ saves < MaxSaves
    /\ saves' = saves + 1
    /\ docCalls' = [docCalls EXCEPT ![t] = c]

Doing(t, op) == docCalls[t] # NoCall /\ docCalls[t].op = op
SaveGoes(t, c) == docCalls' = [docCalls EXCEPT ![t] = c]

\* A commit that changes what get_active_bodies reads.
Crosses == loadCrossed' = (loadCrossed \/ \E t \in Savers : Doing(t, "load"))

(***************************************************************************)
(* Writing.                                                                *)
(***************************************************************************)

\* _append_version up to its commit: the number is read, the row is not yet
\* there.
Append_(d, body) == [op |-> "append", doc |-> d, version |-> Len(docs[d]) + 1, body |-> body]

save_version(t, d, body) ==
    /\ BeginSave(t, Append_(d, body))
    /\ UNCHANGED <<docs, lastDoc, binding, hostCache, bodyCache, loadCrossed, hostCrossed>>

\* The body of an earlier version becomes a new one.
revert(t, d, v) ==
    /\ BeginSave(t, Append_(d, docs[d][v]))
    /\ UNCHANGED <<docs, lastDoc, binding, hostCache, bodyCache, loadCrossed, hostCrossed>>

\* The version that has the number already is written over.
CommitVersionOver(t) ==
    /\ Doing(t, "append")
    /\ LET c == docCalls[t] IN
       /\ docs' = [docs EXCEPT ![c.doc] = IF c.doc \notin Live THEN @
                                          ELSE IF c.version <= Len(@)
                                               THEN [@ EXCEPT ![c.version] = c.body]
                                          ELSE Append(@, c.body)]
       /\ SaveGoes(t, [op |-> "invalidate"])
    /\ Crosses
    /\ UNCHANGED <<lastDoc, binding, hostCache, bodyCache, saves, hostCrossed>>

\* The commit: the document may have gone and the pair (template_id, version) is
\* unique, so of two saves that read the same number the second fails.
CommitVersion(t) ==
    /\ Doing(t, "append")
    /\ LET c == docCalls[t] IN
       IF c.doc \in Live /\ c.version = Len(docs[c.doc]) + 1
       THEN /\ docs' = [docs EXCEPT ![c.doc] = Append(@, c.body)]
            /\ SaveGoes(t, [op |-> "invalidate"])
            /\ Crosses
       ELSE SaveGoes(t, NoCall) /\ UNCHANGED <<docs, loadCrossed>>
    /\ UNCHANGED <<lastDoc, binding, hostCache, bodyCache, saves, hostCrossed>>

\* The process keeps what it has.
invalidateSession(t) ==
    /\ Doing(t, "invalidate")
    /\ SaveGoes(t, NoCall)
    /\ UNCHANGED <<docs, lastDoc, binding, hostCache, bodyCache, saves, loadCrossed, hostCrossed>>

invalidate(t) ==
    /\ Doing(t, "invalidate")
    /\ bodyCache' = NoDoc
    /\ SaveGoes(t, NoCall)
    /\ UNCHANGED <<docs, lastDoc, binding, hostCache, saves, loadCrossed, hostCrossed>>

\* The id of a new row.
NextId == IF ReuseIds THEN 1 + CHOOSE d \in Live : \A e \in Live : e <= d ELSE lastDoc + 1

\* The row is committed, without a version ...
create_config(t) ==
    /\ NextId \in Ids
    /\ BeginSave(t, [op |-> "create", doc |-> NextId])
    /\ docs' = [docs EXCEPT ![NextId] = <<>>]
    /\ lastDoc' = IF NextId > lastDoc THEN NextId ELSE lastDoc
    /\ UNCHANGED <<binding, hostCache, bodyCache, loadCrossed, hostCrossed>>

\* ... and its first version is a copy of the default document, or of the file
\* when that is blank.
FirstVersion(t) ==
    /\ Doing(t, "create")
    /\ LET d == docCalls[t].doc IN
       SaveGoes(t, IF d \in Live THEN Append_(d, Selected(Active, NoDoc)) ELSE NoCall)
    /\ UNCHANGED <<docs, lastDoc, binding, hostCache, bodyCache, saves, loadCrossed, hostCrossed>>

\* Nobody is told that a document has gone.
delete_configQuiet(t, d) ==
    /\ d # Default /\ docCalls[t] = NoCall
    /\ saves < MaxSaves /\ saves' = saves + 1
    /\ docs' = [docs EXCEPT ![d] = NoDoc]
    /\ binding' = IF binding = d THEN NoDoc ELSE binding
    /\ Crosses
    /\ UNCHANGED <<lastDoc, hostCache, bodyCache, docCalls, hostCrossed>>

\* The hosts of the document go back to the default one; xray.hosts is not told.
delete_config(t, d) ==
    /\ d # Default
    /\ BeginSave(t, [op |-> "invalidate"])
    /\ docs' = [docs EXCEPT ![d] = NoDoc]
    /\ binding' = IF binding = d THEN NoDoc ELSE binding
    /\ Crosses
    /\ UNCHANGED <<lastDoc, hostCache, bodyCache, hostCrossed>>

(***************************************************************************)
(* Hosts.                                                                  *)
(***************************************************************************)

\* PUT /hosts (modify_hosts): assert_config_exists finds the document, or there
\* is none ...
modify_hosts(t, d) ==
    /\ BeginSave(t, [op |-> "bind", doc |-> d])
    /\ UNCHANGED <<docs, lastDoc, binding, hostCache, bodyCache, loadCrossed, hostCrossed>>

\* The commit without the refresh.
CommitBindingSilent(t) ==
    /\ Doing(t, "bind")
    /\ binding' = docCalls[t].doc /\ SaveGoes(t, NoCall)
    /\ UNCHANGED <<docs, lastDoc, hostCache, bodyCache, saves, loadCrossed, hostCrossed>>

\* ... update_hosts_batch commits, unless the document has gone meanwhile and the
\* foreign key is checked ...
CommitBinding(t) ==
    /\ Doing(t, "bind")
    /\ LET d == docCalls[t].doc IN
       IF d \in Live \cup {NoDoc} \/ ReuseIds
       THEN /\ binding' = d
            /\ SaveGoes(t, [op |-> "refresh"])
            /\ hostCrossed' = (hostCrossed \/ \E o \in Savers : Doing(o, "store"))
       ELSE SaveGoes(t, NoCall) /\ UNCHANGED <<binding, hostCrossed>>
    /\ UNCHANGED <<docs, lastDoc, hostCache, bodyCache, saves, loadCrossed>>

\* ... and xray.hosts.update() follows.  The endpoints of nodes, bots and the core
\* call it as well.
RefreshHosts(t) ==
    /\ BeginSave(t, [op |-> "refresh"])
    /\ UNCHANGED <<docs, lastDoc, binding, hostCache, bodyCache, loadCrossed, hostCrossed>>

\* So does a subscription that finds the storage empty.
RefillHosts(t) ==
    /\ docCalls[t] = NoCall /\ hostCache = Unread
    /\ SaveGoes(t, [op |-> "refill"])
    /\ UNCHANGED <<docs, lastDoc, binding, hostCache, bodyCache, saves, loadCrossed, hostCrossed>>

\* hosts(storage): it is cleared, ...
ClearHosts(t) ==
    /\ Doing(t, "refresh") \/ Doing(t, "refill")
    /\ hostCache' = Unread
    /\ SaveGoes(t, [op |-> "fill"])
    /\ UNCHANGED <<docs, lastDoc, binding, bodyCache, saves, loadCrossed, hostCrossed>>

\* ... the row is read ...
LoadHosts(t) ==
    /\ Doing(t, "fill")
    /\ SaveGoes(t, [op |-> "store", doc |-> binding])
    /\ UNCHANGED <<docs, lastDoc, binding, hostCache, bodyCache, saves, loadCrossed, hostCrossed>>

\* ... and stored, whatever was committed meanwhile.
StoreHosts(t) ==
    /\ Doing(t, "store")
    /\ hostCache' = docCalls[t].doc
    /\ SaveGoes(t, NoCall)
    /\ UNCHANGED <<docs, lastDoc, binding, bodyCache, saves, loadCrossed, hostCrossed>>

(***************************************************************************)
(* Reading.                                                                *)
(***************************************************************************)

\* A subscription that finds the cache empty loads the bodies ...
LoadBodies(t) ==
    /\ docCalls[t] = NoCall /\ bodyCache = NoDoc
    /\ SaveGoes(t, [op |-> "load", bodies |-> Active])
    /\ UNCHANGED <<docs, lastDoc, binding, hostCache, bodyCache, saves, loadCrossed, hostCrossed>>

\* ... and stores what it has loaded, whatever was cleared meanwhile.
get_cached_active_bodies(t) ==
    /\ Doing(t, "load")
    /\ bodyCache' = docCalls[t].bodies
    /\ SaveGoes(t, NoCall)
    /\ UNCHANGED <<docs, lastDoc, binding, hostCache, saves, loadCrossed, hostCrossed>>

\* The process stops and starts again: what it had in memory is gone.
Restart ==
    /\ docCalls' = [t \in Savers |-> NoCall]
    /\ bodyCache' = NoDoc
    /\ hostCache' = Unread
    /\ UNCHANGED <<docs, lastDoc, binding, saves, loadCrossed, hostCrossed>>

DocNext ==
    \/ \E t \in Savers, d \in Live :
         \/ \E body \in {Empty, saves + 1} : save_version(t, d, body)
         \/ \E v \in DOMAIN docs[d] : revert(t, d, v)
         \/ delete_config(t, d)
    \/ \E t \in Savers :
         \/ CommitVersion(t) \/ invalidate(t) \/ create_config(t) \/ FirstVersion(t)
         \/ LoadBodies(t) \/ get_cached_active_bodies(t)
         \/ \E d \in Live \cup {NoDoc} : modify_hosts(t, d)
         \/ CommitBinding(t) \/ RefreshHosts(t) \/ RefillHosts(t)
         \/ ClearHosts(t) \/ LoadHosts(t) \/ StoreHosts(t)
    \/ Restart

DocSpec == DocInit /\ [][DocNext]_docVars

(***************************************************************************)
(* What is expected of it.                                                 *)
(***************************************************************************)

NobodyWrites == \A t \in Savers : ~Doing(t, "invalidate")

\* Once the calls that write have ended, the subscriptions read the last version
\* of every document, unless a commit came while one of them loaded the bodies
\* (_append_version, delete_config, invalidate).
BodiesAreActive == NobodyWrites /\ bodyCache # NoDoc => bodyCache = Active
BodiesAreFresh == loadCrossed \/ BodiesAreActive

NobodyRefreshes == \A t \in Savers : ~Doing(t, "refresh")

\* A host is served with the document that the database names for it once the
\* refresh of the last PUT /hosts has begun, though nobody tells xray.hosts of a
\* document that was deleted; unless another PUT committed between the reading
\* and the storing of a refresh (modify_hosts, hosts).
ServedAsBoundOnceRefreshed ==
    LET bodies == IF bodyCache = NoDoc THEN Active ELSE bodyCache
    IN  NobodyWrites /\ NobodyRefreshes /\ hostCache # Unread =>
            Selected(bodies, hostCache) = Selected(Active, binding)
ServedAsBound == loadCrossed \/ hostCrossed \/ ServedAsBoundOnceRefreshed

\* Versions are added to a document and never changed, whoever saves at once.
HistoryStep == \A d \in Live : docs'[d] # NoDoc => IsPrefix(docs[d], docs'[d])

\* Subscriptions get the documents that the database names, as they were saved
\* last, and no save loses another one (_append_version, get_cached_active_bodies).
DocumentsSound == [](BodiesAreFresh /\ ServedAsBound) /\ [][HistoryStep]_docVars

\* A document that nobody is creating any more has a version: fails when the
\* process stops between the two commits of create_config.
EveryDocWritten ==
    \A d \in Live : docs[d] = <<>> =>
        \E t \in Savers : (Doing(t, "create") \/ Doing(t, "append")) /\ docCalls[t].doc = d
=============================================================================
