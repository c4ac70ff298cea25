--------------------------- MODULE FirestoreClient ---------------------------
(***************************************************************************)
(* The part of the Firestore client that Flash Chat relies on: the one     *)
(* query the chat screen listens to (collection "messages" ordered by      *)
(* date), the per-user queue of local writes, and the two FIFO queues      *)
(* that join the client to the app:                                        *)
(*                                                                         *)
(*   workerQ  tasks the main thread posts to the client's worker queue     *)
(*   mainQ    blocks that wait for the main thread (the main dispatch      *)
(*            queue is Firestore's user executor)                          *)
(*                                                                         *)
(* A document is an element of Doc.  The order by date is left out: a      *)
(* snapshot is the set of its documents.  Everything the network does is   *)
(* the environment's choice.                                               *)
(***************************************************************************)
EXTENDS Naturals, Sequences, FiniteSets

CONSTANTS Doc,        \* documents of the collection "messages"
          User,       \* accounts
          NoUser,     \* nobody signed in
          Env,        \* what the surroundings do in this instance, see Event
          MaxBacklog  \* bound: the client and the network wait while this
                      \* many blocks are queued for the main thread

(* Everything the surroundings may do; an instance leaves some of it out. *)
Event == {"others write", "delete", "reject", "offline", "listen fails",
          "type", "sign out", "disable account"}

ASSUME ClientAssumption == /\ IsFiniteSet(Doc)
                           /\ NoUser \notin User
                           /\ Env \subseteq Event
                           /\ MaxBacklog \in Nat

VARIABLES
    workerQ,    \* Seq(Task): tasks for the worker queue
    mainQ,      \* Seq(Block): blocks for the main queue
    curUser,    \* the user whose mutation queue the sync engine works on
    mutations,  \* mutations[u]: u's writes that the backend has not answered
    callbacks,  \* the unanswered writes whose completion block still exists
    cache,      \* documents the backend has committed, as far as known here
    current,    \* the watch target has caught up with the backend
    online,     \* what the client believes about its connection
    listener,   \* the chat screen's query listener
    gone,       \* history: committed documents that were deleted
    refused,    \* history: stored writes the backend rejected
    lost,       \* history: writes the process was killed before storing
    shrunk      \* history: a view lost a document or the listener failed

clientVars == <<workerQ, mainQ, curUser, mutations, callbacks, cache, current,
                online, listener, gone, refused, lost, shrunk>>

Account == User \cup {NoUser}

Task == [op : {"listen"}] \cup [op : {"write"}, doc : Doc]
                          \cup [op : {"user"}, user : Account]

Listen   == [op |-> "listen"]
Write(d) == [op |-> "write", doc |-> d]
Become(u) == [op |-> "user", user |-> u]

Block == [kind : {"snapshot"}, docs : SUBSET Doc]
           \cup [kind : {"saved", "failed"}, doc : Doc]
           \cup [kind : {"auth"}, user : Account]
           \cup [kind : {"error", "reload", "clear"}]

Snapshot(D) == [kind |-> "snapshot", docs |-> D]
Saved(d)    == [kind |-> "saved", doc |-> d]
Failed(d)   == [kind |-> "failed", doc |-> d]
ListenError == [kind |-> "error"]

Elements(s) == {s[i] : i \in DOMAIN s}

Stored == UNION {Elements(mutations[u]) : u \in Account}

Queued == {d \in Doc : Write(d) \in Elements(workerQ)}

(* A document id nobody has used; new ids are random and never repeat. *)
Fresh == Doc \ (Stored \cup Queued \cup cache \cup gone \cup refused \cup lost)

(* The documents of the query: what the backend is known to hold, overlaid
   with the local writes of the current user only. *)
ViewOf(c, m, u) == c \cup Elements(m[u])

View == ViewOf(cache, mutations, curUser)

Listening == listener \in {"waiting", "live"}

(* A listener waits for its first event until the target is current, unless
   there is something to show or the client has given up on the network. *)
ShouldRaiseInitialEvent(v, cur, onl) == cur \/ v # {} \/ onl = "Offline"

(* Events carry whole snapshots, but only a change of the set of documents
   raises one: changes of metadata (pending, from cache) are filtered out. *)
Raises(v, cur, onl) ==
    \/ listener = "waiting" /\ ShouldRaiseInitialEvent(v, cur, onl)
    \/ listener = "live" /\ v # View

(* A mistake: the listener is told only of views that have documents. *)
PublishNonEmpty(first, v, cur, onl) ==
    /\ listener' = IF Raises(v, cur, onl) THEN "live" ELSE listener
    /\ mainQ' = mainQ \o first \o
                (IF Raises(v, cur, onl) /\ v # {} THEN <<Snapshot(v)>> ELSE <<>>)
    /\ shrunk' = (shrunk \/ ~(View \subseteq v))

(* The view becomes v: post the completions of writes first, then the event
   of the listener, if it is owed one. *)
Publish(first, v, cur, onl) ==
    /\ listener' = IF Raises(v, cur, onl) THEN "live" ELSE listener
    /\ mainQ' = mainQ \o first \o
                (IF Raises(v, cur, onl) THEN <<Snapshot(v)>> ELSE <<>>)
    /\ shrunk' = (shrunk \/ ~(View \subseteq v))

ClientTypeOK ==
    /\ workerQ \in Seq(Task)
    /\ mainQ \in Seq(Block)
    /\ curUser \in Account
    /\ mutations \in [Account -> Seq(Doc)]
    /\ callbacks \in SUBSET Doc
    /\ cache \in SUBSET Doc
    /\ current \in BOOLEAN
    /\ online \in {"Unknown", "Online", "Offline"}
    /\ listener \in {"none", "waiting", "live", "dead"}
    /\ gone \in SUBSET Doc
    /\ refused \in SUBSET Doc
    /\ lost \in SUBSET Doc
    /\ shrunk \in BOOLEAN

(* The client just after sign-in as u, with documents C left in the cache by
   an earlier session, and the screen's listener on its way. *)
ClientInit ==
    /\ workerQ = <<Listen>>
    /\ mainQ = <<>>
    /\ curUser \in User
    /\ mutations = [u \in Account |-> <<>>]
    /\ callbacks = {}
    /\ cache \in SUBSET Doc
    /\ current = FALSE
    /\ online = "Unknown"
    /\ listener = "none"
    /\ gone = {}
    /\ refused = {}
    /\ lost = {}
    /\ shrunk = FALSE

-----------------------------------------------------------------------------
(* Tasks the app posted, run in order on the worker queue. *)

(* EventManager::AddQueryListener: the first view comes from the local store. *)
RunListen ==
    /\ workerQ # <<>> /\ Head(workerQ).op = "listen"
    /\ workerQ' = Tail(workerQ)
    /\ IF ShouldRaiseInitialEvent(View, FALSE, online)
         THEN /\ listener' = "live"
              /\ mainQ' = Append(mainQ, Snapshot(View))
         ELSE /\ listener' = "waiting"
              /\ UNCHANGED mainQ
    /\ UNCHANGED <<curUser, mutations, callbacks, cache, current, online, gone,
                   refused, lost, shrunk>>

(* A mistake: the message shows only once the backend has sent it back. *)
RunWriteUnseen ==
    /\ workerQ # <<>> /\ Head(workerQ).op = "write"
    /\ workerQ' = Tail(workerQ)
    /\ LET d == Head(workerQ).doc IN
         /\ mutations' = [mutations EXCEPT ![curUser] = Append(@, d)]
         /\ callbacks' = callbacks \cup {d}
    /\ UNCHANGED <<mainQ, curUser, cache, current, online, listener, gone,
                   refused, lost, shrunk>>

(* A mistake: the event is raised for a write that was not stored. *)
RunWriteVolatile ==
    /\ workerQ # <<>> /\ Head(workerQ).op = "write"
    /\ workerQ' = Tail(workerQ)
    /\ Publish(<<>>, View \cup {Head(workerQ).doc}, current, online)
    /\ UNCHANGED <<curUser, mutations, callbacks, cache, current, online, gone,
                   refused, lost>>

(* SyncEngine::WriteMutations: the write is stored on the device, and shows
   in the view, before the backend hears of it. *)
RunWrite ==
    /\ workerQ # <<>> /\ Head(workerQ).op = "write"
    /\ workerQ' = Tail(workerQ)
    /\ LET d == Head(workerQ).doc IN
         /\ mutations' = [mutations EXCEPT ![curUser] = Append(@, d)]
         /\ callbacks' = callbacks \cup {d}
         /\ Publish(<<>>, View \cup {d}, current, online)
    /\ UNCHANGED <<curUser, cache, current, online, gone, refused, lost>>

(* SyncEngine::HandleCredentialChange: another user's writes replace this
   user's in the view, and the streams restart. *)
RunUser ==
    /\ workerQ # <<>> /\ Head(workerQ).op = "user"
    /\ workerQ' = Tail(workerQ)
    /\ curUser' = Head(workerQ).user
    /\ online' = "Unknown"
    /\ Publish(<<>>, ViewOf(cache, mutations, curUser'), current, online)
    /\ UNCHANGED <<mutations, callbacks, cache, current, gone, refused, lost>>

WorkerStep == RunListen \/ RunWrite \/ RunUser

-----------------------------------------------------------------------------
(* What the backend and the network do. *)

Completion(d, block) == IF d \in callbacks THEN <<block>> ELSE <<>>

(* SyncEngine::HandleSuccessfulWrite for the oldest write of the current user:
   the document stays in the view, now as one the backend holds. *)
WriteAccepted ==
    /\ mutations[curUser] # <<>>
    /\ LET d == Head(mutations[curUser]) IN
         /\ mutations' = [mutations EXCEPT ![curUser] = Tail(@)]
         /\ cache' = cache \cup {d}
         /\ callbacks' = callbacks \ {d}
         /\ Publish(Completion(d, Saved(d)), View, current, online)
    /\ UNCHANGED <<workerQ, curUser, current, online, gone, refused, lost>>

(* A mistake: the completion of a rejected write is called without the error. *)
WriteRejectedQuietly ==
    /\ "reject" \in Env /\ mutations[curUser] # <<>>
    /\ LET d == Head(mutations[curUser]) IN
         /\ mutations' = [mutations EXCEPT ![curUser] = Tail(@)]
         /\ refused' = refused \cup {d}
         /\ callbacks' = callbacks \ {d}
         /\ Publish(Completion(d, Saved(d)),
                    ViewOf(cache, mutations', curUser), current, online)
    /\ UNCHANGED <<workerQ, curUser, cache, current, online, gone, lost>>

(* SyncEngine::HandleRejectedWrite: the document leaves the view again. *)
WriteRejected ==
    /\ "reject" \in Env /\ mutations[curUser] # <<>>
    /\ LET d == Head(mutations[curUser]) IN
         /\ mutations' = [mutations EXCEPT ![curUser] = Tail(@)]
         /\ refused' = refused \cup {d}
         /\ callbacks' = callbacks \ {d}
         /\ Publish(Completion(d, Failed(d)),
                    ViewOf(cache, mutations', curUser), current, online)
    /\ UNCHANGED <<workerQ, curUser, cache, current, online, gone, lost>>

(* The watch stream delivers a message someone else wrote ... *)
WatchAdds(d) ==
    /\ "others write" \in Env
    /\ Listening /\ online = "Online" /\ d \in Fresh
    /\ cache' = cache \cup {d}
    /\ Publish(<<>>, View \cup {d}, current, online)
    /\ UNCHANGED <<workerQ, curUser, mutations, callbacks, current, online,
                   gone, refused, lost>>

(* ... or reports that a committed document was deleted. *)
WatchRemoves(d) ==
    /\ "delete" \in Env
    /\ Listening /\ online = "Online" /\ d \in cache
    /\ cache' = cache \ {d}
    /\ gone' = gone \cup {d}
    /\ Publish(<<>>, ViewOf(cache', mutations, curUser), current, online)
    /\ UNCHANGED <<workerQ, curUser, mutations, callbacks, current, online,
                   refused, lost>>

(* The target is current: an empty view is now a fact and not a guess. *)
WatchCurrent ==
    /\ Listening /\ online = "Online" /\ ~current
    /\ current' = TRUE
    /\ Publish(<<>>, View, current', online)
    /\ UNCHANGED <<workerQ, curUser, mutations, callbacks, cache, online, gone,
                   refused, lost>>

(* OnlineStateTracker; going offline makes the view a guess again and releases
   a listener that waits for its first event. *)
OnlineStateChanges(new) ==
    /\ <<online, new>> \in {<<"Unknown", "Online">>, <<"Unknown", "Offline">>,
                            <<"Online", "Unknown">>, <<"Offline", "Online">>}
    /\ new \in {"Unknown", "Offline"} => "offline" \in Env
    /\ online' = new
    /\ current' = (current /\ new # "Offline")
    /\ Publish(<<>>, View, current', new)
    /\ UNCHANGED <<workerQ, curUser, mutations, callbacks, cache, gone,
                   refused, lost>>

(* The backend refuses the query: the error is the listener's last event. *)
ListenFails ==
    /\ "listen fails" \in Env /\ Listening /\ online = "Online"
    /\ listener' = "dead"
    /\ mainQ' = Append(mainQ, ListenError)
    /\ current' = FALSE
    /\ shrunk' = TRUE
    /\ UNCHANGED <<workerQ, curUser, mutations, callbacks, cache, online, gone,
                   refused, lost>>

NetworkStep ==
    \/ WriteAccepted
    \/ WriteRejected
    \/ \E d \in Doc : WatchAdds(d)
    \/ \E d \in Doc : WatchRemoves(d)
    \/ WatchCurrent
    \/ \E new \in {"Unknown", "Online", "Offline"} : OnlineStateChanges(new)
    \/ ListenFails

=============================================================================
