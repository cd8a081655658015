------------------------------- MODULE MqttLink -------------------------------
(***************************************************************************)
(* The MQTT connection of the integration: DreameA2MqttClient, the part of *)
(* the coordinator's set-up that opens it, and the config entry that sets  *)
(* up, retries and unloads coordinators.                                   *)
(*                                                                         *)
(* Each set-up makes a new coordinator c with a client of its own; a       *)
(* coordinator whose set-up failed is dropped, its client is not.  Two     *)
(* threads touch a client: the executor thread of _init_mqtt, and paho's   *)
(* thread, which runs the callbacks.  conn[c] is where paho's thread is:   *)
(*   off, connecting                                                       *)
(*   accepted -> resubscribing -> up    (inside and after _on_connect, 0)  *)
(*   refused -> rejected -> connecting  (_on_connect 5, _on_disconnect 5)  *)
(* A broker accepts the password that is the account's key now.            *)
(***************************************************************************)
EXTENDS Naturals

CONSTANTS
    MaxSetups,      \* coordinators set up in one run of Home Assistant
    MaxDrops,       \* connections the network drops
    MaxRotations    \* keys that replace an earlier one

ASSUME BoundsAssumption == MaxSetups \in Nat /\ MaxDrops \in Nat /\ MaxRotations \in Nat

VARIABLES
    entry,      \* where the config entry is with coordinator cur
    cur,        \* the coordinator of the config entry, 0 before the first
    accountKey, \* the account's key, which the broker takes as the password
    drops,      \* how many connections were dropped
    failed,     \* coordinators dropped because their set-up failed
    restored,   \* coordinators that restored their session from disk
    client,     \* client[c]: c's _client is a paho client, with its thread
    connected,  \* connected[c]: the _connected flag
    topic,      \* topic[c]: _subscribe_topic is set
    callback,   \* callback[c]: the coordinator's callback is registered
    password,   \* password[c]: the key paho presents
    conn,       \* conn[c]: paho's thread and connection
    subscribed, \* subscribed[c]: the broker has c's subscription
    heard       \* heard[c]: c has handled a push

link == <<client, connected, topic, callback, password>>
vars == <<entry, cur, accountKey, drops, failed, restored, link, conn, subscribed, heard>>

Coordinators == 1 .. MaxSetups
AccountKeys == 0 .. MaxRotations

Entries == {"none", "cloud", "restore", "connect", "cache", "subscribe",
            "refresh", "loaded", "unload", "retry"}
Connections == {"off", "connecting", "accepted", "resubscribing", "up",
                "refused", "rejected"}

TypeOK ==
    /\ entry \in Entries
    /\ cur \in 0 .. MaxSetups
    /\ entry \in Entries \ {"none", "retry"} => cur \in Coordinators
    /\ accountKey \in AccountKeys
    /\ drops \in 0 .. MaxDrops
    /\ failed \subseteq Coordinators
    /\ restored \subseteq Coordinators
    /\ client \in [Coordinators -> BOOLEAN]
    /\ connected \in [Coordinators -> BOOLEAN]
    /\ topic \in [Coordinators -> BOOLEAN]
    /\ callback \in [Coordinators -> BOOLEAN]
    /\ password \in [Coordinators -> AccountKeys]
    /\ conn \in [Coordinators -> Connections]
    /\ \A c \in Coordinators : client[c] <=> conn[c] # "off"
    /\ subscribed \in [Coordinators -> BOOLEAN]
    /\ heard \in [Coordinators -> BOOLEAN]

Init ==
    /\ entry = "none"
    /\ cur = 0
    /\ accountKey = 0
    /\ drops = 0
    /\ failed = {}
    /\ restored = {}
    /\ client = [c \in Coordinators |-> FALSE]
    /\ connected = [c \in Coordinators |-> FALSE]
    /\ topic = [c \in Coordinators |-> FALSE]
    /\ callback = [c \in Coordinators |-> FALSE]
    /\ password = [c \in Coordinators |-> 0]
    /\ conn = [c \in Coordinators |-> "off"]
    /\ subscribed = [c \in Coordinators |-> FALSE]
    /\ heard = [c \in Coordinators |-> FALSE]

(***************************************************************************)
(* Set-up, on the event loop and its executor.                             *)
(***************************************************************************)

\* A set-up, the first one, one after an unload or a retry after a failure,
\* makes a new coordinator: it has no _cloud yet.
SetupEntry ==
    /\ entry \in {"none", "retry"}
    /\ cur < MaxSetups
    /\ cur' = cur + 1
    /\ entry' = "cloud"
    /\ UNCHANGED <<accountKey, drops, failed, restored, link, conn, subscribed, heard>>

\* _init_cloud logs in and finds the mower, or raises: the first refresh
\* fails, and Home Assistant tries the entry again later.
InitCloud ==
    /\ entry = "cloud"
    /\ \/ entry' = "restore" /\ UNCHANGED failed
       \/ entry' = "retry" /\ failed' = failed \cup {cur}
    /\ UNCHANGED <<cur, accountKey, drops, restored, link, conn, subscribed, heard>>

\* Faulty: the restore runs in a task of its own.
RestoreInBackground ==
    /\ \/ entry = "restore" /\ entry' = "connect" /\ UNCHANGED restored
       \/ /\ entry \in {"connect", "cache", "subscribe", "refresh"}
          /\ cur \notin restored
          /\ restored' = restored \cup {cur}
          /\ UNCHANGED entry
    /\ UNCHANGED <<cur, accountKey, drops, failed, link, conn, subscribed, heard>>

\* The session of the last run is read back before any push can arrive.
RestoreInProgress ==
    /\ entry = "restore"
    /\ restored' = restored \cup {cur}
    /\ entry' = "connect"
    /\ UNCHANGED <<cur, accountKey, drops, failed, link, conn, subscribed, heard>>

\* The callback is registered and paho started with the account's key of the moment.
\* An exception on the way leaves no client, and the set-up goes on.
Connect ==
    /\ entry = "connect"
    /\ entry' = "cache"
    /\ callback' = [callback EXCEPT ![cur] = TRUE]
    /\ password' = [password EXCEPT ![cur] = accountKey]
    /\ \/ /\ client' = [client EXCEPT ![cur] = TRUE]
          /\ conn' = [conn EXCEPT ![cur] = "connecting"]
       \/ UNCHANGED <<client, conn>>
    /\ UNCHANGED <<cur, accountKey, drops, failed, restored, connected, topic, subscribed, heard>>

\* paho sends a subscribe on the connection it has, and drops it otherwise.
Send(c, wanted) == subscribed[c] \/ (wanted /\ conn[c] \in {"resubscribing", "up"})

\* Faulty: it looks first, and remembers the topic after.
SubscribeLooksFirst ==
    /\ \/ /\ entry = "cache"
          /\ entry' = "subscribe"
          /\ subscribed' = [subscribed EXCEPT ![cur] =
                               Send(cur, client[cur] /\ connected[cur])]
          /\ UNCHANGED topic
       \/ /\ entry = "subscribe"
          /\ entry' = "refresh"
          /\ topic' = [topic EXCEPT ![cur] = TRUE]
          /\ UNCHANGED subscribed
    /\ UNCHANGED <<cur, accountKey, drops, failed, restored, client, connected, callback,
                   password, conn, heard>>

\* subscribe() remembers the topic, then looks whether the client is connected,
\* and leaves it to _on_connect if not.
Subscribe ==
    /\ \/ /\ entry = "cache"
          /\ entry' = "subscribe"
          /\ topic' = [topic EXCEPT ![cur] = TRUE]
          /\ UNCHANGED subscribed
       \/ /\ entry = "subscribe"
          /\ entry' = "refresh"
          /\ subscribed' = [subscribed EXCEPT ![cur] =
                               Send(cur, client[cur] /\ connected[cur])]
          /\ UNCHANGED topic
    /\ UNCHANGED <<cur, accountKey, drops, failed, restored, client, connected, callback,
                   password, conn, heard>>

\* The rest of the first refresh, or an exception in it: the entry is tried
\* again with another coordinator, and nothing disconnects this one's client.
FirstRefresh ==
    /\ entry = "refresh"
    /\ \/ entry' = "loaded" /\ UNCHANGED failed
       \/ entry' = "retry" /\ failed' = failed \cup {cur}
    /\ UNCHANGED <<cur, accountKey, drops, restored, link, conn, subscribed, heard>>

\* The user reloads or removes the entry.
UnloadEntry ==
    /\ entry = "loaded"
    /\ entry' = "unload"
    /\ UNCHANGED <<cur, accountKey, drops, failed, restored, link, conn, subscribed, heard>>

\* disconnect(): loop_stop waits until paho's thread is out of its callback,
\* then the connection is closed and the callbacks are forgotten.
Disconnect ==
    /\ entry = "unload"
    /\ conn[cur] \in {"off", "connecting", "up"}
    /\ entry' = "none"
    /\ client' = [client EXCEPT ![cur] = FALSE]
    /\ conn' = [conn EXCEPT ![cur] = "off"]
    /\ subscribed' = [subscribed EXCEPT ![cur] = FALSE]
    /\ connected' = [connected EXCEPT ![cur] = FALSE]
    /\ callback' = [callback EXCEPT ![cur] = FALSE]
    /\ UNCHANGED <<cur, accountKey, drops, failed, restored, topic, password, heard>>

(***************************************************************************)
(* paho's thread.                                                          *)
(***************************************************************************)

\* paho reaches the broker with the password it has: it is the account's key, or is
\* refused.
Connack(c) ==
    /\ conn[c] = "connecting"
    /\ conn' = [conn EXCEPT ![c] = IF password[c] = accountKey THEN "accepted" ELSE "refused"]
    /\ UNCHANGED <<entry, cur, accountKey, drops, failed, restored, link, subscribed, heard>>

\* Faulty: it subscribes only when it raises the flag.
OnConnectOnce(c) ==
    /\ \/ /\ conn[c] = "accepted"
          /\ conn' = [conn EXCEPT ![c] = IF connected[c] THEN "up" ELSE "resubscribing"]
          /\ connected' = [connected EXCEPT ![c] = TRUE]
          /\ UNCHANGED subscribed
       \/ /\ conn[c] = "resubscribing"
          /\ conn' = [conn EXCEPT ![c] = "up"]
          /\ subscribed' = [subscribed EXCEPT ![c] = Send(c, topic[c])]
          /\ UNCHANGED connected
    /\ UNCHANGED <<entry, cur, accountKey, drops, failed, restored, client, topic, callback,
                   password, heard>>

\* _on_connect(0) raises the flag, then subscribes to the topic it finds.
OnConnect(c) ==
    /\ \/ /\ conn[c] = "accepted"
          /\ conn' = [conn EXCEPT ![c] = "resubscribing"]
          /\ connected' = [connected EXCEPT ![c] = TRUE]
          /\ UNCHANGED subscribed
       \/ /\ conn[c] = "resubscribing"
          /\ conn' = [conn EXCEPT ![c] = "up"]
          /\ subscribed' = [subscribed EXCEPT ![c] = Send(c, topic[c])]
          /\ UNCHANGED connected
    /\ UNCHANGED <<entry, cur, accountKey, drops, failed, restored, client, topic, callback,
                   password, heard>>

\* _on_connect with another code lowers the flag.
OnRefused(c) ==
    /\ conn[c] = "refused"
    /\ conn' = [conn EXCEPT ![c] = "rejected"]
    /\ connected' = [connected EXCEPT ![c] = FALSE]
    /\ UNCHANGED <<entry, cur, accountKey, drops, failed, restored, client, topic, callback,
                   password, subscribed, heard>>

\* _on_disconnect(5) follows a refusal.  It would ask for new credentials, but
\* no callback for that is ever registered: paho tries again with the same.
OnAuthError(c) ==
    /\ conn[c] = "rejected"
    /\ conn' = [conn EXCEPT ![c] = "connecting"]
    /\ UNCHANGED <<entry, cur, accountKey, drops, failed, restored, link, subscribed, heard>>

\* The network drops a connection, and the subscription with it: paho calls
\* _on_disconnect, which leaves the flag up, and connects again.
Drop(c) ==
    /\ conn[c] = "up"
    /\ drops < MaxDrops
    /\ drops' = drops + 1
    /\ conn' = [conn EXCEPT ![c] = "connecting"]
    /\ subscribed' = [subscribed EXCEPT ![c] = FALSE]
    /\ UNCHANGED <<entry, cur, accountKey, failed, restored, link, heard>>

\* A push reaches _on_message, which drops it when no callback is registered.
OnMessage(c) ==
    /\ conn[c] = "up"
    /\ subscribed[c]
    /\ heard' = [heard EXCEPT ![c] = @ \/ callback[c]]
    /\ UNCHANGED <<entry, cur, accountKey, drops, failed, restored, link, conn, subscribed>>

\* A login on the cloud's side of the integration gets a new key: open
\* connections stay, new ones need it.
Rotate ==
    /\ accountKey < MaxRotations
    /\ accountKey' = accountKey + 1
    /\ UNCHANGED <<entry, cur, drops, failed, restored, link, conn, subscribed, heard>>

SetupStep == InitCloud \/ RestoreInProgress \/ Connect \/ Subscribe \/ FirstRefresh \/ Disconnect
PahoStep(c) == Connack(c) \/ OnConnect(c) \/ OnRefused(c) \/ OnAuthError(c)

Next ==
    \/ SetupEntry \/ UnloadEntry \/ SetupStep
    \/ \E c \in Coordinators : PahoStep(c) \/ Drop(c) \/ OnMessage(c)
    \/ Rotate

Spec == Init /\ [][Next]_vars

\* The executor and paho's thread keep running; Home Assistant retries an
\* entry that is not ready.  Nothing makes the user reload or the network drop.
FairSpec ==
    /\ Spec
    /\ WF_vars(SetupStep)
    /\ WF_vars(SetupEntry /\ entry = "retry")
    /\ \A c \in Coordinators : WF_vars(PahoStep(c))

(***************************************************************************)
(* Properties.                                                             *)
(***************************************************************************)

\* subscribe() and _on_connect race on two threads, each writing one of the
\* flag and the topic and then reading the other: whoever comes second
\* subscribes.  Once both are done, a connection has its subscription, the
\* first one and every later one.
NoSubscriptionLost ==
    \A c \in Coordinators :
        conn[c] = "up" /\ topic[c] /\ ~(c = cur /\ entry = "subscribe") => subscribed[c]

\* No push reaches a coordinator that has not restored its session: a retained
\* task state would begin a fresh session over the saved one.
RestoredBeforePushes == \A c \in Coordinators : heard[c] => c \in restored

\* An unloaded coordinator is off the network, whatever state its connection
\* was in; what is left running belongs to set-ups that failed.
UnloadedIsOff ==
    \A c \in Coordinators :
        conn[c] # "off" => c \in failed \/ (c = cur /\ entry \notin {"none", "cloud", "restore", "connect"})

\* A loaded coordinator whose client started and whose password still counts
\* is subscribed again and again, drops and all.
Listens ==
    \A c \in Coordinators :
        (entry = "loaded" /\ cur = c /\ client[c] /\ password[c] = accountKey)
            ~> (subscribed[c] \/ password[c] # accountKey \/ entry # "loaded")

===============================================================================
