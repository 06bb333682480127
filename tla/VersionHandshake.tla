--------------------------- MODULE VersionHandshake ---------------------------
(***************************************************************************)
(* The first exchange on a connection: the client's InitRequest carries    *)
(* the versions of the protocols it was built with, the server reads them, *)
(* compares them with its own and answers with an InitResponse             *)
(* (front_protocol_core.hpp, front_protocol_auth.hpp,                      *)
(* front_protocol_main.hpp and Version of utility/protocol.hpp).           *)
(*                                                                         *)
(* A Version is the sequence of its fields, `version_' first, which is the *)
(* order in which it is written.  The wire carries the values and nothing  *)
(* that tells one field from another, so that a reader which skips a field *)
(* takes it for the next one.  A build gives every Version of a program    *)
(* its static constants; they are also what a Version object starts with.  *)
(*                                                                         *)
(* What the programs do around the messages (which Version is kept in the  *)
(* context of a connection, and that the server answers by operator<=) is  *)
(* not in this repository.                                                 *)
(***************************************************************************)
EXTENDS Naturals, Sequences

CONSTANTS
  ServerBuilds,  \* the builds the server may be of
  ClientBuilds,  \* the builds its clients may be of
  MaxSessions    \* bound on the number of connections

Services == {"auth", "main"}
Parts == Services \cup {"core", "utility"}

Versions == {v \in Seq(Nat) : Len(v) >= 2}

\* The server runs this source, in which version numbers and init_request are
\* 1: raising one of them changes the code that reads.  A client is of this
\* source or newer; it has the fields this source gives a part, and others
\* only if it has raised that part's version number.
ASSUME BuildAssumption ==
  /\ ServerBuilds \cup ClientBuilds \subseteq [Parts -> Versions]
  /\ \A s \in ServerBuilds :
       /\ \A p \in Parts : s[p][1] = 1
       /\ s["auth"][2] = 1 /\ s["main"][2] = 1
       /\ Len(s["auth"]) = 2 /\ Len(s["main"]) = 2 /\ Len(s["core"]) = 5
  /\ \A s \in ServerBuilds, c \in ClientBuilds, p \in Parts :
       /\ c[p][1] >= 1
       /\ p \in Services => c[p][2] >= 1
       /\ c[p][1] = 1 => Len(c[p]) = Len(s[p])
       /\ Len(c[p]) >= Len(s[p])
  /\ MaxSessions \in Nat

VARIABLES
  server,    \* the build of the server
  client,    \* the build of the client of this connection
  service,   \* the front it has connected to
  pc,        \* "idle", "reading", "answered", "closed" or "done"
  wire,      \* what the server has not read yet of the InitRequest
  toRead,    \* the parts the server is still going to read
  got,       \* the InitRequest as the server has it
  accepted,  \* what the server has decided
  response,  \* the body of the InitResponse
  error,     \* InitResponse::error_ as the client has it
  sessions   \* the number of connections so far

vars == <<server, client, service, pc, wire, toRead, got, accepted, response,
          error, sessions>>

Success == 0      \* the error_ of a client that may go on
Refused == 1      \* that of any other
Unset == 2        \* error_ = -1, as an InitResponse is constructed

Init ==
  /\ server \in ServerBuilds
  /\ client \in ClientBuilds
  /\ service = "auth"
  /\ pc = "idle"
  /\ wire = <<>> /\ toRead = <<>> /\ got = server
  /\ accepted = FALSE /\ response = <<>> /\ error = Unset
  /\ sessions = 0

-----------------------------------------------------------------------------
\* Variant: every service carries utility's Version.
RestUtility(s) == <<"core", "utility">>

\* What an InitRequest holds after its own Version.
Rest(s) == IF s = "main" THEN <<"core", "utility">> ELSE <<"core">>

\* A client's InitRequest: it has the constants of its build everywhere, so
\* that every condition on what to write holds.
Written(c, s) ==
  IF s = "main" THEN c["main"] \o c["core"] \o c["utility"]
                ELSE c["auth"] \o c["core"]

Connect(c, s) ==
  /\ pc \in {"idle", "closed", "done"} /\ sessions < MaxSessions
  /\ sessions' = sessions + 1
  /\ client' = c /\ service' = s
  /\ wire' = Written(c, s)
  /\ toRead' = <<s>>
  /\ got' = server
  /\ accepted' = FALSE /\ response' = <<>> /\ error' = Unset
  /\ pc' = "reading"
  /\ UNCHANGED server

(***************************************************************************)
(* Reading a Version.  After `version_' the code means to clear() it and   *)
(* stop if it is newer, but the number it tests is the constant, not the   *)
(* member: nothing is ever cleared.  The other fields follow if version_   *)
(* is the constant; utility::Version does not ask.                         *)
(***************************************************************************)
ReadsFields(p, number) == p = "utility" \/ number = server[p][1]

\* What `v' becomes when it is read from the wire, and how much that takes.
Taken(p) == IF ReadsFields(p, Head(wire)) THEN Len(server[p]) ELSE 1

Decoded(p) == SubSeq(wire, 1, Taken(p)) \o SubSeq(server[p], Taken(p) + 1, Len(server[p]))

ReadVersion ==
  /\ pc = "reading" /\ toRead # <<>>
  /\ wire # <<>>
  /\ LET p == Head(toRead)
     IN  /\ Taken(p) <= Len(wire)
         /\ got' = [got EXCEPT ![p] = Decoded(p)]
         /\ wire' = SubSeq(wire, Taken(p) + 1, Len(wire))
         /\ toRead' = IF p = service
                      THEN IF got'[p][2] = server[p][2] THEN Rest(p) ELSE <<>>
                      ELSE Tail(toRead)
  /\ UNCHANGED <<server, client, service, pc, accepted, response, error, sessions>>

\* The reader is done before the message is: the connection may not survive
\* that.
Close ==
  /\ pc = "reading"
  /\ toRead = <<>> /\ wire # <<>>
  /\ pc' = "closed"
  /\ UNCHANGED <<server, client, service, wire, toRead, got, accepted, response, error, sessions>>

(***************************************************************************)
(* operator<= of a Version that was read, with the server's own.  It takes *)
(* two of its left operands from the constants of the program it runs in:  *)
(* core's auth_request and utility's version.                              *)
(***************************************************************************)
Constants == {<<"core", 2>>, <<"utility", 1>>}

\* Variant: auth_response is taken from the constants, too.
OperandConstant(p, i) == IF <<p, i>> \in Constants \cup {<<"core", 3>>} THEN server[p][i] ELSE got[p][i]

Operand(p, i) == IF <<p, i>> \in Constants THEN server[p][i] ELSE got[p][i]

\* Variant: version_ is not compared.
LessOrEqualFields(p) == \A i \in DOMAIN server[p] \ {1} : Operand(p, i) <= server[p][i]

\* Variant: < for <=.
LessThan(p) == \A i \in DOMAIN server[p] : Operand(p, i) < server[p][i]

LessOrEqual(p) == \A i \in DOMAIN server[p] : Operand(p, i) <= server[p][i]

\* The parts an InitRequest has.
Carried(s) == IF s = "main" THEN {"main", "core", "utility"} ELSE {"auth", "core"}

(***************************************************************************)
(* The server's decision and its InitResponse, whose fields are written    *)
(* only if the context of the connection has a Version with the writer's   *)
(* own init_response.  What the server keeps there, if it keeps anything,  *)
(* is the core Version of the request.                                     *)
(***************************************************************************)
Answer ==
  /\ pc = "reading" /\ toRead = <<>>
  /\ accepted' = \A p \in Carried(service) : LessOrEqual(p)
  /\ \E inContext \in BOOLEAN :
       response' = IF inContext /\ got["core"][4] = server["core"][4]
                   THEN <<IF accepted' THEN Success ELSE Refused>>
                   ELSE <<>>
  /\ pc' = "answered"
  /\ UNCHANGED <<server, client, service, wire, toRead, got, error, sessions>>

\* Variant: an error_ that was not written is read as 0.
ReceiveZero ==
  /\ pc = "answered"
  /\ error' = (IF response # <<>> THEN response[1] ELSE Success) /\ pc' = "done"
  /\ UNCHANGED <<server, client, service, wire, toRead, got, accepted, response, sessions>>

\* Variant: the client waits for an error_.
ReceiveWaits ==
  /\ pc = "answered"
  /\ response # <<>> /\ error' = response[1] /\ pc' = "done"
  /\ UNCHANGED <<server, client, service, wire, toRead, got, accepted, response, sessions>>

(***************************************************************************)
(* The client reads the InitResponse by the same condition on its side; it *)
(* has its own Version in the context, or none.                            *)
(***************************************************************************)
Receive ==
  /\ pc = "answered"
  /\ \/ response # <<>> /\ error' = response[1] /\ pc' = "done"   \* in context
     \/ response = <<>> /\ pc' = "closed" /\ UNCHANGED error     \* in context
     \/ pc' = "done" /\ UNCHANGED error                          \* not
  /\ UNCHANGED <<server, client, service, wire, toRead, got, accepted, response, sessions>>

-----------------------------------------------------------------------------
Exchange == ReadVersion \/ Close \/ Answer \/ Receive

Next == (\E c \in ClientBuilds, s \in Services : Connect(c, s)) \/ Exchange

Spec == Init /\ [][Next]_vars

\* Both ends go on with what they have received.
FairSpec == Spec /\ WF_vars(Exchange)

-----------------------------------------------------------------------------
TypeOK ==
  /\ server \in ServerBuilds /\ client \in ClientBuilds
  /\ service \in Services
  /\ pc \in {"idle", "reading", "answered", "closed", "done"}
  /\ wire \in Seq(Nat)
  /\ toRead \in {<<>>, <<"auth">>, <<"main">>, <<"core">>, <<"core", "utility">>, <<"utility">>}
  /\ got \in [Parts -> Versions]
  /\ \A p \in Parts : Len(got[p]) = Len(server[p])
  /\ accepted \in BOOLEAN
  /\ response \in {<<>>, <<Success>>, <<Refused>>}
  /\ error \in {Success, Refused, Unset}
  /\ sessions \in Nat

(***************************************************************************)
(* Out of step or not, the server finds a value wherever it reads: a       *)
(* client that is newer never leaves it waiting for the rest of a message. *)
(***************************************************************************)
NeverShort ==
  (pc = "reading" /\ toRead # <<>>)
    => wire # <<>> /\ Taken(Head(toRead)) <= Len(wire)

(***************************************************************************)
(* A request the server misreads because the client is newer in any way is *)
(* never accepted: what it accepts, it has read as the client wrote it.    *)
(* The check of version_ and init_request must stop every request that the *)
(* missing clear() has put out of step with the wire.                      *)
(***************************************************************************)
AcceptedInStep ==
  accepted => \A p \in Carried(service) :
                got[p] = SubSeq(client[p], 1, Len(server[p]))

(***************************************************************************)
(* A client that is accepted is newer than the server in no field that     *)
(* operator<= compares; the two that it does not compare are Constants.    *)
(***************************************************************************)
AcceptedNotNewer ==
  accepted => \A p \in Carried(service) : \A i \in DOMAIN server[p] :
                client[p][i] <= server[p][i] \/ <<p, i>> \in Constants

\* The client is newer in no field.
Supported ==
  \A p \in Carried(service) : \A i \in DOMAIN server[p] : client[p][i] <= server[p][i]

(***************************************************************************)
(* A client that is newer in no field is neither refused nor put out of    *)
(* step with the server's reading.                                         *)
(***************************************************************************)
SupportedServed ==
  Supported
    => /\ error # Refused
       /\ pc \in {"answered", "done"} => accepted
       /\ pc = "reading" /\ toRead = <<>> => wire = <<>>

(***************************************************************************)
(* The two conditions of InitResponse are evaluated by different programs; *)
(* where they differ, the client must not take the answer for a success.   *)
(***************************************************************************)
NoFalseSuccess == error = Success => accepted /\ pc = "done"

\* Every request is answered or its connection closed.
RequestsEnd == pc = "reading" ~> pc \in {"done", "closed"}

(***************************************************************************)
(* "the version is only transfered from client to server"                  *)
(* (front_protocol_auth.hpp:29, front_protocol_main.hpp:34): the server    *)
(* has, of each part it has read, the version number of the client.        *)
(***************************************************************************)
VersionTransferred ==
  (pc = "reading" /\ toRead = <<>>)
    => \A p \in Carried(service) : got[p][1] \in {client[p][1], server[p][1]}

=============================================================================
