------------------------ MODULE VersionHandshakeProofs ------------------------
(***************************************************************************)
(* Proofs about VersionHandshake, for servers of any build of this source  *)
(* and clients that are newer in any fields: a reader that is out of step  *)
(* with the wire is never the reader of a request that is accepted.        *)
(***************************************************************************)
EXTENDS VersionHandshake, SequenceTheorems, TLAPS

-----------------------------------------------------------------------------
(***************************************************************************)
(* What the assumption says of the two builds of a connection.             *)
(***************************************************************************)
LEMMA Builds ==
  ASSUME server \in ServerBuilds, client \in ClientBuilds
  PROVE  /\ \A p \in Parts :
              /\ server[p] \in Seq(Nat) /\ Len(server[p]) \in Nat /\ Len(server[p]) >= 2
              /\ client[p] \in Seq(Nat) /\ Len(client[p]) \in Nat
              /\ Len(client[p]) >= Len(server[p])
              /\ server[p][1] = 1 /\ client[p][1] \in Nat \ {0}
              /\ client[p][1] = 1 => Len(client[p]) = Len(server[p])
         /\ \A s \in Services :
              Len(server[s]) = 2 /\ server[s][2] = 1 /\ client[s][2] \in Nat \ {0}
         /\ Len(server["core"]) = 5
<1>1. /\ server \in [Parts -> Versions] /\ client \in [Parts -> Versions]
  BY BuildAssumption
<1>2. ASSUME NEW p \in Parts
      PROVE  /\ server[p] \in Seq(Nat) /\ Len(server[p]) \in Nat /\ Len(server[p]) >= 2
             /\ client[p] \in Seq(Nat) /\ Len(client[p]) \in Nat
             /\ Len(client[p]) >= Len(server[p])
             /\ server[p][1] = 1 /\ client[p][1] \in Nat \ {0}
             /\ client[p][1] = 1 => Len(client[p]) = Len(server[p])
  <2>1. server[p] \in Versions /\ client[p] \in Versions  BY <1>1
  <2>2. /\ server[p] \in Seq(Nat) /\ Len(server[p]) \in Nat /\ Len(server[p]) >= 2
        /\ client[p] \in Seq(Nat) /\ Len(client[p]) \in Nat /\ Len(client[p]) >= 2
    BY <2>1, LenProperties DEF Versions
  <2>3. /\ Len(client[p]) >= Len(server[p])
        /\ server[p][1] = 1 /\ client[p][1] >= 1
        /\ client[p][1] = 1 => Len(client[p]) = Len(server[p])
    BY BuildAssumption
  <2>4. client[p][1] \in Nat
    <3>1. 1 \in 1..Len(client[p])  BY <2>2
    <3> QED  BY <2>2, <3>1, ElementOfSeq
  <2> QED  BY <2>2, <2>3, <2>4
<1>3. ASSUME NEW s \in Services
      PROVE  Len(server[s]) = 2 /\ server[s][2] = 1 /\ client[s][2] \in Nat \ {0}
  <2>1. s \in Parts /\ (s = "auth" \/ s = "main")  BY DEF Services, Parts
  <2>2. Len(server[s]) = 2 /\ server[s][2] = 1 /\ client[s][2] >= 1
    BY <2>1, BuildAssumption
  <2>3. client[s][2] \in Nat
    <3>1. 2 \in 1..Len(client[s])  BY <1>2, <2>1, <2>2
    <3>2. client[s] \in Seq(Nat)  BY <1>2, <2>1
    <3> QED  BY <3>1, <3>2, ElementOfSeq
  <2> QED  BY <2>2, <2>3
<1>4. Len(server["core"]) = 5  BY BuildAssumption
<1> QED  BY <1>2, <1>3, <1>4

(***************************************************************************)
(* A Version read from a wire that begins with it, and that it fills, is   *)
(* its first fields; what follows on the wire is left.                     *)
(***************************************************************************)
LEMMA ReadWhole ==
  ASSUME NEW a \in Seq(Nat), NEW w \in Seq(Nat), NEW n \in Nat \ {0}, n <= Len(a)
  PROVE  /\ SubSeq(a \o w, 1, n) = SubSeq(a, 1, n)
         /\ Len(a \o w) = Len(a) + Len(w)
         /\ n = Len(a) => SubSeq(a \o w, n + 1, Len(a \o w)) = w
<1>1. Len(a) \in Nat /\ Len(w) \in Nat  BY LenProperties
<1>2. 1 \in 1..Len(a) /\ n \in 1..Len(a)  BY <1>1
<1>3. SubSeq(a \o w, 1, n) = SubSeq(a, 1, n)  BY <1>2, SubSeqOfConcat1
<1>4. Len(a \o w) = Len(a) + Len(w)  BY ConcatProperties
<1>5. ASSUME n = Len(a) PROVE SubSeq(a \o w, n + 1, Len(a \o w)) = w
  <2>1. CASE w = <<>>
    <3>1. n + 1 \in Int /\ Len(a \o w) \in Int /\ Len(a \o w) < n + 1
      BY <1>1, <1>4, <1>5, <2>1, EmptySeq
    <3> QED  BY <2>1, <3>1, SubSeqEmpty
  <2>2. CASE w # <<>>
    <3>1. Len(w) \in Nat \ {0}  BY <2>2, EmptySeq
    <3>2. /\ n + 1 \in (Len(a) + 1)..(Len(a) + Len(w))
          /\ Len(a) + Len(w) \in (Len(a) + 1)..(Len(a) + Len(w))
      BY <1>1, <1>5, <3>1
    <3>3. SubSeq(a \o w, n + 1, Len(a) + Len(w))
            = SubSeq(w, (n + 1) - Len(a), (Len(a) + Len(w)) - Len(a))
      BY <3>2, SubSeqOfConcat2
    <3>4. (n + 1) - Len(a) = 1 /\ (Len(a) + Len(w)) - Len(a) = Len(w)
      BY <1>1, <1>5
    <3> QED  BY <1>4, <3>3, <3>4, SubSeqFull
  <2> QED  BY <2>1, <2>2
<1> QED  BY <1>3, <1>4, <1>5

(***************************************************************************)
(* Whatever is read, a Version keeps the number of its fields, the read    *)
(* ones are the wire's and the others the reader's own.                    *)
(***************************************************************************)
LEMMA DecodedFields ==
  ASSUME TypeOK, NEW p \in Parts, wire # <<>>, Taken(p) <= Len(wire)
  PROVE  /\ Taken(p) \in {1, Len(server[p])} /\ Taken(p) \in Nat \ {0}
         /\ Taken(p) <= Len(server[p])
         /\ Decoded(p) \in Seq(Nat) /\ Len(Decoded(p)) = Len(server[p])
         /\ \A i \in 1..Len(server[p]) :
              Decoded(p)[i] = IF i <= Taken(p) THEN wire[i] ELSE server[p][i]
         /\ Taken(p) = Len(server[p]) => Decoded(p) = SubSeq(wire, 1, Len(server[p]))
<1> DEFINE n == Taken(p)
           v == server[p]
<1>1. v \in Seq(Nat) /\ Len(v) \in Nat /\ Len(v) >= 2 /\ wire \in Seq(Nat)
  BY Builds DEF TypeOK
<1>2. n \in {1, Len(v)}  BY DEF Taken
<1>3. n \in Nat \ {0} /\ n <= Len(v) /\ n <= Len(wire) /\ Len(wire) \in Nat
  BY <1>1, <1>2, LenProperties
<1> DEFINE s == SubSeq(wire, 1, n)
           t == SubSeq(v, n + 1, Len(v))
<1>8. Decoded(p) = s \o t  BY DEF Decoded
<1> HIDE DEF n, v
<1>4. /\ s \in Seq(Nat) /\ Len(s) = n /\ \A i \in 1..n : s[i] = wire[i]
  <2>1. 1 \in Int /\ n \in Int  BY <1>3
  <2>2. \A i \in 1..n : wire[i] \in Nat
    <3> TAKE i \in 1..n
    <3>1. i \in 1..Len(wire)  BY <1>3
    <3> QED  BY <1>1, <3>1, ElementOfSeq
  <2>3. /\ s \in Seq(Nat)
        /\ Len(s) = IF 1 <= n THEN n - 1 + 1 ELSE 0
        /\ \A i \in 1..(n - 1 + 1) : s[i] = wire[1 + i - 1]
    BY <2>1, <2>2, SubSeqProperties
  <2>4. n - 1 + 1 = n /\ 1 <= n /\ \A i \in 1..n : 1 + i - 1 = i  BY <1>3
  <2>5. \A i \in 1..n : s[i] = wire[i]
    <3> TAKE i \in 1..n
    <3>1. s[i] = wire[1 + i - 1]  BY <2>3, <2>4
    <3> QED  BY <2>4, <3>1
  <2> QED  BY <2>3, <2>4, <2>5
<1>5. /\ t \in Seq(Nat) /\ Len(t) = Len(v) - n
      /\ \A i \in 1..(Len(v) - n) : t[i] = v[n + i]
  <2>1. n + 1 \in Int /\ Len(v) \in Int  BY <1>1, <1>3
  <2>2. \A i \in (n + 1)..Len(v) : v[i] \in Nat
    <3> TAKE i \in (n + 1)..Len(v)
    <3>1. i \in 1..Len(v)  BY <1>1, <1>3
    <3> QED  BY <1>1, <3>1, ElementOfSeq
  <2>3. /\ t \in Seq(Nat)
        /\ Len(t) = IF n + 1 <= Len(v) THEN Len(v) - (n + 1) + 1 ELSE 0
        /\ \A i \in 1..(Len(v) - (n + 1) + 1) : t[i] = v[(n + 1) + i - 1]
    BY <2>1, <2>2, SubSeqProperties
  <2>4. /\ Len(v) - (n + 1) + 1 = Len(v) - n
        /\ \A i \in 1..(Len(v) - n) : (n + 1) + i - 1 = n + i
    BY <1>1, <1>3
  <2>5. Len(t) = Len(v) - n  BY <1>1, <1>3, <2>3
  <2>6. \A i \in 1..(Len(v) - n) : t[i] = v[n + i]
    <3> TAKE i \in 1..(Len(v) - n)
    <3>1. t[i] = v[(n + 1) + i - 1]  BY <2>3, <2>4
    <3> QED  BY <2>4, <3>1
  <2> QED  BY <2>3, <2>5, <2>6
<1> HIDE DEF s, t
<1>6. /\ s \o t \in Seq(Nat)
      /\ Len(s \o t) = Len(s) + Len(t)
      /\ \A i \in 1..(Len(s) + Len(t)) :
           (s \o t)[i] = IF i <= Len(s) THEN s[i] ELSE t[i - Len(s)]
  BY <1>4, <1>5, ConcatProperties
<1>7. Len(s) + Len(t) = Len(v)  BY <1>1, <1>3, <1>4, <1>5
<1>9. ASSUME NEW i \in 1..Len(v)
      PROVE  (s \o t)[i] = IF i <= n THEN wire[i] ELSE v[i]
  <2>1. (s \o t)[i] = IF i <= n THEN s[i] ELSE t[i - n]  BY <1>4, <1>6, <1>7
  <2>2. CASE i <= n
    <3>1. i \in 1..n  BY <1>3, <2>2
    <3> QED  BY <1>4, <2>1, <2>2, <3>1
  <2>3. CASE ~ (i <= n)
    <3>1. i - n \in 1..(Len(v) - n) /\ n + (i - n) = i  BY <1>1, <1>3, <2>3
    <3>2. t[i - n] = v[n + (i - n)]  BY <1>5, <3>1
    <3> QED  BY <2>1, <2>3, <3>1, <3>2
  <2> QED  BY <2>2, <2>3
<1>10. ASSUME n = Len(v) PROVE s \o t = SubSeq(wire, 1, Len(v))
  <2>1. t = <<>>
    <3>1. Len(t) = 0  BY <1>1, <1>5, <1>10
    <3> QED  BY <1>5, <3>1, EmptySeq
  <2> QED  BY <1>4, <1>10, <2>1, ConcatEmptySeq DEF s
<1> QED  BY <1>2, <1>3, <1>6, <1>7, <1>8, <1>9, <1>10 DEF n, v

-----------------------------------------------------------------------------
(***************************************************************************)
(* The inductive invariant.  While a request is read, either all that was  *)
(* read is what the client wrote, and the wire has what it wrote next; or  *)
(* the server has a number of a newer client that operator<= will meet.    *)
(* In both cases there is enough on the wire.                              *)
(***************************************************************************)
InStep(p) == got[p] = SubSeq(client[p], 1, Len(server[p]))

\* Field i of p was read, and it is newer.
Newer(p, i) == got[p][i] = client[p][i] /\ client[p][i] > server[p][i]

Needed(parts) ==
  CASE parts = <<>>                  -> 0
    [] parts = <<"core">>            -> Len(server["core"])
    [] parts = <<"core", "utility">> -> Len(server["core"]) + Len(server["utility"])
    [] parts = <<"utility">>         -> Len(server["utility"])

Stopped ==
  /\ \/ toRead = <<>>
     \/ toRead = <<"utility">> /\ service = "main"
     \/ toRead = Rest(service)
  /\ \/ Newer(service, 1)
     \/ Newer(service, 2) /\ toRead = <<>>
     \/ Newer("core", 1) /\ toRead \in {<<>>, <<"utility">>}
  /\ Len(wire) >= Needed(toRead)

\* What the client wrote after its service's Version.
After(s) == IF s = "main" THEN client["core"] \o client["utility"] ELSE client["core"]

Reading ==
  \/ toRead = <<service>> /\ wire = Written(client, service)
  \/ toRead = Rest(service) /\ InStep(service) /\ wire = After(service)
  \/ /\ toRead = <<"utility">> /\ service = "main"
     /\ InStep("main") /\ InStep("core") /\ wire = client["utility"]
  \/ /\ toRead = <<>>
     /\ \A p \in Carried(service) : InStep(p)
     /\ Supported => wire = <<>>
  \/ Stopped

Verdict == IF accepted THEN Success ELSE Refused

Answering ==
  /\ accepted => \A p \in Carried(service) : InStep(p) /\ LessOrEqual(p)
  /\ pc \in {"idle", "reading"} => ~ accepted
  /\ pc \in {"answered", "done"} /\ Supported => accepted
  /\ pc = "answered" => response \in {<<>>, <<Verdict>>}
  /\ error # Unset => pc = "done" /\ error = Verdict

HandshakeInv ==
  /\ TypeOK
  /\ pc = "reading" => Reading
  /\ Answering

-----------------------------------------------------------------------------
\* The parts of requests are parts.
LEMMA PartsCarried ==
  ASSUME service \in Services
  PROVE  /\ service \in {"auth", "main"} /\ service \in Parts
         /\ "core" \in Parts /\ "utility" \in Parts /\ "main" \in Parts
         /\ service \in Carried(service) /\ "core" \in Carried(service)
         /\ Carried(service) \subseteq Parts
         /\ service = "main" => Carried(service) = {"main", "core", "utility"}
         /\ service = "auth" => Carried(service) = {"auth", "core"}
         /\ service # "core" /\ service # "utility"
BY DEF Services, Parts, Carried

(***************************************************************************)
(* A client one of whose numbers is newer is not supported, and            *)
(* operator<= tells.                                                       *)
(***************************************************************************)
LEMMA NewerIsRefused ==
  ASSUME TypeOK, NEW p \in Carried(service), NEW i \in {1, 2},
         <<p, i>> \notin Constants, Newer(p, i)
  PROVE  ~ Supported /\ ~ LessOrEqual(p)
<1>1. p \in Parts  BY PartsCarried DEF TypeOK
<1>2. server[p] \in Seq(Nat) /\ Len(server[p]) >= 2 /\ Len(server[p]) \in Nat
  BY <1>1, Builds DEF TypeOK
<1>3. i \in DOMAIN server[p] /\ i \in 1..Len(server[p])  BY <1>2
<1>4. server[p][i] \in Nat  BY <1>2, <1>3, ElementOfSeq
<1>5. client[p][i] \in Nat
  <2>1. client[p] \in Seq(Nat) /\ Len(client[p]) \in Nat /\ Len(client[p]) >= Len(server[p])
    BY <1>1, Builds DEF TypeOK
  <2>2. i \in 1..Len(client[p])  BY <1>2, <1>3, <2>1
  <2> QED  BY <2>1, <2>2, ElementOfSeq
<1>6. Operand(p, i) = client[p][i]  BY DEF Operand, Newer
<1>7. ~ (client[p][i] <= server[p][i])  BY <1>4, <1>5 DEF Newer
<1> QED  BY <1>3, <1>6, <1>7 DEF Supported, LessOrEqual

\* The fields of a part in step are the client's.
LEMMA FieldsInStep ==
  ASSUME TypeOK, NEW p \in Parts, InStep(p), NEW i \in 1..Len(server[p])
  PROVE  got[p][i] = client[p][i]
<1> DEFINE n == Len(server[p])
           a == client[p]
<1>1. a \in Seq(Nat) /\ n \in Nat /\ Len(a) \in Nat /\ n <= Len(a)
  BY Builds DEF TypeOK
<1>2. got[p] = SubSeq(a, 1, n) /\ i \in 1..n  BY DEF InStep
<1> HIDE DEF n, a
<1>3. \A j \in 1..n : a[j] \in Nat
  <2> TAKE j \in 1..n
  <2>1. j \in 1..Len(a)  BY <1>1
  <2> QED  BY <1>1, <2>1, ElementOfSeq
<1>4. \A j \in 1..(n - 1 + 1) : SubSeq(a, 1, n)[j] = a[1 + j - 1]
  <2>1. 1 \in Int /\ n \in Int  BY <1>1
  <2> QED  BY <1>3, <2>1, SubSeqProperties
<1>5. i \in 1..(n - 1 + 1) /\ 1 + i - 1 = i  BY <1>1, <1>2
<1>6. SubSeq(a, 1, n)[i] = a[1 + i - 1]  BY <1>4, <1>5
<1> QED  BY <1>2, <1>5, <1>6 DEF a

\* A request that is stopped is not accepted, and no supported client's.
LEMMA StoppedIsRefused ==
  ASSUME TypeOK, Stopped
  PROVE  ~ Supported /\ \E p \in Carried(service) : ~ LessOrEqual(p)
<1>1. /\ service \in {"auth", "main"}
      /\ service \in Carried(service) /\ "core" \in Carried(service)
  BY PartsCarried DEF TypeOK
<1>2. /\ <<service, 1>> \notin Constants /\ <<service, 2>> \notin Constants
      /\ <<"core", 1>> \notin Constants
  BY <1>1 DEF Constants
<1>3. CASE Newer(service, 1)  BY <1>1, <1>2, <1>3, NewerIsRefused
<1>4. CASE Newer(service, 2)  BY <1>1, <1>2, <1>4, NewerIsRefused
<1>5. CASE Newer("core", 1)   BY <1>1, <1>2, <1>5, NewerIsRefused
<1> QED  BY <1>3, <1>4, <1>5 DEF Stopped

\* What is at least a part of a sum is at least what the part is.
LEMMA AtLeast ==
  ASSUME NEW w \in Nat, NEW x \in Nat, NEW y \in Nat, NEW z \in Nat,
         w = x + y \/ w >= x + y, x >= z
  PROVE  w >= z
OBVIOUS

(***************************************************************************)
(* There is enough on the wire for what the server reads next.             *)
(***************************************************************************)
LEMMA EnoughToRead ==
  ASSUME TypeOK, Reading, toRead # <<>>
  PROVE  /\ Head(toRead) \in Parts
         /\ wire # <<>> /\ Len(wire) \in Nat /\ wire \in Seq(Nat)
         /\ Len(server[Head(toRead)]) <= Len(wire)
         /\ Taken(Head(toRead)) <= Len(wire)
<1>1. /\ service \in {"auth", "main"} /\ service \in Parts
      /\ "core" \in Parts /\ "utility" \in Parts /\ "main" \in Parts
  BY PartsCarried DEF TypeOK
<1>2. \A p \in Parts :
        /\ server[p] \in Seq(Nat) /\ Len(server[p]) \in Nat /\ Len(server[p]) >= 2
        /\ client[p] \in Seq(Nat) /\ Len(client[p]) \in Nat
        /\ Len(client[p]) >= Len(server[p])
  BY Builds DEF TypeOK
<1>9. \A p \in {"core", "utility", service} :
        /\ Len(server[p]) \in Nat /\ Len(client[p]) \in Nat
        /\ Len(client[p]) >= Len(server[p]) /\ Len(server[p]) >= 2
  BY <1>1, <1>2
<1>10. /\ Len(server["core"]) \in Nat /\ Len(client["core"]) \in Nat
       /\ Len(server["utility"]) \in Nat /\ Len(client["utility"]) \in Nat
       /\ Len(server[service]) \in Nat /\ Len(client[service]) \in Nat
       /\ Len(client["core"]) >= Len(server["core"])
       /\ Len(client["utility"]) >= Len(server["utility"])
       /\ Len(client[service]) >= Len(server[service])
  BY <1>9
<1>3. wire \in Seq(Nat) /\ Len(wire) \in Nat  BY LenProperties DEF TypeOK
<1>4. /\ Rest(service) = IF service = "main" THEN <<"core", "utility">> ELSE <<"core">>
  BY DEF Rest
<1>5. Head(toRead) \in Parts /\ Len(server[Head(toRead)]) <= Len(wire)
  <2>1. CASE toRead = <<service>> /\ wire = Written(client, service)
    <3>1. Head(toRead) = service  BY <2>1
    <3>2. CASE service = "main"
      <4>1. wire = client["main"] \o client["core"] \o client["utility"]
        BY <2>1, <3>2 DEF Written
      <4>2. /\ client["main"] \o client["core"] \in Seq(Nat)
            /\ Len(client["main"] \o client["core"]) = Len(client["main"]) + Len(client["core"])
        BY <1>1, <1>2, ConcatProperties
      <4>3. Len(wire) = Len(client["main"] \o client["core"]) + Len(client["utility"])
        BY <1>1, <1>2, <4>1, <4>2, ConcatProperties
      <4>5. /\ Len(client["main"] \o client["core"]) \in Nat
            /\ Len(client["main"] \o client["core"]) >= Len(server["main"])
        <5>1. /\ Len(client["main"] \o client["core"]) \in Nat
              /\ Len(client["main"]) \in Nat /\ Len(server["main"]) \in Nat
              /\ Len(client["main"]) >= Len(server["main"])
          BY <1>10, <3>2, <4>2, LenProperties
        <5> QED  BY <1>10, <4>2, <5>1, AtLeast
      <4>4. Len(wire) >= Len(server[service])
        BY <1>3, <1>10, <3>2, <4>2, <4>3, <4>5, AtLeast
      <4> QED  BY <1>1, <3>1, <4>4
    <3>3. CASE service = "auth"
      <4>1. wire = client["auth"] \o client["core"]  BY <2>1, <3>3 DEF Written
      <4>2. Len(wire) = Len(client["auth"]) + Len(client["core"])
        BY <1>1, <1>2, <3>3, <4>1, ConcatProperties
      <4>3. Len(wire) >= Len(server[service])
        BY <1>3, <1>10, <3>3, <4>2, AtLeast
      <4> QED  BY <1>1, <3>1, <4>3
    <3> QED  BY <1>1, <3>2, <3>3
  <2>2. CASE toRead = Rest(service) /\ wire = After(service)
    <3>1. Head(toRead) = "core"  BY <1>4, <2>2
    <3>2. Len(wire) >= Len(client["core"])
      <4>1. CASE service = "main"
        <5>1. wire = client["core"] \o client["utility"]  BY <2>2, <4>1 DEF After
        <5>2. Len(wire) = Len(client["core"]) + Len(client["utility"])
          BY <1>1, <1>2, <5>1, ConcatProperties
        <5>3. Len(client["core"]) >= Len(client["core"])  BY <1>10
        <5> QED  BY <1>3, <1>10, <5>2, <5>3, AtLeast
      <4>2. CASE service # "main"
        BY <1>10, <2>2, <4>2 DEF After
      <4> QED  BY <4>1, <4>2
    <3>3. Len(wire) >= Len(server["core"])  BY <1>3, <1>10, <3>2
    <3> QED  BY <1>1, <3>1, <3>3
  <2>3. CASE toRead = <<"utility">> /\ wire = client["utility"]
    BY <1>1, <1>2, <2>3
  <2>4. CASE Stopped
    <3>1. toRead = <<"utility">> \/ toRead = Rest(service)  BY <2>4 DEF Stopped
    <3>2. CASE toRead = <<"utility">>
      <4>1. Needed(toRead) = Len(server["utility"])  BY <3>2 DEF Needed
      <4> QED  BY <1>1, <1>2, <2>4, <3>2, <4>1 DEF Stopped
    <3>3. CASE toRead = <<"core">>
      <4>1. Needed(toRead) = Len(server["core"])  BY <3>3 DEF Needed
      <4> QED  BY <1>1, <1>2, <2>4, <3>3, <4>1 DEF Stopped
    <3>4. CASE toRead = <<"core", "utility">>
      <4>1. Needed(toRead) = Len(server["core"]) + Len(server["utility"])
        BY <3>4 DEF Needed
      <4>2. Len(wire) >= Len(server["core"]) + Len(server["utility"])
        BY <2>4, <4>1 DEF Stopped
      <4>5. Len(server["core"]) >= Len(server["core"])  BY <1>10
      <4>3. Len(wire) >= Len(server["core"])  BY <1>3, <1>10, <4>2, <4>5, AtLeast
      <4>4. Head(toRead) = "core"  BY <3>4
      <4> QED  BY <1>1, <4>3, <4>4
    <3> QED  BY <1>4, <3>1, <3>2, <3>3, <3>4
  <2> QED  BY <2>1, <2>2, <2>3, <2>4 DEF Reading
<1>6. Len(wire) >= 2  BY <1>2, <1>3, <1>5
<1>7. wire # <<>>  BY <1>6, EmptySeq
<1>8. Taken(Head(toRead)) \in {1, Len(server[Head(toRead)])}  BY DEF Taken
<1> QED  BY <1>3, <1>5, <1>6, <1>7, <1>8

-----------------------------------------------------------------------------
LEMMA ThreeParts ==
  ASSUME NEW a \in Seq(Nat), NEW b \in Seq(Nat), NEW c \in Seq(Nat)
  PROVE  (a \o b) \o c = a \o (b \o c)
BY ConcatAssociative

\* A request is its service's Version and what comes after it.
LEMMA Request ==
  ASSUME TypeOK
  PROVE  /\ Written(client, service) = client[service] \o After(service)
         /\ After(service) \in Seq(Nat)
         /\ Len(After(service)) \in Nat /\ Needed(Rest(service)) \in Nat
         /\ Len(After(service)) >= Needed(Rest(service))
<1>1. /\ service \in {"auth", "main"} /\ service \in Parts
      /\ "core" \in Parts /\ "utility" \in Parts /\ "main" \in Parts
  BY PartsCarried DEF TypeOK
<1>2. \A p \in Parts :
        /\ Len(server[p]) \in Nat
        /\ client[p] \in Seq(Nat) /\ Len(client[p]) \in Nat
        /\ Len(client[p]) >= Len(server[p])
  BY Builds DEF TypeOK
<1>3. CASE service = "main"
  <2>1. After(service) = client["core"] \o client["utility"]  BY <1>3 DEF After
  <2>2. /\ client["core"] \o client["utility"] \in Seq(Nat)
        /\ Len(client["core"] \o client["utility"])
             = Len(client["core"]) + Len(client["utility"])
    BY <1>1, <1>2, ConcatProperties
  <2>3. Written(client, service) = (client["main"] \o client["core"]) \o client["utility"]
    BY <1>3 DEF Written
  <2>4. Written(client, service) = client["main"] \o (client["core"] \o client["utility"])
    <3>1. /\ client["main"] \in Seq(Nat) /\ client["core"] \in Seq(Nat)
          /\ client["utility"] \in Seq(Nat)
      BY <1>1, <1>2
    <3>2. (client["main"] \o client["core"]) \o client["utility"]
            = client["main"] \o (client["core"] \o client["utility"])
      BY <3>1, ThreeParts, Zenon
    <3> QED  BY <2>3, <3>2
  <2>5. Needed(Rest(service)) = Len(server["core"]) + Len(server["utility"])
    BY <1>3 DEF Needed, Rest
  <2>6. /\ Len(server["core"]) \in Nat /\ Len(server["utility"]) \in Nat
        /\ Len(client["core"]) \in Nat /\ Len(client["utility"]) \in Nat
        /\ Len(client["core"]) >= Len(server["core"])
        /\ Len(client["utility"]) >= Len(server["utility"])
    BY <1>1, <1>2
  <2> HIDE DEF After
  <2>7. \A a, b, c, d \in Nat : a >= c /\ b >= d => a + b >= c + d /\ a + b \in Nat /\ c + d \in Nat
    OBVIOUS
  <2>8. /\ Len(client["core"]) + Len(client["utility"])
             >= Len(server["core"]) + Len(server["utility"])
        /\ Len(client["core"]) + Len(client["utility"]) \in Nat
        /\ Len(server["core"]) + Len(server["utility"]) \in Nat
    BY <2>6, <2>7
  <2> QED  BY <1>3, <2>1, <2>2, <2>4, <2>5, <2>8
<1>4. CASE service = "auth"
  <2>1. After(service) = client["core"]  BY <1>4 DEF After
  <2>2. Written(client, service) = client["auth"] \o client["core"]
    BY <1>4 DEF Written
  <2>3. Needed(Rest(service)) = Len(server["core"])
    BY <1>4 DEF Needed, Rest
  <2> QED  BY <1>1, <1>2, <1>4, <2>1, <2>2, <2>3
<1> QED  BY <1>1, <1>3, <1>4

\* The value that is read next is the first one on the wire.
LEMMA HeadIsFirst ==
  ASSUME NEW s \in Seq(Nat), s # <<>>
  PROVE  Head(s) = s[1]
OBVIOUS

(***************************************************************************)
(* One Version read from a request that is in step: the server has what    *)
(* the client wrote and the wire what follows, or a newer version_ and all *)
(* of the wire but one value.                                              *)
(***************************************************************************)
LEMMA ReadInStep ==
  ASSUME TypeOK, NEW p \in Parts, NEW w \in Seq(Nat), wire = client[p] \o w
  PROVE  /\ Len(wire) = Len(client[p]) + Len(w) /\ wire # <<>> /\ Taken(p) <= Len(wire)
         /\ client[p][1] = 1 =>
              /\ Decoded(p) = SubSeq(client[p], 1, Len(server[p]))
              /\ SubSeq(wire, Taken(p) + 1, Len(wire)) = w
         /\ client[p][1] # 1 /\ p # "utility" =>
              /\ Taken(p) = 1
              /\ Decoded(p)[1] = client[p][1] /\ client[p][1] > server[p][1]
              /\ Decoded(p)[2] = server[p][2]
<1>1. /\ server[p] \in Seq(Nat) /\ Len(server[p]) \in Nat /\ Len(server[p]) >= 2
      /\ client[p] \in Seq(Nat) /\ Len(client[p]) \in Nat
      /\ Len(client[p]) >= Len(server[p])
      /\ server[p][1] = 1 /\ client[p][1] \in Nat \ {0}
      /\ client[p][1] = 1 => Len(client[p]) = Len(server[p])
  BY Builds DEF TypeOK
<1>2. /\ Len(wire) = Len(client[p]) + Len(w) /\ Len(w) \in Nat
      /\ \A i \in 1..(Len(client[p]) + Len(w)) :
           wire[i] = IF i <= Len(client[p]) THEN client[p][i] ELSE w[i - Len(client[p])]
  BY <1>1, ConcatProperties, LenProperties
<1>3. wire \in Seq(Nat) /\ Len(wire) >= 2 /\ Len(wire) \in Nat /\ Len(wire) >= Len(server[p])
  <2>1. \A a, b, c, d \in Nat : a = b + c /\ b >= d /\ d >= 2 => a >= d /\ a >= 2
    OBVIOUS
  <2>2. Len(wire) \in Nat /\ wire \in Seq(Nat)  BY LenProperties DEF TypeOK
  <2> QED  BY <1>1, <1>2, <2>1, <2>2
<1>4. wire # <<>>  BY <1>3, EmptySeq
<1>5. Head(wire) = wire[1] /\ wire[1] = client[p][1]
  <2>0. \A a, b, c \in Nat : a >= b /\ b >= 2 => 1 \in 1..(a + c) /\ 1 <= a
    OBVIOUS
  <2>1. 1 \in 1..(Len(client[p]) + Len(w)) /\ 1 <= Len(client[p])
    BY <1>1, <1>2, <2>0
  <2>2. wire[1] = client[p][1]  BY <1>2, <2>1
  <2>3. Head(wire) = wire[1]  BY <1>3, <1>4, HeadIsFirst
  <2> QED  BY <2>2, <2>3
<1>6. Taken(p) \in {1, Len(server[p])}  BY DEF Taken
<1>7. Taken(p) <= Len(wire)  BY <1>1, <1>3, <1>6
<1>8. ASSUME client[p][1] = 1
      PROVE  /\ Decoded(p) = SubSeq(client[p], 1, Len(server[p]))
             /\ SubSeq(wire, Taken(p) + 1, Len(wire)) = w
  <2>1. Taken(p) = Len(server[p])
    BY <1>1, <1>5, <1>8 DEF Taken, ReadsFields
  <2>2. Decoded(p) = SubSeq(wire, 1, Len(server[p]))
    BY <1>4, <1>7, <2>1, DecodedFields
  <2>3. Len(server[p]) \in Nat \ {0} /\ Len(server[p]) = Len(client[p])
    BY <1>1, <1>8
  <2>4. /\ SubSeq(client[p] \o w, 1, Len(server[p])) = SubSeq(client[p], 1, Len(server[p]))
        /\ SubSeq(client[p] \o w, Len(server[p]) + 1, Len(client[p] \o w)) = w
    <3> DEFINE a == client[p]
               n == Len(server[p])
    <3>1. a \in Seq(Nat) /\ n \in Nat \ {0} /\ n = Len(a) /\ n <= Len(a)
      BY <1>1, <2>3
    <3> HIDE DEF a, n
    <3>2. /\ SubSeq(a \o w, 1, n) = SubSeq(a, 1, n)
          /\ SubSeq(a \o w, n + 1, Len(a \o w)) = w
      BY <3>1, ReadWhole
    <3> QED  BY <3>2 DEF a, n
  <2> QED  BY <2>1, <2>2, <2>4
<1>9. ASSUME client[p][1] # 1, p # "utility"
      PROVE  /\ Taken(p) = 1
             /\ Decoded(p)[1] = client[p][1] /\ client[p][1] > server[p][1]
             /\ Decoded(p)[2] = server[p][2]
  <2>1. Taken(p) = 1  BY <1>1, <1>5, <1>9 DEF Taken, ReadsFields
  <2>2. \A i \in 1..Len(server[p]) :
          Decoded(p)[i] = IF i <= Taken(p) THEN wire[i] ELSE server[p][i]
    BY <1>4, <1>7, DecodedFields
  <2>3. 1 \in 1..Len(server[p]) /\ 2 \in 1..Len(server[p])  BY <1>1
  <2>4. client[p][1] > server[p][1]
    <3>1. \A a \in Nat \ {0} : a # 1 => a > 1  OBVIOUS
    <3>2. client[p][1] > 1  BY <1>1, <1>9, <3>1
    <3> QED  BY <1>1, <3>2
  <2>5. Decoded(p)[1] = IF 1 <= 1 THEN wire[1] ELSE server[p][1]
    BY <2>1, <2>2, <2>3
  <2>6. Decoded(p)[2] = IF 2 <= 1 THEN wire[2] ELSE server[p][2]
    BY <2>1, <2>2, <2>3
  <2>7. Decoded(p)[1] = client[p][1]  BY <1>5, <2>5
  <2>8. Decoded(p)[2] = server[p][2]  BY <2>6
  <2> QED  BY <2>1, <2>4, <2>7, <2>8
<1> QED  BY <1>2, <1>4, <1>7, <1>8, <1>9

(***************************************************************************)
(* Reading one Version changes that Version only and takes from the wire   *)
(* what it reads; the types are kept.                                      *)
(***************************************************************************)
LEMMA ReadsOne ==
  ASSUME TypeOK, Reading, ReadVersion
  PROVE  LET p == Head(toRead)
         IN  /\ p \in Parts
             /\ got'[p] = Decoded(p) /\ \A q \in Parts \ {p} : got'[q] = got[q]
             /\ wire' = SubSeq(wire, Taken(p) + 1, Len(wire))
             /\ wire' \in Seq(Nat) /\ Len(wire') = Len(wire) - Taken(p)
             /\ Len(wire) \in Nat /\ Taken(p) \in Nat \ {0}
             /\ Taken(p) <= Len(server[p]) /\ Taken(p) <= Len(wire)
             /\ UNCHANGED <<server, client, service, pc, accepted, response, error>>
             /\ (toRead = <<service>>
                   /\ toRead' = IF got'[p][2] = server[p][2] THEN Rest(p) ELSE <<>>)
                \/ (p # service /\ toRead' = Tail(toRead))
             /\ TypeOK'
<1> DEFINE p == Head(toRead)
           n == Taken(p)
<1>1. /\ pc = "reading" /\ toRead # <<>> /\ wire # <<>> /\ n <= Len(wire)
      /\ got' = [got EXCEPT ![p] = Decoded(p)]
      /\ wire' = SubSeq(wire, n + 1, Len(wire))
      /\ toRead' = IF p = service
                   THEN IF got'[p][2] = server[p][2] THEN Rest(p) ELSE <<>>
                   ELSE Tail(toRead)
      /\ UNCHANGED <<server, client, service, pc, accepted, response, error, sessions>>
  BY DEF ReadVersion
<1>2. /\ p \in Parts /\ wire \in Seq(Nat) /\ Len(wire) \in Nat
  BY <1>1, EnoughToRead
<1>3. /\ n \in Nat \ {0} /\ n <= Len(server[p])
      /\ Decoded(p) \in Seq(Nat) /\ Len(Decoded(p)) = Len(server[p])
  BY <1>1, <1>2, DecodedFields
<1> HIDE DEF n, p
<1>4. /\ got \in [Parts -> Versions] /\ \A q \in Parts : Len(got[q]) = Len(server[q])
  BY DEF TypeOK
<1>5. /\ got'[p] = Decoded(p) /\ \A q \in Parts \ {p} : got'[q] = got[q]
  BY <1>1, <1>2, <1>4
<1>6. /\ got' \in [Parts -> Versions] /\ \A q \in Parts : Len(got'[q]) = Len(server[q])
  <2>1. Decoded(p) \in Versions
    <3>1. Len(server[p]) >= 2  BY <1>2, Builds DEF TypeOK
    <3> QED  BY <1>3, <3>1 DEF Versions
  <2> QED  BY <1>1, <1>2, <1>3, <1>4, <2>1
<1>7. wire' \in Seq(Nat) /\ Len(wire') = Len(wire) - n
  <2>1. n + 1 \in Int /\ Len(wire) \in Int  BY <1>2, <1>3
  <2>2. \A i \in (n + 1)..Len(wire) : wire[i] \in Nat
    <3> TAKE i \in (n + 1)..Len(wire)
    <3>1. i \in 1..Len(wire)  BY <1>2, <1>3
    <3> QED  BY <1>2, <3>1, ElementOfSeq
  <2>3. /\ wire' \in Seq(Nat)
        /\ Len(wire') = IF n + 1 <= Len(wire) THEN Len(wire) - (n + 1) + 1 ELSE 0
    BY <1>1, <2>1, <2>2, SubSeqProperties
  <2>4. n <= Len(wire)  BY <1>1
  <2>5. \A a, b \in Nat : a <= b =>
          (IF a + 1 <= b THEN b - (a + 1) + 1 ELSE 0) = b - a
    OBVIOUS
  <2> QED  BY <1>2, <1>3, <2>3, <2>4, <2>5
<1>8. service \in {"auth", "main"} /\ service # "core" /\ service # "utility"
  BY PartsCarried DEF TypeOK
<1>9. toRead \in {<<service>>, <<"core">>, <<"core", "utility">>, <<"utility">>}
  BY <1>1 DEF Reading, Stopped, Rest
<1>10. (toRead = <<service>> /\ p = service) \/ (toRead # <<service>> /\ p # service)
  BY <1>8, <1>9 DEF p
<1>11. toRead' \in {<<>>, <<"core">>, <<"core", "utility">>, <<"utility">>}
  <2>1. Rest(service) \in {<<"core">>, <<"core", "utility">>}  BY DEF Rest
  <2>2. CASE toRead = <<service>>
    BY <1>1, <1>10, <2>1, <2>2
  <2>3. CASE toRead # <<service>>
    <3>1. toRead' = Tail(toRead)  BY <1>1, <1>10, <2>3
    <3>2. /\ Tail(<<"core">>) = <<>> /\ Tail(<<"utility">>) = <<>>
          /\ Tail(<<"core", "utility">>) = <<"utility">>
      OBVIOUS
    <3> QED  BY <1>9, <2>3, <3>1, <3>2
  <2> QED  BY <2>2, <2>3
<1>12. TypeOK'
  BY <1>1, <1>6, <1>7, <1>11 DEF TypeOK
<1>13. (toRead = <<service>>
          /\ toRead' = IF got'[p][2] = server[p][2] THEN Rest(p) ELSE <<>>)
       \/ (p # service /\ toRead' = Tail(toRead))
  BY <1>1, <1>10
<1> QED  BY <1>1, <1>2, <1>3, <1>5, <1>7, <1>12, <1>13 DEF n, p

(***************************************************************************)
(* Reading the service's own Version: a client of the same version_ and    *)
(* init_request leaves the server in step, any other stops it.             *)
(***************************************************************************)
LEMMA ReadsService ==
  ASSUME TypeOK, Reading, ReadVersion, toRead = <<service>>
  PROVE  Reading'
<1>1. /\ service \in {"auth", "main"} /\ service \in Parts /\ service \in Services
      /\ service # "core" /\ service # "utility"
  BY PartsCarried DEF TypeOK
<1>2. Head(toRead) = service  OBVIOUS
<1>3. /\ got'[service] = Decoded(service)
      /\ wire' = SubSeq(wire, Taken(service) + 1, Len(wire))
      /\ wire' \in Seq(Nat) /\ Len(wire') = Len(wire) - Taken(service)
      /\ UNCHANGED <<server, client, service>>
      /\ toRead' = IF got'[service][2] = server[service][2] THEN Rest(service) ELSE <<>>
  BY <1>2, ReadsOne
<1>4. wire = client[service] \o After(service)
  <2>1. toRead # Rest(service) /\ toRead # <<"utility">> /\ toRead # <<>>
    BY <1>1 DEF Rest
  <2> QED  BY <2>1, Request DEF Reading, Stopped
<1>5. /\ Len(server[service]) = 2 /\ server[service][1] = 1 /\ server[service][2] = 1
      /\ client[service][1] \in Nat \ {0} /\ client[service][2] \in Nat \ {0}
      /\ client[service] \in Seq(Nat)
      /\ Len(client[service]) \in Nat /\ Len(client[service]) >= 2
      /\ client[service][1] = 1 => Len(client[service]) = 2
  BY <1>1, Builds DEF TypeOK
<1>6. /\ After(service) \in Seq(Nat) /\ Len(After(service)) \in Nat
      /\ Needed(Rest(service)) \in Nat
      /\ Len(After(service)) >= Needed(Rest(service))
  BY Request
<1>7. /\ Len(wire) = Len(client[service]) + Len(After(service))
      /\ client[service][1] = 1 =>
           /\ Decoded(service) = SubSeq(client[service], 1, 2)
           /\ SubSeq(wire, Taken(service) + 1, Len(wire)) = After(service)
      /\ client[service][1] # 1 =>
           /\ Taken(service) = 1
           /\ Decoded(service)[1] = client[service][1]
           /\ client[service][1] > server[service][1]
           /\ Decoded(service)[2] = server[service][2]
  BY <1>1, <1>4, <1>5, <1>6, ReadInStep
<1>8. CASE client[service][1] = 1
  <2>1. got'[service] = client[service]
    <3>1. SubSeq(client[service], 1, 2) = client[service]
      BY <1>5, <1>8, SubSeqFull
    <3> QED  BY <1>3, <1>7, <1>8, <3>1
  <2>2. wire' = After(service)  BY <1>3, <1>7, <1>8
  <2>3. CASE client[service][2] = 1
    <3>1. toRead' = Rest(service)  BY <1>3, <1>5, <2>1, <2>3
    <3>2. got'[service] = SubSeq(client[service], 1, Len(server[service]))
      BY <1>3, <1>5, <1>7, <1>8
    <3>3. (toRead = Rest(service) /\ InStep(service) /\ wire = After(service))'
      BY <1>3, <2>2, <3>1, <3>2 DEF Rest, InStep, After
    <3> QED  BY <3>3 DEF Reading
  <2>4. CASE client[service][2] # 1
    <3>1. toRead' = <<>>  BY <1>3, <1>5, <2>1, <2>4
    <3>2. \A a \in Nat \ {0} : a # 1 => a > 1  OBVIOUS
    <3>3. client[service][2] > server[service][2]  BY <1>5, <2>4, <3>2
    <3>4. Newer(service, 2)'  BY <1>3, <2>1, <3>3 DEF Newer
    <3>5. Needed(<<>>) = 0  BY DEF Needed
    <3>6. Needed(toRead)' = 0  BY <3>1, <3>5 DEF Needed
    <3>7. Len(wire') >= 0  BY <1>3, LenProperties
    <3>8. Stopped'  BY <3>1, <3>4, <3>6, <3>7 DEF Stopped
    <3> QED  BY <3>8 DEF Reading
  <2> QED  BY <2>3, <2>4
<1>9. CASE client[service][1] # 1
  <2>1. toRead' = Rest(service)  BY <1>3, <1>7, <1>9
  <2>2. Newer(service, 1)'  BY <1>3, <1>7, <1>9 DEF Newer
  <2>3. Len(wire') >= Needed(Rest(service))
    <3>1. Len(wire') = Len(wire) - 1  BY <1>3, <1>7, <1>9
    <3>2. \A a, b, c, d, e \in Nat :
            d = a + b /\ a >= 2 /\ b >= c => d - 1 >= c
      OBVIOUS
    <3>3. Len(wire) \in Nat  BY LenProperties DEF TypeOK
    <3> QED  BY <1>5, <1>6, <1>7, <3>1, <3>2, <3>3
  <2>4. toRead' = (Rest(service))'  BY <1>3, <2>1 DEF Rest
  <2>5. (Len(wire) >= Needed(toRead))'
    BY <1>1, <1>3, <2>1, <2>3 DEF Needed, Rest
  <2>6. Stopped'  BY <2>2, <2>4, <2>5 DEF Stopped
  <2> QED  BY <2>6 DEF Reading
<1> QED  BY <1>8, <1>9

(***************************************************************************)
(* Reading core's Version after the service's: what was in step stays so,  *)
(* or the client is newer and the server is stopped; what was stopped is.  *)
(***************************************************************************)
LEMMA ReadsCore ==
  ASSUME TypeOK, Reading, ReadVersion, toRead = Rest(service)
  PROVE  Reading'
<1>1. /\ service \in {"auth", "main"} /\ service \in Parts /\ service \in Services
      /\ service # "core" /\ service # "utility"
      /\ "core" \in Parts /\ "utility" \in Parts
      /\ service = "main" => Carried(service) = {"main", "core", "utility"}
      /\ service = "auth" => Carried(service) = {"auth", "core"}
  BY PartsCarried DEF TypeOK
<1>2. /\ Head(toRead) = "core"
      /\ service = "main" => Tail(toRead) = <<"utility">> /\ toRead = <<"core", "utility">>
      /\ service = "auth" => Tail(toRead) = <<>> /\ toRead = <<"core">>
  BY <1>1 DEF Rest
<1>3. /\ got'["core"] = Decoded("core") /\ got'[service] = got[service]
      /\ wire' = SubSeq(wire, Taken("core") + 1, Len(wire))
      /\ wire' \in Seq(Nat) /\ Len(wire') = Len(wire) - Taken("core")
      /\ Len(wire) \in Nat /\ Taken("core") \in Nat \ {0}
      /\ Taken("core") <= Len(server["core"])
      /\ UNCHANGED <<server, client, service>>
      /\ toRead' = Tail(toRead)
  <2>1. toRead # <<service>>  BY <1>1 DEF Rest
  <2>2. service \in Parts \ {"core"}  BY <1>1
  <2> QED  BY <1>2, <2>1, <2>2, ReadsOne
<1>4. /\ service = "main" => toRead' = <<"utility">>
      /\ service = "auth" => toRead' = <<>>
  BY <1>2, <1>3
<1>5. \A p \in {"core", "utility"} :
        /\ Len(server[p]) \in Nat /\ server[p][1] = 1
        /\ client[p] \in Seq(Nat) /\ Len(client[p]) \in Nat
        /\ Len(client[p]) >= Len(server[p]) /\ Len(client[p]) >= 1
        /\ client[p][1] \in Nat \ {0}
  <2> TAKE p \in {"core", "utility"}
  <2>1. p \in Parts  BY <1>1
  <2>2. /\ Len(server[p]) \in Nat /\ Len(server[p]) >= 2 /\ server[p][1] = 1
        /\ client[p] \in Seq(Nat) /\ Len(client[p]) \in Nat
        /\ Len(client[p]) >= Len(server[p])
        /\ client[p][1] \in Nat \ {0}
    BY <2>1, Builds DEF TypeOK
  <2>3. \A a, b \in Nat : a >= b /\ b >= 2 => a >= 1  OBVIOUS
  <2> QED  BY <2>2, <2>3
<1>6. /\ Needed(<<>>) = 0
      /\ Needed(<<"utility">>) = Len(server["utility"])
      /\ Needed(<<"core">>) = Len(server["core"])
      /\ Needed(<<"core", "utility">>) = Len(server["core"]) + Len(server["utility"])
  BY DEF Needed
<1>7. Needed(toRead)' = Needed(toRead')
  BY <1>1, <1>3, <1>4 DEF Needed
<1>8. CASE InStep(service) /\ wire = After(service)
  <2>1. PICK w \in Seq(Nat) :
          /\ wire = client["core"] \o w
          /\ service = "main" => w = client["utility"]
          /\ service = "auth" => w = <<>>
    <3>1. CASE service = "main"
      BY <1>5, <1>8, <3>1 DEF After
    <3>2. CASE service = "auth"
      <4>1. wire = client["core"]  BY <1>8, <3>2 DEF After
      <4>2. client["core"] \o <<>> = client["core"]  BY <1>5, ConcatEmptySeq
      <4>3. <<>> \in Seq(Nat)  BY EmptySeq
      <4> QED  BY <3>2, <4>1, <4>2, <4>3
    <3> QED  BY <1>1, <3>1, <3>2
  <2>2. /\ Len(wire) = Len(client["core"]) + Len(w)
        /\ client["core"][1] = 1 =>
             /\ Decoded("core") = SubSeq(client["core"], 1, Len(server["core"]))
             /\ SubSeq(wire, Taken("core") + 1, Len(wire)) = w
        /\ client["core"][1] # 1 =>
             /\ Taken("core") = 1
             /\ Decoded("core")[1] = client["core"][1]
             /\ client["core"][1] > server["core"][1]
    BY <1>1, <2>1, ReadInStep
  <2>3. InStep(service)'  BY <1>3, <1>8 DEF InStep
  <2>4. CASE client["core"][1] = 1
    <3>1. InStep("core")'  BY <1>3, <2>2, <2>4 DEF InStep
    <3>2. wire' = w  BY <1>3, <2>2, <2>4
    <3>3. CASE service = "main"
      <4>1. (/\ toRead = <<"utility">> /\ service = "main"
             /\ InStep("main") /\ InStep("core") /\ wire = client["utility"])'
        BY <1>3, <1>4, <2>1, <2>3, <3>1, <3>2, <3>3 DEF InStep
      <4> QED  BY <4>1 DEF Reading
    <3>4. CASE service = "auth"
      <4>1. Carried(service)' = {"auth", "core"}  BY <1>1, <1>3, <3>4 DEF Carried
      <4>2. (\A p \in Carried(service) : InStep(p))'
        BY <1>3, <2>3, <3>1, <3>4, <4>1 DEF InStep
      <4>3. toRead' = <<>> /\ wire' = <<>>  BY <1>4, <2>1, <3>2, <3>4
      <4> QED  BY <4>2, <4>3 DEF Reading
    <3> QED  BY <1>1, <3>3, <3>4
  <2>5. CASE client["core"][1] # 1
    <3>1. Newer("core", 1)'  BY <1>3, <2>2, <2>5 DEF Newer
    <3>2. Len(wire') >= Needed(toRead')
      <4>1. Len(w) \in Nat  BY LenProperties
      <4>2. Len(wire') = Len(wire) - 1  BY <1>3, <2>2, <2>5
      <4>3. \A a, b, c \in Nat : c = a + b /\ a >= 1 => c - 1 >= b /\ c - 1 >= 0
        OBVIOUS
      <4>4. Len(wire') >= Len(w) /\ Len(wire') >= 0
        <5>1. Len(client["core"]) \in Nat /\ Len(client["core"]) >= 1  BY <1>5
        <5>2. Len(wire) \in Nat /\ Len(wire) = Len(client["core"]) + Len(w)
          BY <1>3, <2>2
        <5>3. Len(wire) - 1 >= Len(w) /\ Len(wire) - 1 >= 0
          BY <4>1, <4>3, <5>1, <5>2
        <5> QED  BY <4>2, <5>3
      <4>5. CASE service = "main"
        <5>1. w = client["utility"] /\ toRead' = <<"utility">>  BY <1>4, <2>1, <4>5
        <5>2. Len(client["utility"]) >= Len(server["utility"])  BY <1>5
        <5>3. \A a, b, c \in Nat : a >= b /\ b >= c => a >= c  OBVIOUS
        <5>4. Len(wire') \in Nat  BY <1>3, LenProperties
        <5> QED  BY <1>5, <1>6, <4>4, <5>1, <5>2, <5>3, <5>4
      <4>6. CASE service = "auth"
        BY <1>4, <1>6, <4>4, <4>6
      <4> QED  BY <1>1, <4>5, <4>6
    <3>3. (Len(wire) >= Needed(toRead))'  BY <1>7, <3>2
    <3>4. (toRead = <<>> \/ (toRead = <<"utility">> /\ service = "main"))'
      BY <1>1, <1>3, <1>4
    <3>5. Stopped'  BY <3>1, <3>3, <3>4 DEF Stopped
    <3> QED  BY <3>5 DEF Reading
  <2> QED  BY <2>4, <2>5
<1>9. CASE Stopped
  <2>1. Newer(service, 1) /\ Len(wire) >= Needed(toRead)
    BY <1>1, <1>2, <1>9 DEF Stopped
  <2>2. Newer(service, 1)'  BY <1>3, <2>1 DEF Newer
  <2>3. Len(wire') >= Needed(toRead')
    <3>1. \A a, b, c, d \in Nat :
            a >= c + d /\ b <= c => a - b >= d
      OBVIOUS
    <3>2. /\ Len(server["core"]) \in Nat /\ Len(server["utility"]) \in Nat
          /\ Taken("core") \in Nat /\ Len(wire) \in Nat
      BY <1>3, <1>5
    <3>3. CASE service = "main"
      <4>1. Len(wire) >= Len(server["core"]) + Len(server["utility"])
        BY <1>2, <1>6, <2>1, <3>3
      <4>2. Len(wire) - Taken("core") >= Len(server["utility"])
        BY <1>3, <3>1, <3>2, <4>1
      <4> QED  BY <1>3, <1>4, <1>6, <3>3, <4>2
    <3>4. CASE service = "auth"
      <4>1. Len(wire') \in Nat  BY <1>3, LenProperties
      <4> QED  BY <1>4, <1>6, <3>4, <4>1
    <3> QED  BY <1>1, <3>3, <3>4
  <2>4. (Len(wire) >= Needed(toRead))'  BY <1>7, <2>3
  <2>5. (toRead = <<>> \/ (toRead = <<"utility">> /\ service = "main"))'
    BY <1>1, <1>3, <1>4
  <2>6. Stopped'  BY <2>2, <2>4, <2>5 DEF Stopped
  <2> QED  BY <2>6 DEF Reading
<1>10. toRead # <<service>> /\ toRead # <<"utility">> /\ toRead # <<>>
  BY <1>1, <1>2
<1> QED  BY <1>8, <1>9, <1>10 DEF Reading

(***************************************************************************)
(* Reading utility's Version, the last of a main request: all of its       *)
(* fields are read, whatever its number is.                                *)
(***************************************************************************)
LEMMA ReadsUtility ==
  ASSUME TypeOK, Reading, ReadVersion, toRead = <<"utility">>
  PROVE  Reading'
<1>1. /\ service \in {"auth", "main"} /\ service \in Parts /\ "core" \in Parts
      /\ "main" \in Parts /\ "utility" \in Parts
      /\ service # "core" /\ service # "utility"
  BY PartsCarried DEF TypeOK
<1>2. Head(toRead) = "utility" /\ Tail(toRead) = <<>>  OBVIOUS
<1>3. /\ got'["utility"] = Decoded("utility")
      /\ \A q \in Parts \ {"utility"} : got'[q] = got[q]
      /\ wire' = SubSeq(wire, Taken("utility") + 1, Len(wire))
      /\ wire' \in Seq(Nat)
      /\ Taken("utility") <= Len(wire) /\ Len(wire) \in Nat
      /\ UNCHANGED <<server, client, service>>
      /\ toRead' = <<>>
  <2>1. toRead # <<service>>  BY <1>1
  <2> QED  BY <1>1, <1>2, <2>1, ReadsOne
<1>4. service = "main" /\ toRead # <<service>> /\ toRead # Rest(service)
  BY <1>1 DEF Reading, Stopped, Rest
<1>5. CASE InStep("main") /\ InStep("core") /\ wire = client["utility"]
  <2>1. wire # <<>>  BY EnoughToRead
  <2>2. Taken("utility") = Len(server["utility"])  BY DEF Taken, ReadsFields
  <2>3. Decoded("utility") = SubSeq(wire, 1, Len(server["utility"]))
    BY <1>1, <1>3, <2>1, <2>2, DecodedFields
  <2>4. InStep("utility")'  BY <1>3, <1>5, <2>3 DEF InStep
  <2>5. InStep("main")' /\ InStep("core")'  BY <1>1, <1>3, <1>4, <1>5 DEF InStep
  <2>6. Carried(service)' = {"main", "core", "utility"}
    BY <1>3, <1>4 DEF Carried
  <2>7. (\A p \in Carried(service) : InStep(p))'  BY <2>4, <2>5, <2>6
  <2>8. ASSUME Supported' PROVE wire' = <<>>
    <3>1. /\ server["utility"] \in Seq(Nat) /\ Len(server["utility"]) >= 2
          /\ Len(server["utility"]) \in Nat
          /\ server["utility"][1] = 1 /\ client["utility"][1] \in Nat \ {0}
          /\ client["utility"][1] = 1 => Len(client["utility"]) = Len(server["utility"])
      BY <1>1, Builds DEF TypeOK
    <3>2. 1 \in DOMAIN server["utility"]  BY <3>1
    <3>3. client["utility"][1] <= server["utility"][1]
      BY <1>3, <2>6, <2>8, <3>2 DEF Supported
    <3>4. Len(wire) = Taken("utility")  BY <1>5, <2>2, <3>1, <3>3
    <3>5. /\ Taken("utility") + 1 \in Int /\ Len(wire) \in Int
          /\ Len(wire) < Taken("utility") + 1
      BY <1>3, <3>4
    <3> QED  BY <1>3, <3>5, SubSeqEmpty
  <2> QED  BY <1>3, <2>7, <2>8 DEF Reading
<1>6. CASE Stopped
  <2>1. Newer(service, 1) \/ Newer("core", 1)  BY <1>6 DEF Stopped
  <2>2. (Newer(service, 1) \/ Newer("core", 1))'
    BY <1>1, <1>3, <2>1 DEF Newer
  <2>3. Needed(toRead)' = 0  BY <1>3 DEF Needed
  <2>4. Len(wire') >= 0  BY <1>3, LenProperties
  <2>5. Stopped'  BY <1>3, <2>2, <2>3, <2>4 DEF Stopped
  <2> QED  BY <2>5 DEF Reading
<1> QED  BY <1>4, <1>5, <1>6 DEF Reading

-----------------------------------------------------------------------------
\* Nobody has connected yet.
LEMMA InitHandshake == Init => HandshakeInv
<1> SUFFICES ASSUME Init PROVE HandshakeInv  OBVIOUS
<1>1. server \in ServerBuilds /\ client \in ClientBuilds  BY DEF Init
<1>2. server \in [Parts -> Versions]  BY <1>1, BuildAssumption
<1>3. <<>> \in Seq(Nat)  BY EmptySeq
<1>4. service \in Services  BY DEF Init, Services
<1>5. TypeOK
  BY <1>1, <1>2, <1>3, <1>4 DEF Init, TypeOK, Unset
<1> QED  BY <1>5 DEF Init, HandshakeInv, Answering, Unset

\* A client connects and sends its request.
LEMMA ConnectKeeps ==
  ASSUME HandshakeInv, NEW c \in ClientBuilds, NEW s \in Services, Connect(c, s)
  PROVE  HandshakeInv'
<1>1. /\ client' = c /\ service' = s /\ wire' = Written(c, s) /\ toRead' = <<s>>
      /\ got' = server /\ accepted' = FALSE /\ response' = <<>> /\ error' = Unset
      /\ pc' = "reading" /\ server' = server /\ sessions' = sessions + 1
  BY DEF Connect
<1>2. server \in ServerBuilds /\ sessions \in Nat  BY DEF HandshakeInv, TypeOK
<1>3. server \in [Parts -> Versions] /\ c \in [Parts -> Versions]
  BY <1>2, BuildAssumption
<1>4. Written(c, s) \in Seq(Nat)
  <2>1. \A p \in Parts : c[p] \in Seq(Nat)  BY <1>3 DEF Versions
  <2>2. /\ c["main"] \in Seq(Nat) /\ c["auth"] \in Seq(Nat)
        /\ c["core"] \in Seq(Nat) /\ c["utility"] \in Seq(Nat)
    BY <2>1 DEF Parts, Services
  <2>3. c["main"] \o c["core"] \in Seq(Nat) /\ c["auth"] \o c["core"] \in Seq(Nat)
    BY <2>2, ConcatProperties
  <2>4. (c["main"] \o c["core"]) \o c["utility"] \in Seq(Nat)
    BY <2>2, <2>3, ConcatProperties
  <2> QED  BY <2>3, <2>4 DEF Written
<1>5. TypeOK'
  <2>1. <<s>> \in {<<"auth">>, <<"main">>}  BY DEF Services
  <2>2. sessions' \in Nat  BY <1>1, <1>2
  <2> QED  BY <1>1, <1>2, <1>3, <1>4, <2>1, <2>2 DEF TypeOK
<1>6. Reading'  BY <1>1 DEF Reading, Written
<1>7. Answering'  BY <1>1 DEF Answering
<1> QED  BY <1>5, <1>6, <1>7 DEF HandshakeInv

\* The server reads a Version.
LEMMA ReadKeeps ==
  ASSUME HandshakeInv, ReadVersion
  PROVE  HandshakeInv'
<1>1. TypeOK /\ Reading /\ toRead # <<>> /\ pc = "reading"
  BY DEF HandshakeInv, ReadVersion
<1>2. TypeOK' /\ UNCHANGED <<server, client, service, pc, accepted, response, error>>
  BY <1>1, ReadsOne
<1>3. Reading'
  <2>1. toRead = <<service>> \/ toRead = Rest(service) \/ toRead = <<"utility">>
    BY <1>1 DEF Reading, Stopped
  <2> QED  BY <1>1, <2>1, ReadsService, ReadsCore, ReadsUtility
<1>4. Answering'  BY <1>1, <1>2 DEF HandshakeInv, Answering, Unset
<1> QED  BY <1>2, <1>3, <1>4 DEF HandshakeInv

\* The connection is closed with something left to read.
LEMMA CloseKeeps ==
  ASSUME HandshakeInv, Close
  PROVE  HandshakeInv'
<1>1. /\ pc = "reading" /\ pc' = "closed"
      /\ UNCHANGED <<server, client, service, wire, toRead, got, accepted, response, error, sessions>>
  BY DEF Close
<1>2. TypeOK'  BY <1>1 DEF HandshakeInv, TypeOK
<1>3. ~ accepted /\ error = Unset
  BY <1>1 DEF HandshakeInv, Answering
<1>4. Answering'  BY <1>1, <1>3 DEF Answering
<1> QED  BY <1>1, <1>2, <1>4 DEF HandshakeInv

(***************************************************************************)
(* The server decides: a request that is stopped has a part that operator  *)
(* <= refuses; of one in step, it refuses what is newer.                   *)
(***************************************************************************)
LEMMA AnswerKeeps ==
  ASSUME HandshakeInv, Answer
  PROVE  HandshakeInv'
<1>1. /\ pc = "reading" /\ toRead = <<>> /\ pc' = "answered"
      /\ accepted' = \A p \in Carried(service) : LessOrEqual(p)
      /\ UNCHANGED <<server, client, service, wire, toRead, got, error, sessions>>
  BY DEF Answer
<1>2. response' \in {<<>>, <<IF accepted' THEN Success ELSE Refused>>}
  BY DEF Answer
<1>3. accepted' \in BOOLEAN  BY <1>1
<1>4. TypeOK'
  BY <1>1, <1>2, <1>3 DEF HandshakeInv, TypeOK
<1>5. TypeOK /\ Reading /\ error = Unset
  BY <1>1 DEF HandshakeInv, Answering
<1>6. service \in {"auth", "main"}  BY <1>5, PartsCarried DEF TypeOK
<1>7. Stopped \/ \A p \in Carried(service) : InStep(p)
  BY <1>1, <1>5, <1>6 DEF Reading, Rest
<1>8. ASSUME accepted'
      PROVE  (\A p \in Carried(service) : InStep(p) /\ LessOrEqual(p))'
  <2>1. \A p \in Carried(service) : LessOrEqual(p)  BY <1>1, <1>8
  <2>2. ~ Stopped  BY <1>5, <2>1, StoppedIsRefused
  <2> QED  BY <1>1, <1>7, <2>1, <2>2
           DEF Carried, InStep, LessOrEqual, Operand
<1>9. ASSUME Supported'
      PROVE  accepted'
  <2>1. Supported  BY <1>1, <1>9 DEF Supported, Carried
  <2>2. ~ Stopped  BY <1>5, <2>1, StoppedIsRefused
  <2>3. ASSUME NEW p \in Carried(service) PROVE LessOrEqual(p)
    <3>1. p \in Parts  BY <1>5, PartsCarried DEF TypeOK
    <3>2. InStep(p)  BY <1>7, <2>2
    <3>3. /\ server[p] \in Seq(Nat) /\ client[p] \in Seq(Nat)
          /\ Len(server[p]) \in Nat /\ Len(client[p]) \in Nat
          /\ Len(client[p]) >= Len(server[p])
      BY <1>5, <3>1, Builds DEF TypeOK
    <3>4. ASSUME NEW i \in DOMAIN server[p]
          PROVE  Operand(p, i) <= server[p][i]
      <4>1. i \in 1..Len(server[p])  BY <3>3
      <4>2. server[p][i] \in Nat  BY <3>3, <4>1, ElementOfSeq
      <4>3. got[p][i] = client[p][i]
        BY <1>5, <3>1, <3>2, <4>1, FieldsInStep
      <4>4. client[p][i] <= server[p][i]  BY <2>1 DEF Supported
      <4> QED  BY <4>2, <4>3, <4>4 DEF Operand
    <3> QED  BY <3>4 DEF LessOrEqual
  <2> QED  BY <1>1, <2>3
<1>10. Answering'
  BY <1>1, <1>2, <1>5, <1>8, <1>9 DEF Answering, Verdict
<1> QED  BY <1>1, <1>4, <1>10 DEF HandshakeInv

\* The client reads the answer.
LEMMA ReceiveKeeps ==
  ASSUME HandshakeInv, Receive
  PROVE  HandshakeInv'
<1>1. /\ pc = "answered" /\ pc' \in {"done", "closed"}
      /\ UNCHANGED <<server, client, service, wire, toRead, got, accepted, response, sessions>>
      /\ \/ response # <<>> /\ error' = response[1] /\ pc' = "done"
         \/ error' = error
  BY DEF Receive
<1>2. response \in {<<>>, <<Verdict>>} /\ error = Unset
  BY <1>1 DEF HandshakeInv, Answering
<1>3. Verdict \in {Success, Refused}  BY DEF Verdict
<1>4. error' = Unset \/ (error' = Verdict /\ pc' = "done")
  BY <1>1, <1>2
<1>5. TypeOK'
  BY <1>1, <1>3, <1>4 DEF HandshakeInv, TypeOK
<1>6. /\ accepted => \A p \in Carried(service) : InStep(p) /\ LessOrEqual(p)
      /\ Supported => accepted
  BY <1>1 DEF HandshakeInv, Answering
<1>7. Answering'
  <2>1. (accepted => \A p \in Carried(service) : InStep(p) /\ LessOrEqual(p))'
    BY <1>1, <1>6 DEF Carried, InStep, LessOrEqual, Operand
  <2>2. (Supported => accepted)'  BY <1>1, <1>6 DEF Supported, Carried
  <2> QED  BY <1>1, <1>4, <2>1, <2>2 DEF Answering, Verdict
<1> QED  BY <1>1, <1>5, <1>7 DEF HandshakeInv

\* Every step keeps the invariant.
LEMMA NextHandshake == HandshakeInv /\ [Next]_vars => HandshakeInv'
<1> SUFFICES ASSUME HandshakeInv, [Next]_vars PROVE HandshakeInv'  OBVIOUS
<1>1. CASE \E c \in ClientBuilds, s \in Services : Connect(c, s)
  BY <1>1, ConnectKeeps
<1>2. CASE ReadVersion  BY <1>2, ReadKeeps
<1>3. CASE Close  BY <1>3, CloseKeeps
<1>4. CASE Answer  BY <1>4, AnswerKeeps
<1>5. CASE Receive  BY <1>5, ReceiveKeeps
<1>6. CASE UNCHANGED vars
  <2>1. TypeOK'  BY <1>6 DEF vars, HandshakeInv, TypeOK
  <2>2. Reading' = Reading
    BY <1>6 DEF vars, Reading, Stopped, Newer, InStep, Supported, Carried, After, Rest,
                Written, Needed
  <2>3. Answering' = Answering
    BY <1>6 DEF vars, Answering, Verdict, InStep, LessOrEqual, Operand, Supported, Carried
  <2> QED  BY <1>6, <2>1, <2>2, <2>3 DEF vars, HandshakeInv
<1> QED  BY <1>1, <1>2, <1>3, <1>4, <1>5, <1>6 DEF Next, Exchange

-----------------------------------------------------------------------------
(***************************************************************************)
(* The server has a Version of as many fields as its own of every part,    *)
(* whatever a client has written.                                          *)
(***************************************************************************)
THEOREM TypeCorrect == Spec => []TypeOK
<1>1. HandshakeInv => TypeOK  BY DEF HandshakeInv
<1> QED  BY <1>1, InitHandshake, NextHandshake, PTL DEF Spec

(***************************************************************************)
(* The server never waits for the rest of a request it misreads: however   *)
(* newer the client is, there is a value wherever the server reads.        *)
(***************************************************************************)
THEOREM NeverWaits == Spec => []NeverShort
<1>1. HandshakeInv => NeverShort
  BY EnoughToRead DEF HandshakeInv, NeverShort
<1> QED  BY <1>1, InitHandshake, NextHandshake, PTL DEF Spec

(***************************************************************************)
(* What the server accepts it has read as the client wrote it, although    *)
(* the check that should stop a reader out of step does nothing.           *)
(***************************************************************************)
THEOREM AcceptsWhatWasWritten == Spec => []AcceptedInStep
<1>1. HandshakeInv => AcceptedInStep
  BY DEF HandshakeInv, Answering, AcceptedInStep, InStep
<1> QED  BY <1>1, InitHandshake, NextHandshake, PTL DEF Spec

(***************************************************************************)
(* A client that is accepted is newer in none of the fields operator<=     *)
(* compares.                                                               *)
(***************************************************************************)
THEOREM AcceptsNoNewer == Spec => []AcceptedNotNewer
<1>1. ASSUME HandshakeInv PROVE AcceptedNotNewer
  <2> SUFFICES ASSUME accepted, NEW p \in Carried(service), NEW i \in DOMAIN server[p],
                      <<p, i>> \notin Constants
               PROVE  client[p][i] <= server[p][i]
    BY DEF AcceptedNotNewer
  <2>1. TypeOK /\ InStep(p) /\ LessOrEqual(p)
    BY <1>1 DEF HandshakeInv, Answering
  <2>2. p \in Parts  BY <2>1, PartsCarried DEF TypeOK
  <2>3. i \in 1..Len(server[p])  BY <2>1, <2>2, Builds DEF TypeOK
  <2>4. got[p][i] = client[p][i]  BY <2>1, <2>2, <2>3, FieldsInStep
  <2>5. Operand(p, i) <= server[p][i]  BY <2>1 DEF LessOrEqual
  <2> QED  BY <2>4, <2>5 DEF Operand
<1> QED  BY <1>1, InitHandshake, NextHandshake, PTL DEF Spec

(***************************************************************************)
(* A client that is newer in nothing is accepted.                          *)
(***************************************************************************)
THEOREM ServesSupported == Spec => []SupportedServed
<1>1. ASSUME HandshakeInv PROVE SupportedServed
  <2> SUFFICES ASSUME Supported
               PROVE  /\ error # Refused
                      /\ pc \in {"answered", "done"} => accepted
                      /\ pc = "reading" /\ toRead = <<>> => wire = <<>>
    BY DEF SupportedServed
  <2>1. TypeOK /\ service \in {"auth", "main"}
    BY <1>1, PartsCarried DEF HandshakeInv, TypeOK
  <2>2. pc \in {"answered", "done"} => accepted
    BY <1>1 DEF HandshakeInv, Answering
  <2>3. error # Refused
    BY <1>1, <2>2 DEF HandshakeInv, Answering, Verdict, Refused, Success, Unset
  <2>4. ASSUME pc = "reading", toRead = <<>> PROVE wire = <<>>
    <3>1. Reading  BY <1>1, <2>4 DEF HandshakeInv
    <3>2. ~ Stopped  BY <2>1, StoppedIsRefused
    <3> QED  BY <2>1, <2>4, <3>1, <3>2 DEF Reading, Rest
  <2> QED  BY <2>2, <2>3, <2>4
<1> QED  BY <1>1, InitHandshake, NextHandshake, PTL DEF Spec

(***************************************************************************)
(* A client reads a success only if the server has decided on one, also    *)
(* where the two write and read the answer on different conditions.        *)
(***************************************************************************)
THEOREM SuccessIsTrue == Spec => []NoFalseSuccess
<1>1. HandshakeInv => NoFalseSuccess
  BY DEF HandshakeInv, Answering, NoFalseSuccess, Verdict, Success, Refused, Unset
<1> QED  BY <1>1, InitHandshake, NextHandshake, PTL DEF Spec

-----------------------------------------------------------------------------
(***************************************************************************)
(* An exchange gets on with every step: the server takes something from    *)
(* what is left of the request, or the answer or the end of the connection *)
(* is next.                                                                *)
(***************************************************************************)
ExchangeAdvances ==
  [][Exchange =>
       \/ pc = "reading" /\ pc' = "reading" /\ {Len(wire), Len(wire')} \subseteq Nat
            /\ Len(wire') < Len(wire)
       \/ pc = "reading" /\ pc' \in {"answered", "closed"}
       \/ pc = "answered" /\ pc' \in {"done", "closed"}]_vars

THEOREM ExchangeIsFinite == Spec => ExchangeAdvances
<1> DEFINE Shorter == {Len(wire), Len(wire')} \subseteq Nat /\ Len(wire') < Len(wire)
<1>1. ASSUME HandshakeInv, ReadVersion
      PROVE  pc = "reading" /\ pc' = "reading" /\ Shorter
  <2>1. pc = "reading" /\ pc' = pc  BY <1>1 DEF ReadVersion
  <2>2. TypeOK /\ Reading  BY <1>1, <2>1 DEF HandshakeInv
  <2>3. PICK n \in Nat \ {0} :
          n <= Len(wire) /\ Len(wire') = Len(wire) - n /\ Len(wire) \in Nat
    BY <1>1, <2>2, ReadsOne
  <2> QED  BY <2>1, <2>3
<1>2. ASSUME HandshakeInv, Exchange
      PROVE  \/ pc = "reading" /\ pc' = "reading" /\ Shorter
             \/ pc = "reading" /\ pc' \in {"answered", "closed"}
             \/ pc = "answered" /\ pc' \in {"done", "closed"}
  BY <1>1, <1>2 DEF Exchange, Close, Answer, Receive
<1> QED  BY <1>2, InitHandshake, NextHandshake, PTL DEF Spec, ExchangeAdvances

=============================================================================
