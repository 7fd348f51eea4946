-------------------------------- MODULE OpKey --------------------------------
(***************************************************************************)
(* What a span is called and how much it matters: its operation key, the   *)
(* lifeline on the other side, and its tier.                               *)
(***************************************************************************)
EXTENDS Integers, Sequences, FiniteSetsExt

CONSTANT Config   \* the service's .flowmap.yaml, as far as it bears on traces

(* A name with an id in it: of a kind that is replaced ("id"), of one that *)
(* is replaced on request ("short"), or none ("").                         *)
Name(stem) == [stem |-> stem, class |-> "", value |-> ""]
Templated(n, classes) == IF n.class \in classes THEN [n EXCEPT !.value = "{id}"] ELSE n
NormalizeDestination(d) == Templated(d, {"id"} \cup IF Config.shortHexIDs THEN {"short"} ELSE {})
Route(a) == Templated(IF a.route.stem # "" THEN a.route ELSE a.path, {"id"})

(* A statement without its literals. *)
NormalizeSQL(s) == [s EXCEPT !.literals = ""]

-----------------------------------------------------------------------------
(* Roles on the bus are read off the attributes before the kind is.        *)

IsMessaging(kind, a) == kind # "server" /\ a.dest.stem # ""
Direction(kind, a) ==
    CASE a.mop \in {"publish", "send", "create", "produce", "enqueue"} -> "PUBLISH"
      [] a.mop \in {"receive", "process", "poll", "deliver", "consume"} -> "CONSUME"
      [] a.mop \in {"settle", "ack", "nack", "delete", "complete", "abandon", "reject", "extend"} -> "SETTLE"
      [] OTHER -> IF kind = "consumer" THEN "CONSUME" ELSE "PUBLISH"
EffectiveKind(kind, a) ==
    IF ~IsMessaging(kind, a) THEN kind
    ELSE IF Direction(kind, a) = "CONSUME" THEN "consumer" ELSE "producer"
BrokerPeer(a) ==
    CASE a.msys = "" -> "Bus"
      [] a.msys \in {"aws_sns", "sns"} -> "SNS"
      [] a.msys \in {"aws_sqs", "sqs"} -> "SQS"
      [] a.msys \in {"kafka", "apache_kafka"} -> "Kafka"
      [] a.msys = "rabbitmq" -> "RabbitMQ"
      [] OTHER -> a.msys

(* The attributes of the operation come before what the statement says.    *)
DBOperation(a) == IF a.dbop # "" THEN a.dbop ELSE a.stmt.op
DBTable(a)     == IF a.table # "" THEN a.table ELSE a.stmt.table

Key(proto, verb, peer, what) == [proto |-> proto, verb |-> verb, peer |-> peer, what |-> what]
Bus(kind, a) == [op |-> Key(IF IsMessaging(kind, a) THEN Direction(kind, a)
                            ELSE IF kind = "producer" THEN "PUBLISH" ELSE "CONSUME",
                            "", "", NormalizeDestination(a.dest)),
                 peer |-> <<BrokerPeer(a), "">>]
DB(a)   == [op |-> Key("DB", DBOperation(a), a.dbsys, Name(DBTable(a))),
            peer |-> <<a.dbsys, IF a.namespace # "" THEN a.namespace ELSE a.host>>]
RPC(a)  == [op |-> Key("RPC", a.rpcmethod, a.rpcservice, Name("")),
            peer |-> <<IF a.rpcservice # "" THEN a.rpcservice ELSE IF a.peer # "" THEN a.peer ELSE a.host, "">>]
HTTP(a, peer) == [op |-> Key("HTTP", a.method, peer, Route(a)), peer |-> <<peer, "">>]

OpKeyOf(kind, a, name) ==
    IF IsMessaging(kind, a) \/ kind \in {"producer", "consumer"} THEN Bus(kind, a)
    ELSE IF kind = "server" THEN HTTP(a, "")
    ELSE IF kind = "client" /\ (a.rpcsys # "" \/ a.rpcservice # "") THEN RPC(a)
    ELSE IF a.dbsys # "" THEN DB(a)
    ELSE IF kind = "client" THEN HTTP(a, IF a.peer # "" THEN a.peer ELSE a.host)
    ELSE [op |-> Key("", "", "", Name(name)), peer |-> <<"", "">>]

-----------------------------------------------------------------------------
(* Tiers.                                                                  *)

Features(kind, a, failed) ==
    LET F(boundary, effect, origin) ==
            [boundary |-> boundary, effect |-> effect, origin |-> origin, fallible |-> failed]
        db == IF DBOperation(a) = "SELECT" THEN "read" ELSE "mutate"
    IN  CASE kind \in {"server", "consumer"} -> F("inbound", "io", "first-party")
          [] kind = "producer" -> F("outbound-async", "mutate", "first-party")
          [] kind = "client" -> F("outbound-sync", IF DBOperation(a) # "" THEN db ELSE "io", "third-party")
          [] OTHER -> IF DBOperation(a) # "" THEN F("outbound-sync", db, "third-party")
                      ELSE F("internal", "compute", "first-party")

(* A rule asks for the fields it names; "" and {} ask for nothing.         *)
Rule(boundary, effect, origin, fallible, tier) ==
    [boundary |-> boundary, effect |-> effect, origin |-> origin, fallible |-> fallible, tier |-> tier]
BuiltinRules ==
    <<Rule("", "telemetry", "", {}, 4), Rule("outbound-async", "", "", {}, 1), Rule("inbound", "", "", {}, 1),
      Rule("", "mutate", "", {}, 1), Rule("outbound-sync", "read", "", {}, 2), Rule("outbound-sync", "", "", {}, 1),
      Rule("cross-package", "", "first-party", {TRUE}, 2), Rule("", "", "first-party", {}, 3),
      Rule("", "", "stdlib", {}, 4)>>
Matches(r, f) ==
    /\ r.boundary \in {"", f.boundary} /\ r.effect \in {"", f.effect} /\ r.origin \in {"", f.origin}
    /\ r.fallible = {} \/ f.fallible \in r.fallible
Classify(op, f) ==
    LET rules == Config.rules \o IF Config.useDefaults THEN BuiltinRules ELSE <<>>
        hits  == {i \in DOMAIN rules : Matches(rules[i], f)}
        pins  == {i \in DOMAIN Config.pins : Config.pins[i].op = op.what.stem}
    IN  IF pins # {} THEN Config.pins[Min(pins)].tier
        ELSE IF hits # {} THEN rules[Min(hits)].tier
        ELSE Config.catchAll
=============================================================================
