----------------------------- MODULE MCCronJob ------------------------------
(* Instances of CronJob for TLC. *)
EXTENDS CronJob, TLC

CONSTANTS a1, a2, n1, n2, t1, t2, h1, h2, d1, d2, d3, s1

OpenSchedule == [active |-> TRUE, actions |-> Actions,
                 activePeriods |-> {}, inactivePeriods |-> {}]
OnlyOpen == {OpenSchedule}

\* At most one period of each sort, for all actions or for one; and what
\* closes a schedule altogether.
Periods == {p \in [start : Times, end : Times, actions : {{}} \cup {{a} : a \in Actions}] :
                p.start <= p.end}
AtMostOne == {{}} \cup {{p} : p \in Periods}
PeriodSchedules ==
    {[OpenSchedule EXCEPT !.activePeriods = on, !.inactivePeriods = off]
        : on \in AtMostOne, off \in AtMostOne}
    \cup {[OpenSchedule EXCEPT !.active = FALSE], [OpenSchedule EXCEPT !.actions = {}]}

\* An overlapping pair of periods, of different actions.
OneOf(a) == [start |-> 0, end |-> 1, actions |-> {a}]
PairSchedules ==
    {[OpenSchedule EXCEPT !.activePeriods = {OneOf(a) : a \in Actions}],
     [OpenSchedule EXCEPT !.inactivePeriods = {OneOf(a) : a \in Actions}]}

GateSchedules == PeriodSchedules \cup PairSchedules

-----------------------------------------------------------------------------
\* Autoscalers h1, h2 and deployments d1, d2 in two namespaces, an unlabelled
\* deployment d3, a stateful set s1; t1, t2 are AWS objects.
Workload == h1 :> <<"HorizontalPodAutoscaler", n1>> @@ h2 :> <<"HorizontalPodAutoscaler", n2>>
         @@ d1 :> <<"Deployment", n1>> @@ d2 :> <<"Deployment", n2>> @@ d3 :> <<"Deployment", n2>>
         @@ s1 :> <<"StatefulSet", n1>>
WorkloadTypes      == [t \in DOMAIN Workload |-> Workload[t][1]]
WorkloadNamespaces == [t \in DOMAIN Workload |-> Workload[t][2]]

Blank == [kind |-> "AwsEc2Instance", longName |-> FALSE, actions |-> [a \in Actions |-> None],
          namespaces |-> {}, selector |-> "empty", resourceType |-> "Deployment",
          ids |-> {t1, t2}, credentials |-> None]

Two(x, y)  == [a \in Actions |-> IF a = a1 THEN x ELSE y]
Command(c) == [command |-> c]
Replicas(n) == [replicas |-> n]
MinMax(m, n) == [minReplicas |-> m, maxReplicas |-> n]
Of(kind, x, y) == [Blank EXCEPT !.kind = kind, !.actions = Two(x, y)]

World(spec) == [spec |-> spec, secret |-> {}, cli |-> <<>>, env |-> <<>>]

\* Numbers that are refused, that do not fit an int32, and that wrap to one
\* the API server rejects; selectors that are empty or invalid.
Hpa  == [Of("K8sHpa", MinMax(1, 2), MinMax(2, 1)) EXCEPT !.selector = "labels"]
Wide == [Of("K8sHpa", MinMax(2, Word + 1), MinMax(1, Word + 1)) EXCEPT
            !.selector = "labels", !.namespaces = {n1}]
Pods == [Of("K8sPodReplicas", Replicas(0), None) EXCEPT
            !.selector = "labels", !.namespaces = {n1, n2}]
Sets == [Of("K8sPodReplicas", Replicas(0), Replicas(Word - 1)) EXCEPT
            !.resourceType = "StatefulSet", !.namespaces = {n1}]
RunTwo == [Of("K8sRunJob", [job |-> "template"], [job |-> "template"]) EXCEPT
            !.namespaces = {n1, n2}]
RunOne == [RunTwo EXCEPT !.namespaces = {}]

K8sWorlds == {World(s) : s \in {Hpa, Wide, Pods, Sets, [Pods EXCEPT !.selector = "invalid"],
                                [Sets EXCEPT !.namespaces = {}], RunTwo,
                                [RunOne EXCEPT !.longName = TRUE]}}

Ec2      == Of("AwsEc2Instance", Command("stop"), Command("hibernate"))
Transfer == [Of("AwsTransferFamily", Command("stop"), Command("start")) EXCEPT !.ids = {t1}]
Aurora   == [Of("AwsRdsAuroraCluster", Command("scale"), Command("stop")) EXCEPT !.ids = {t1}]
DocDb    == [Of("AwsDocumentDBCluster", Command("scale"), None) EXCEPT !.ids = {t1}]

\* A Secret with the default keys, and with a key name of its own.
Keys  == {"aws_access_key_id", "aws_secret_access_key"}
MyKey == [keysRef |-> [accessKey |-> "mine", secretKey |-> "", sessionKey |-> "token"]]

AwsWorlds ==
    {World(Ec2),
     [World([Transfer EXCEPT !.credentials = [keysRef |-> None]]) EXCEPT !.secret = Keys],
     [World([Transfer EXCEPT !.credentials = MyKey]) EXCEPT
        !.secret = {"mine", "token", "aws_secret_access_key"}]}

\* The gates, by flag and by environment; with the last one the operator does
\* not start.
GateTexts == {<<>>, <<"ALL">>, <<"AuroraVerticalScaling">>,
              <<"blank", "DocumentDBVerticalScaling">>, <<"ALL", "AuroraVerticalScaling">>}
ScaleWorlds ==
    {[World(Aurora) EXCEPT !.cli = c, !.env = e] : c \in GateTexts, e \in GateTexts}
    \cup {[World(DocDb) EXCEPT !.cli = c] : c \in GateTexts}

OnlyEc2   == {World(Ec2)}
AllWorlds == K8sWorlds \cup AwsWorlds \cup ScaleWorlds
=============================================================================
