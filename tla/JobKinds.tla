------------------------------ MODULE JobKinds ------------------------------
(***************************************************************************)
(* What the job functions of the seven kinds ask for: what each checks     *)
(* before it touches anything, which objects it goes to and what it sets   *)
(* them to; and the feature gates, parsed at start-up, that some of them   *)
(* look at.  CronJob runs these plans, step by step.                       *)
(*                                                                         *)
(* The kinds are told apart by their field "kind"; a spec has the fields   *)
(* of all of them.  Lists of names are sets, a selector is what            *)
(* LabelSelectorAsSelector makes of it.                                    *)
(***************************************************************************)
EXTENDS Integers, Sequences

CONSTANTS
    Actions, None,
    Namespaces, OperatorNamespace,
    Targets,                      \* workloads and AWS objects
    TypeOf, NamespaceOf,          \* of the workloads
    Labelled,                     \* those the selectors match
    Word                          \* int32 takes Word values

AwsJobs == {"AwsEc2Instance", "AwsTransferFamily", "AwsRdsAuroraCluster", "AwsDocumentDBCluster"}
Kinds   == {"K8sHpa", "K8sPodReplicas", "K8sRunJob"} \cup AwsJobs

Features == {"AuroraVerticalScaling", "DocumentDBVerticalScaling"}

NamespaceAll == "all namespaces"

(* What an action of each kind says; the CRDs admit no other command. *)
K8sHpaAction               == [minReplicas : Int, maxReplicas : Int]
K8sPodReplicasAction       == [replicas : Int]
K8sRunJobAction            == [job : {"template"}]
AwsEc2InstanceAction       == [command : {"stop", "start", "hibernate"}]
AwsTransferFamilyAction    == [command : {"stop", "start"}]
AwsRdsAuroraClusterAction  == [command : {"stop", "start", "scale"}]
AwsDocumentDBClusterAction == [command : {"stop", "start", "scale"}]

ActionOf(kind) ==
    CASE kind = "K8sHpa"               -> K8sHpaAction
      [] kind = "K8sPodReplicas"       -> K8sPodReplicasAction
      [] kind = "K8sRunJob"            -> K8sRunJobAction
      [] kind = "AwsEc2Instance"       -> AwsEc2InstanceAction
      [] kind = "AwsTransferFamily"    -> AwsTransferFamilyAction
      [] kind = "AwsRdsAuroraCluster"  -> AwsRdsAuroraClusterAction
      [] kind = "AwsDocumentDBCluster" -> AwsDocumentDBClusterAction

(* The names of the keys in the Secret. *)
AwsCredentialsKeysRef == [accessKey : STRING, secretKey : STRING, sessionKey : STRING]

(* longName: the resource's own name fills the prefix of a Job's name.     *)
ResourceSpec(kind) ==
    [kind : {kind}, longName : BOOLEAN, actions : [Actions -> ActionOf(kind) \cup {None}],
     namespaces : SUBSET Namespaces, selector : {"invalid", "empty", "labels"},
     resourceType : {"Deployment", "StatefulSet"}, ids : SUBSET Targets,
     credentials : {None} \cup [keysRef : AwsCredentialsKeysRef \cup {None}]]

ASSUME KindAssumption ==
    /\ Actions # {} /\ NamespaceAll \notin Namespaces
    /\ OperatorNamespace \in Namespaces /\ Labelled \subseteq Targets
    /\ NamespaceOf \in [DOMAIN TypeOf -> Namespaces] /\ DOMAIN TypeOf \subseteq Targets
    /\ Word \in Nat \ {0}

-----------------------------------------------------------------------------
(* Start-up: the feature gates (main.go).  The text of a flag is the         *)
(* sequence of its trimmed words, "blank" those with nothing in them; <<>>   *)
(* is the empty text.                                                        *)

\* Mutant: the environment adds to the flag.
FlagAndEnv(cli, env) == cli \o env

GateText(cli, env) == IF cli = <<>> THEN env ELSE cli

Words(text) == {text[i] : i \in DOMAIN text} \ {"blank"}

(* An unknown name ends the process; "ALL" is known only alone. *)
Starts(text) == text = <<"ALL">> \/ Words(text) \subseteq Features

NewRegistry(text) == IF text = <<"ALL">> THEN Features ELSE Words(text)

-----------------------------------------------------------------------------
(* The credentials of the AWS kinds (aws_utils.go).                          *)

KeyOr(given, default) == IF given = "" THEN default ELSE given

(* keys: those of the Secret's data.  The session key of a keysRef must be   *)
(* there; the default one need not.                                          *)
getAwsCredentialProviderFromSecret(keys, keysRef) ==
    IF keysRef = None THEN {"aws_access_key_id", "aws_secret_access_key"} \subseteq keys
    ELSE /\ KeyOr(keysRef.accessKey, "aws_access_key_id") \in keys
         /\ KeyOr(keysRef.secretKey, "aws_secret_access_key") \in keys
         /\ keysRef.sessionKey # "" => keysRef.sessionKey \in keys

-----------------------------------------------------------------------------
(* What a job function makes of the resource it read: it ends with a result, *)
(* or goes on with lists to make and targets to call.                        *)

Ends(result) == [pc |-> "send", result |-> result, lists |-> {}, todo |-> {}]
Goes(pc, lists, todo) == [pc |-> pc, result |-> None, lists |-> lists, todo |-> todo]

\* Mutant: an empty selector is taken for every namespace.
SelectsAll(spec) ==
    IF spec.selector = "invalid" THEN Ends("Error")
    ELSE Goes("call", IF spec.namespaces = {} THEN {NamespaceAll} ELSE spec.namespaces, {})

(* One list per namespace, or one of all; but never with an empty selector. *)
Workloads(spec) ==
    IF spec.selector = "invalid" \/ (spec.namespaces = {} /\ spec.selector = "empty")
    THEN Ends("Error")
    ELSE Goes("call", IF spec.namespaces = {} THEN {NamespaceAll} ELSE spec.namespaces, {})

setAutoscaling(spec, a) ==
    IF spec.actions[a].minReplicas > spec.actions[a].maxReplicas
    THEN Ends("Error") ELSE Workloads(spec)

setReplicas(spec) == Workloads(spec)

runJob(spec) ==
    Goes("call", {}, IF spec.namespaces = {} THEN {OperatorNamespace} ELSE spec.namespaces)

startStopInstances(spec) == Goes("configure", {}, spec.ids)

startStopServer(spec) == Goes("configure", {}, spec.ids)

(* The clusters of Aurora and of DocumentDB: a scaling is handed over to an  *)
(* ActionExecution, if its feature is enabled.                               *)
startStopCluster(spec, a, gate, enabled) ==
    IF spec.actions[a].command # "scale" THEN Goes("configure", {}, spec.ids)
    ELSE IF gate \in enabled THEN Goes("create", {}, {}) ELSE Ends("Skipped")

JobFunction(spec, a, enabled) ==
    IF spec = None THEN Ends("Error")
    ELSE IF spec.actions[a] = None THEN Ends("Error")
    ELSE CASE spec.kind = "K8sHpa"              -> setAutoscaling(spec, a)
           [] spec.kind = "K8sPodReplicas"      -> setReplicas(spec)
           [] spec.kind = "K8sRunJob"           -> runJob(spec)
           [] spec.kind = "AwsEc2Instance"      -> startStopInstances(spec)
           [] spec.kind = "AwsTransferFamily"   -> startStopServer(spec)
           [] spec.kind = "AwsRdsAuroraCluster" ->
                startStopCluster(spec, a, "AuroraVerticalScaling", enabled)
           [] spec.kind = "AwsDocumentDBCluster" ->
                startStopCluster(spec, a, "DocumentDBVerticalScaling", enabled)

(* The workloads a list returns. *)
WorkloadType(spec) == IF spec.kind = "K8sHpa" THEN "HorizontalPodAutoscaler" ELSE spec.resourceType

ListOf(spec, namespace) ==
    {t \in DOMAIN TypeOf : /\ TypeOf[t] = WorkloadType(spec)
                           /\ spec.selector = "labels" => t \in Labelled
                           /\ namespace \in {NamespaceAll, NamespaceOf[t]}}

-----------------------------------------------------------------------------
(* What a target is set to.                                                  *)

(* int32(n) of a Go int. *)
Int32(n) == LET m == n % Word IN IF 2 * m >= Word THEN m - Word ELSE m

Settings == [minReplicas : Int, maxReplicas : Int] \cup [replicas : Int]
                \cup [start : BOOLEAN, hibernate : BOOLEAN] \cup [start : BOOLEAN]

Setting(spec, a) ==
    LET action == spec.actions[a]
    IN  CASE spec.kind = "K8sHpa" -> [minReplicas |-> Int32(action.minReplicas),
                                      maxReplicas |-> Int32(action.maxReplicas)]
          [] spec.kind = "K8sPodReplicas" -> [replicas |-> Int32(action.replicas)]
          [] spec.kind = "AwsEc2Instance" ->
                [start |-> action.command = "start", hibernate |-> action.command = "hibernate"]
          [] OTHER -> [start |-> action.command = "start"]

(* The API server rejects these.                                             *)
Rejected(spec, setting) ==
    CASE spec.kind = "K8sHpa" -> \/ setting.minReplicas < 0
                                 \/ setting.minReplicas > setting.maxReplicas
      [] spec.kind = "K8sPodReplicas" -> setting.replicas < 0
      [] OTHER -> FALSE

(* The names of what is created: of a Job, the first 48 characters of the    *)
(* resource's and the action's name, and the minute; of an ActionExecution,  *)
(* the whole of them, and the second.                                        *)
JobName(spec, a, minute) == [prefix |-> IF spec.longName THEN "cut" ELSE a, at |-> minute]
ExecutionName(a, second) == [prefix |-> a, at |-> second]
=============================================================================
