---------------------------- MODULE ClientContext ----------------------------
(***************************************************************************)
(* createFermiV1Context (context.ts, deployments.ts): from a configuration *)
(* whose parts may come from a preset, from the environment and from the   *)
(* caller, to one program, group, account, node and gateway that every     *)
(* order is then signed for.                                               *)
(*                                                                         *)
(* The registry is a parameter: it holds one deployment today.  A group    *)
(* lives under one program on one cluster, and so do its accounts; what a  *)
(* node returns depends on the cluster the node is of.                     *)
(***************************************************************************)
EXTENDS FiniteSets

CONSTANTS Registry,    \* the deployments: [name, cluster, program, group, rpcUrl, gateway]
          Names,       \* names that a configuration may give
          Clusters, Programs, Groups, Urls, Gateways,
          Home,        \* group -> [cluster, program]
          ClusterOf,   \* node -> cluster
          DefaultUrl,  \* cluster -> node
          Devnet,      \* the cluster taken when nothing says which
          Unset

ASSUME ClientContextAssumption ==
  /\ \A d, e \in Registry : d.name = e.name \/ d.group = e.group => d = e
  /\ \A d \in Registry : Home[d.group] = [cluster |-> d.cluster, program |-> d.program]
  /\ \A d \in Registry : ClusterOf[d.rpcUrl] = d.cluster
  /\ \A c \in Clusters : ClusterOf[DefaultUrl[c]] = c
  /\ Devnet \in Clusters
  /\ Unset \notin Registry \cup Groups
  /\ \A d \in Registry : d.group \in Groups /\ Unset \notin {d.name, d.rpcUrl}

VARIABLES config,   \* the configuration, its account named by the group it belongs to
          stage,    \* how far createFermiV1Context has come
          context   \* what it has resolved

contextVars == <<config, stage, context>>

Optional(S) == S \cup {Unset}
Given(value, other) == IF value # Unset THEN value ELSE other

Config == [deployment : Optional(Names), cluster : Optional(Clusters), url : Optional(Urls),
           group : Optional(Groups), program : Optional(Programs), gateway : Optional(Gateways),
           account : Groups]

ContextInit == config \in Config /\ stage = "config" /\ context = Unset

-----------------------------------------------------------------------------
\* A deployment, or Unset: one of at most one.
One(S) == IF S = {} THEN Unset ELSE CHOOSE d \in S : TRUE
Named(name) == One({d \in Registry : d.name = name})
OfGroup(group) == One({d \in Registry : d.group = group})

GroupOf(cfg) == Given(cfg.group, IF Named(cfg.deployment) = Unset THEN Unset ELSE Named(cfg.deployment).group)

\* resolveDeploymentForGroup: the named deployment must be the group's.
DeploymentFits(cfg) ==
  cfg.deployment # Unset => /\ Named(cfg.deployment) # Unset
                            /\ Named(cfg.deployment).group = GroupOf(cfg)

ClusterFor(cfg) ==
  LET d == OfGroup(GroupOf(cfg)) IN Given(cfg.cluster, IF d = Unset THEN Devnet ELSE d.cluster)

\* A mutation: a cluster that was given is not compared with the deployment's.
ProgramOnly(cfg) ==
  LET d == OfGroup(GroupOf(cfg))
  IN IF d = Unset THEN cfg.program # Unset ELSE cfg.program \in {Unset, d.program}

\* resolveProgramIdForGroup: the given cluster and program must be the deployment's; a group
\* outside the registry needs a program.
ProgramFits(cfg) ==
  LET d == OfGroup(GroupOf(cfg))
  IN IF d = Unset THEN cfg.program # Unset
     ELSE ClusterFor(cfg) = d.cluster /\ cfg.program \in {Unset, d.program}

\* Everything up to the first read.
Resolve ==
  /\ stage = "config"
  /\ IF GroupOf(config) # Unset /\ DeploymentFits(config) /\ ProgramFits(config)
     THEN LET d == OfGroup(GroupOf(config))
              of(field) == IF d = Unset THEN Unset ELSE d[field]
          IN /\ context' = [group |-> GroupOf(config), cluster |-> ClusterFor(config),
                            program |-> Given(config.program, of("program")),
                            url |-> Given(config.url, Given(of("rpcUrl"), DefaultUrl[ClusterFor(config)])),
                            gateway |-> Given(config.gateway, of("gateway")),
                            deployment |-> of("name")]
             /\ stage' = "reading"
     ELSE stage' = "error" /\ UNCHANGED context
  /\ UNCHANGED config

\* getFermiAccount: the node has the account, and the program owns it; then its group.
AccountFits ==
  /\ Home[config.account] = [cluster |-> ClusterOf[context.url], program |-> context.program]
  /\ config.account = context.group

ReadAccount ==
  /\ stage = "reading"
  /\ stage' = IF AccountFits THEN "loading" ELSE "error"
  /\ UNCHANGED <<config, context>>

\* getGroup.
ReadGroup ==
  /\ stage = "loading"
  /\ stage' = "ready"
  /\ UNCHANGED <<config, context>>

ContextFails ==
  /\ stage \in {"reading", "loading"}
  /\ stage' = "error"
  /\ UNCHANGED <<config, context>>

ContextNext == Resolve \/ ReadAccount \/ ReadGroup \/ ContextFails

ContextSpec == ContextInit /\ [][ContextNext]_contextVars

-----------------------------------------------------------------------------

\* Whatever mixture of preset, environment and explicit values a context was made from, its
\* account lives under its program and in its group on the cluster its node serves; if the group
\* is a registered one, then cluster, program, name and, unless given, gateway and node are those
\* of that one deployment, and of the deployment that was named.  (context.ts 113-209)
OneDeployment ==
  stage = "ready" =>
    /\ config.account = context.group
    /\ Home[context.group] = [cluster |-> ClusterOf[context.url], program |-> context.program]
    /\ config.url = Unset => ClusterOf[context.url] = context.cluster
    /\ \A d \in Registry : d.group = context.group \/ d.name = config.deployment =>
         /\ context.group = d.group /\ context.program = d.program
         /\ context.cluster = d.cluster /\ context.deployment = d.name
         /\ context.gateway = Given(config.gateway, d.gateway)
         /\ context.url = Given(config.url, d.rpcUrl)

=============================================================================
