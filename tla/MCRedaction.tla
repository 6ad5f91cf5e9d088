---------------------------- MODULE MCRedaction ----------------------------
(* Redaction with labels that hide an environment variable, each other and  *)
(* a name with a dot, with tasks that run, have stopped or are pruned, and  *)
(* with paths by JSON name, by Go name, by index and by key, through        *)
(* pointers and wildcards, one inside another, and an empty one.            *)
EXTENDS Redaction

W(s) == [i \in DOMAIN s |-> <<s[i]>>]
Dotted == <<"a", Dot, "b">>

DefaultPaths ==
    <<W(<<"nodes", "*", "Description", "TLSInfo">>),
      W(<<"services", "*", "Spec", "TaskTemplate", "ContainerSpec", "Mounts", "*", "Source">>),
      W(<<"tasks", "*", "Spec", "ContainerSpec", "Mounts", "*", "Source">>)>>

ServicePaths ==
    {W(<<"services", "*", "Spec", "TaskTemplate", "ContainerSpec", "Labels">>) \o <<Dotted>>,
     W(<<"Services", "*", "Spec", "Annotations", "Labels", "*">>),
     W(<<"services", "*", "Spec">>)}
TaskPaths == {W(<<"tasks", "0", "Spec", "ContainerSpec", "Env", "1">>), W(<<"tasks">>)}
PanicPath == W(<<"nodes", "*", "Meta", "CreatedAt", "*">>)

\* A path by the index of a task, and one that is read off the JSON output.
IndexPath == W(<<"tasks", "0", "Spec", "ContainerSpec", "Env">>)
WildcardPath == W(<<"tasks", "*", "*", "ContainerSpec", "Env", "0">>)
JsonPath == W(<<"services", "*", "Spec", "Labels">>)

Flags ==
    {<<{}, {}>>, <<{"Mounts", "Configs"}, {"service"}>>, <<{"Env", "Secrets"}, {"all"}>>}

Config(flags, parts) ==
    [hideAll |-> flags[1], hideLabels |-> flags[2], parts |-> parts,
     paths |-> [i \in DOMAIN parts |-> Write(parts[i])]]

InEitherOrder(paths) == {s \in paths \X paths : s[1] # s[2]}

LabelConfigs ==
    {Config(f, DefaultPaths) : f \in Flags}
    \cup {Config(<<{}, {}>>, s) : s \in InEitherOrder(ServicePaths) \cup InEitherOrder(TaskPaths)}
    \cup {Config(<<{}, {}>>, <<<<>>, PanicPath>>)}

TaskConfigs ==
    {Config(<<{}, {}>>, s) : s \in {<<IndexPath>>, <<WildcardPath, W(<<"tasks", "0", "Spec">>)>>}}

MCConfigs == LabelConfigs \cup TaskConfigs

Swarm(running, stopped, labels, containerLabels) ==
    [running |-> running, stopped |-> stopped, labels |-> labels, others |-> <<"o">> :> {<<"other">>},
     networks |-> W(<<"ingress", "overlay">>),
     container |-> [Labels |-> containerLabels, Mounts |-> <<{<<"/src">>}>>,
                    Env |-> <<[key |-> <<"E1">>, val |-> {<<"v1">>}], [key |-> <<"E2">>, val |-> {}]>>,
                    Secrets |-> <<{<<"secret">>}>>, Configs |-> <<{<<"config">>}>>]]

t1 == <<"t1">>
t2 == <<"t2">>

LabelSwarms ==
    {Swarm(<<t1>>, {}, <<>>, <<>>),
     Swarm(<<t1>>, {}, HideEnvs :> {<<"E1">>}, HideLabels :> {Dotted} @@ Dotted :> {<<"c">>}),
     Swarm(<<t1>>, {},
           HideLabels :> {HideEnvs, Dotted} @@ HideEnvs :> {<<"E1">>, <<"E2">>} @@ Dotted :> {<<"l">>},
           Dotted :> {<<"c">>})}

\* t1 runs, t2 has stopped; t1 has stopped as well; both are pruned.  They have
\* environment variables only.
Bare(running, stopped) ==
    [Swarm(running, stopped, <<>>, <<>>)
        EXCEPT !.networks = <<>>, !.container.Mounts = <<>>, !.container.Secrets = <<>>,
               !.container.Configs = <<>>]
TaskSwarms == {Bare(<<t1>>, {t2}), Bare(<<t1>>, {t1}), Bare(<<>>, {})}

\* Labels change under the one half of the configurations, tasks under the other.
MCSwarms == [c \in MCConfigs |-> IF c \in TaskConfigs THEN TaskSwarms ELSE LabelSwarms]

\* What the theorems assume of the swarms and of the paths (RedactionProofs).
MCText ==
    {HideEnvs, HideLabels, Dotted} \cup {<<w>> : w \in {"E1", "E2", "v1", "c", "l", "/src", "secret", "config"}}
MCTokens ==
    {Dot, Quote} \cup UNION {UNION {UNION {Range(p) : p \in Range(path)} : path \in Range(c.parts)} : c \in Configs}
ASSUME MCRedactionAssumption ==
    /\ \A c \in Configs : \A s \in Swarms[c] : IsService(MCText, s) /\ SecretsStandOut(s)
    /\ AsWritten(MCTokens)

AnyPlace == Permutations(Slices) \cup Permutations(Specs)
=============================================================================
