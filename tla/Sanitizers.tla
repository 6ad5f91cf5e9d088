----------------------------- MODULE Sanitizers -----------------------------
(***************************************************************************)
(* sanitizeServices, sanitizeTasks and sanitizeNodes of                    *)
(* internal/docker/inspect.go: what the configuration, and labels of a     *)
(* service, take out of one service, task or node.                         *)
(*                                                                         *)
(* Labels map a name to the set of names their value lists, or of its one  *)
(* word.  An entry of the environment has a key and a value; one without   *)
(* '=' has no value.  One container stands for a ContainerSpec.            *)
(***************************************************************************)
EXTENDS Sequences

HideEnvs == <<"hide-envs">>
HideLabels == <<"hide-labels">>
Sanitized == {<<"(sanitized)">>}

\* What Docker can answer when names, keys and values are among Text.
IsLabels(Text, m) == DOMAIN m \subseteq Text /\ \A l \in DOMAIN m : m[l] \subseteq Text
Entries(Text) == [key : Text, val : SUBSET Text]
IsContainer(Text, c) ==
    /\ DOMAIN c = {"Labels", "Env", "Mounts", "Secrets", "Configs"}
    /\ IsLabels(Text, c.Labels) /\ c.Env \in Seq(Entries(Text))
    /\ \A f \in {"Mounts", "Secrets", "Configs"} : c[f] \in Seq(SUBSET Text)
IsService(Text, s) == IsLabels(Text, s.labels) /\ IsContainer(Text, s.container)

\* What HIDE_ALL_CONFIGS, _ENVS, _MOUNTS and _SECRETS name.
Hideable == {"Configs", "Env", "Mounts", "Secrets"}
-----------------------------------------------------------------------------
\* slices.Contains(cfg.HideLabels, "all") || slices.Contains(cfg.HideLabels, kind)
Hides(conf, kind) == conf.hideLabels \cap {"all", kind} # {}

\* The fields in hideAll, and HIDE_LABELS=container.
StripContainer(conf, c) ==
    [f \in DOMAIN c |->
        IF f \in conf.hideAll \/ (f = "Labels" /\ Hides(conf, "container")) THEN <<>> ELSE c[f]]

\* The names a label of this kind lists.
Listed(labels, kind) == IF kind \in DOMAIN labels THEN labels[kind] ELSE {}

\* The hide-labels label of a service or a container.
MaskLabels(labels) ==
    [l \in DOMAIN labels |-> IF l \in Listed(labels, HideLabels) THEN Sanitized ELSE labels[l]]

\* The hide-envs label; an entry without '=' has no value, and gets one.
MaskEnvs(env, labels) ==
    [i \in DOMAIN env |->
        IF env[i].key \in Listed(labels, HideEnvs)
          THEN [env[i] EXCEPT !.val = Sanitized] ELSE env[i]]

\* sanitizeNodes and getNetworksInfo, which remove all labels or none.
LabelsOf(conf, labels, kind) == IF Hides(conf, kind) THEN <<>> ELSE labels

SanitizeLabelsFirst(conf, s) ==
    LET labels == MaskLabels(LabelsOf(conf, s.labels, "service"))
        c == StripContainer(conf, s.container)
    IN  [labels |-> labels,
         container |-> [c EXCEPT !.Env = MaskEnvs(@, labels), !.Labels = MaskLabels(@)]]

\* sanitizeServices: by the time the labels of a service are read, HIDE_LABELS
\* may have removed them.
SanitizeService(conf, s) ==
    LET labels == LabelsOf(conf, s.labels, "service")
        c == StripContainer(conf, s.container)
    IN  [labels |-> MaskLabels(labels),
         container |-> [c EXCEPT !.Env = MaskEnvs(@, labels), !.Labels = MaskLabels(@)]]
-----------------------------------------------------------------------------
(* The reference: what the labels of a service hide, and when another       *)
(* service looks the same to somebody who may not see that, nor what the    *)
(* configuration hides.                                                     *)

HiddenEnvs(conf, s) == Listed(LabelsOf(conf, s.labels, "service"), HideEnvs)
HiddenLabels(conf, s) == Listed(LabelsOf(conf, s.labels, "service"), HideLabels)
HiddenInContainer(conf, s) == Listed(LabelsOf(conf, s.container.Labels, "container"), HideLabels)

SameLabels(hidden, m, n) ==
    DOMAIN m = DOMAIN n /\ \A l \in DOMAIN m \ hidden : m[l] = n[l]

SameEnv(hidden, e, f) ==
    /\ DOMAIN e = DOMAIN f
    /\ \A i \in DOMAIN e : e[i].key = f[i].key /\ (e[i].key \in hidden \/ e[i].val = f[i].val)

LooksTheSame(conf, s, t) ==
    LET c == s.container
        d == t.container
    IN  /\ Hides(conf, "service") \/ SameLabels(HiddenLabels(conf, s), s.labels, t.labels)
        /\ Hides(conf, "container") \/ SameLabels(HiddenInContainer(conf, s), c.Labels, d.Labels)
        /\ "Env" \in conf.hideAll \/ SameEnv(HiddenEnvs(conf, s), c.Env, d.Env)
        /\ \A f \in {"Configs", "Mounts", "Secrets"} \ conf.hideAll : c[f] = d[f]

\* The two services ask to hide the same.
HideTheSame(conf, s, t) ==
    /\ HiddenEnvs(conf, s) = HiddenEnvs(conf, t)
    /\ HiddenLabels(conf, s) = HiddenLabels(conf, t)
    /\ HiddenInContainer(conf, s) = HiddenInContainer(conf, t)
=============================================================================
