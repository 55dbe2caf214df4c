---------------------------- MODULE AtomicConfig ----------------------------
(***************************************************************************)
(* What the configuration manager promises: the four files behave as one   *)
(* value that only whole operations change.  An operation that is refused, *)
(* that fails, that is rolled back or that a crash interrupts is no step.  *)
(***************************************************************************)
EXTENDS ConfigFiles

VARIABLE config

Init == config \in FreshDirectories

\* initialize() creates base, then draft, then active, when they are missing.
Create(path) ==
    /\ config[path] = NoFile
    /\ path = "effective" => config["base"] # NoFile /\ config["active"] # NoFile
    /\ config' = [config EXCEPT ![path] = InitialContent(config, path)]

\* initialize() regenerates an effective file that is out of date.
Reconcile ==
    /\ \A path \in Path : config[path] # NoFile
    /\ ~ InSync(config)
    /\ config' = [config EXCEPT !["effective"] = Merge(config["base"], config["active"])]

SaveDraft(items) ==
    /\ InSync(config)
    /\ config' = [config EXCEPT !["draft"] = items]

ApplyBase(text) ==
    /\ InSync(config)
    /\ config' = [config EXCEPT !["base"] = text,
                                !["effective"] = Merge(text, config["active"])]

ApplyOverrides ==
    /\ InSync(config)
    /\ config' = [config EXCEPT !["active"] = config["draft"],
                                !["effective"] = Merge(config["base"], config["draft"])]

Next ==
    \/ \E path \in Path : Create(path)
    \/ Reconcile
    \/ \E items \in Items : SaveDraft(items)
    \/ \E text \in Submitted : ApplyBase(text)
    \/ ApplyOverrides

Spec == Init /\ [][Next]_config
=============================================================================
