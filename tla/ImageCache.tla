------------------------------ MODULE ImageCache -------------------------------
(***************************************************************************)
(* What `ryra test --vm` keeps under ~/.cache/ryra-vm from run to run: the *)
(* downloaded cloud image, the images prepared from it, the snapshots that *)
(* are overlays of those and spare a boot, and the container images.  A    *)
(* run goes through them in order, reuses what it finds by its name alone, *)
(* and may die or fail at any point; what it leaves is the next run's.     *)
(*                                                                         *)
(* One run at a time, of one distribution.  Left out: the firmware, the    *)
(* key's generation, progress, logs, what the guests are told to do.       *)
(***************************************************************************)
EXTENDS Naturals, Sequences, FiniteSets, SequencesExt

CONSTANTS
    Containers,   \* container images of the services
    Sizes,        \* memory sizes snapshots are made for
    MaxPublished, \* bound: versions of the cloud image published upstream
    MaxFaults     \* bound: steps that fail, runs that are killed

Kinds == {"base", "browser"}

ASSUME ImageCacheConstants ==
    Sizes \subseteq Nat \ {0} /\ MaxPublished \in Nat \ {0} /\ MaxFaults \in Nat

VARIABLES
    upstream,  \* the version the distribution publishes
    raw,       \* the version downloaded, 0 if none
    image,     \* per kind, the prepared image: which one it is, of what, whole
    snap,      \* per kind and size, the snapshot: on which image, how far moved
    store,     \* container images in the store the machines share
    tar,       \* per container image, its intermediate tar
    pc,        \* where the run is
    kind,      \* the kind of image it is at
    wanted,    \* what it was asked: redownload, browser, size, containers
    usable,    \* kinds it will restore from a snapshot (Image::snapshot is Some)
    port,      \* the next port for ssh, counted by the process
    vms,       \* QEMU processes that are alive
    made,      \* history: prepared images so far
    doubtful,  \* history: kinds whose image or snapshots a failure, a redownload,
               \* or what they were built from has spoilt
    faults

files == <<upstream, raw, image, snap, store, tar>>
run == <<pc, kind, wanted, usable, port>>
cacheVars == <<files, run, vms, made, doubtful, faults>>

NoImage == [id |-> 0, of |-> 0, whole |-> FALSE]
NoSnapshot == [on |-> 0, moved |-> 0, ready |-> FALSE]
Nothing == [redownload |-> FALSE, browser |-> FALSE, size |-> 0, containers |-> {}]
FirstPort == 22

CacheInit ==
    /\ upstream = 1 /\ raw = 0
    /\ image = [k \in Kinds |-> NoImage]
    /\ snap = [k \in Kinds |-> [m \in Sizes |-> NoSnapshot]]
    /\ store = {} /\ tar = [c \in Containers |-> "none"]
    /\ pc = "idle" /\ kind = "base" /\ wanted = Nothing /\ usable = {} /\ port = FirstPort
    /\ vms = {} /\ made = 0 /\ doubtful = {} /\ faults = 0

Fault == faults < MaxFaults /\ faults' = faults + 1

\* A QEMU the process has started for `who` and not accounted for: it is not in
\* ACTIVE_VMS, and outlives the process.
Stray(at, who, shared) == [port |-> at, of |-> who, shared |-> shared, fate |-> "old"]
Held(at) == \E v \in vms : v.port = at

\* ssh to the port, with the key all images share: whoever has it answers.
Answers(at) == \E v \in vms : v.port = at /\ v.shared

\* An error that run() passes on: the process ends.
Abandon == pc' = "idle" /\ UNCHANGED <<kind, wanted, usable, port>>

(***************************************************************************)
(* The cloud image and what is prepared from it.                           *)
(***************************************************************************)

\* Upstream's "latest" moves (only a download looks, once in a run).
Publish ==
    /\ pc = "idle" /\ upstream < MaxPublished /\ upstream' = upstream + 1
    /\ UNCHANGED <<raw, image, snap, store, tar, run, vms, made, doubtful, faults>>

\* ensure_image: the download goes to another name first.  What was prepared from
\* another version is still found.
Outdated == {k \in Kinds : image[k].id # 0 /\ image[k].of # upstream}
Download ==
    /\ pc = "raw" /\ (wanted.redownload \/ raw = 0)
    /\ \/ raw' = upstream /\ pc' = "drop" /\ doubtful' = doubtful \cup Outdated
          /\ UNCHANGED <<kind, wanted, usable, port, faults>>
       \/ Fault /\ Abandon /\ UNCHANGED <<raw, doubtful>>
    /\ UNCHANGED <<upstream, image, snap, store, tar, vms, made>>

KeepDownload ==
    /\ pc = "raw" /\ ~wanted.redownload /\ raw # 0
    /\ pc' = "image"
    /\ UNCHANGED <<files, kind, wanted, usable, port, vms, made, doubtful, faults>>

\* The prepared image goes, a step later; its snapshots stay, and so does an image
\* for the browser.  With no snapshots there is nothing left of a kind to doubt.
Dropped(k) == [image EXCEPT ![k] = NoImage]
HasSnapshots(k) == \E m \in Sizes : snap[k][m].on # 0
AfterDrop(k) == IF HasSnapshots(k) THEN doubtful \cup {k} ELSE doubtful \ {k}
DropPrepared ==
    /\ pc = "drop"
    /\ image' = Dropped("base")
    /\ doubtful' = AfterDrop("base")
    /\ pc' = "image"
    /\ UNCHANGED <<upstream, raw, snap, store, tar, kind, wanted, usable, port, vms, made, faults>>

KeepImage ==
    /\ pc = "image" /\ image[kind].id # 0
    /\ pc' = "snapshot"
    /\ UNCHANGED <<files, kind, wanted, usable, port, vms, made, doubtful, faults>>

\* Whether a machine can be started from what there is for a kind: a restore
\* copies the three files of the snapshot and loads the state in the first.
Startable(k) ==
    k \in usable => snap[k][wanted.size].moved = 3 /\ snap[k][wanted.size].ready

\* prepare_image boots the raw image and lets it install packages,
\* prepare_browser_image starts a machine from the base image or its snapshot; both
\* take a port.  The result is converted straight to the name it is found by.
Inherited(k) == k = "browser" /\ "base" \in doubtful
BootToPrepare ==
    /\ pc = "image" /\ image[kind].id = 0
    /\ kind = "browser" => Startable("base")
    /\ ~Held(port)
    /\ made' = made + 1
    /\ image' = [image EXCEPT ![kind] = [id |-> made + 1, whole |-> FALSE,
                    of |-> IF kind = "base" THEN raw ELSE image["base"].of]]
    /\ doubtful' = IF Inherited(kind) THEN doubtful \cup {kind} ELSE doubtful
    /\ port' = port + 1 /\ pc' = "convert"
    /\ UNCHANGED <<upstream, raw, snap, store, tar, kind, wanted, usable, vms, faults>>

\* A restored machine whose port is another's is not missed when that one takes
\* the shared key: the browser is installed there, and it is powered off.
InstallElsewhere ==
    /\ pc = "image" /\ kind = "browser" /\ image[kind].id = 0
    /\ "base" \in usable /\ Startable("base")
    /\ \E v \in vms : v.port = port /\ v.shared /\ vms' = vms \ {v}
    /\ made' = made + 1
    /\ image' = [image EXCEPT ![kind] =
                    [id |-> made + 1, whole |-> FALSE, of |-> image["base"].of]]
    /\ doubtful' = doubtful \cup {kind}
    /\ port' = port + 1 /\ pc' = "convert"
    /\ UNCHANGED <<upstream, raw, snap, store, tar, kind, wanted, usable, faults>>

\* A port that is taken, a guest that does not come up, a command that fails.
\* Only some of prepare_image's exits kill the QEMU it started.
FailToPrepare ==
    /\ pc = "image" /\ image[kind].id = 0
    /\ \/ /\ \/ Held(port) /\ ~(kind = "browser" /\ "base" \in usable /\ Answers(port))
             \/ kind = "browser" /\ ~Startable("base")
          /\ UNCHANGED <<vms, faults>>
       \/ /\ Fault
          /\ \/ UNCHANGED vms
             \/ kind = "base" /\ ~Held(port) /\ vms' = vms \cup {Stray(port, "base", FALSE)}
    /\ Abandon
    /\ UNCHANGED <<files, made, doubtful>>

Convert ==
    /\ pc = "convert"
    /\ \/ /\ image' = [image EXCEPT ![kind].whole = TRUE]
          /\ pc' = "snapshot"
          /\ UNCHANGED <<kind, wanted, usable, port, doubtful, faults>>
       \/ /\ Fault /\ Abandon
          /\ doubtful' = doubtful \cup {kind} /\ UNCHANGED image
    /\ UNCHANGED <<upstream, raw, snap, store, tar, vms, made>>

(***************************************************************************)
(* The snapshot of a kind, for the memory of the largest test.             *)
(***************************************************************************)

\* On to the browser's image, if a test needs one, or to the containers.  A
\* redownload first drops the browser's image.
Continue(spoilt) ==
    IF kind = "base" /\ wanted.browser
    THEN /\ kind' = "browser" /\ pc' = "image"
         /\ image' = IF wanted.redownload THEN Dropped("browser") ELSE image
         /\ doubtful' = spoilt \cup IF wanted.redownload THEN AfterDrop("browser") ELSE doubtful
    ELSE pc' = "containers" /\ doubtful' = doubtful \cup spoilt /\ UNCHANGED <<kind, image>>

\* The first of the three files stands for the snapshot.
Found(s) == s.moved > 0
Current == snap[kind][wanted.size]
ReuseSnapshot ==
    /\ pc = "snapshot" /\ Found(Current)
    /\ usable' = usable \cup {kind}
    /\ Continue({})
    /\ UNCHANGED <<upstream, raw, snap, store, tar, wanted, port, vms, made, faults>>

\* create_snapshot looks in the disk it saved for the state before it moves it.
VerifiedNever(ready) == TRUE   \* mutant: savevm's slowness goes unseen
Verified(ready) == ready
Save ==
    /\ pc = "snapshot" /\ ~Found(Current) /\ ~Held(port)
    /\ port' = port + 1
    /\ \E ready \in BOOLEAN :
         /\ IF ready THEN UNCHANGED faults ELSE Fault
         /\ IF Verified(ready)
            THEN /\ snap' = [snap EXCEPT ![kind][wanted.size] =
                                [on |-> image[kind].id, moved |-> 1, ready |-> ready]]
                 /\ pc' = "move" /\ UNCHANGED <<kind, image, doubtful>>
            ELSE Continue({}) /\ UNCHANGED snap
    /\ UNCHANGED <<upstream, raw, store, tar, wanted, usable, vms, made>>

\* A failure is a warning, and the machines boot cold.  With its port taken the
\* new QEMU is gone at once, whoever answers there, and nothing is saved.
FailToSave ==
    /\ pc = "snapshot" /\ ~Found(Current)
    /\ IF Held(port) THEN UNCHANGED <<vms, faults>>
       ELSE Fault /\ vms' \in {vms, vms \cup {Stray(port, kind, TRUE)}}
    /\ port' = port + 1
    /\ Continue({})
    /\ UNCHANGED <<upstream, raw, snap, store, tar, wanted, usable, made>>

\* The other two files follow.
MoveNext ==
    /\ pc = "move"
    /\ \/ /\ snap' = [snap EXCEPT ![kind][wanted.size].moved = @ + 1]
          /\ IF Current.moved = 2
             THEN usable' = usable \cup {kind} /\ Continue({})
             ELSE UNCHANGED <<usable, pc, kind, image, doubtful>>
          /\ UNCHANGED faults
       \/ Fault /\ Continue({kind}) /\ UNCHANGED <<snap, usable>>
    /\ UNCHANGED <<upstream, raw, store, tar, wanted, port, vms, made>>

(***************************************************************************)
(* ensure_image_cached, for each container image the tests name.           *)
(***************************************************************************)
SaveTar(c) ==
    /\ pc = "containers" /\ c \in wanted.containers \ store /\ tar[c] = "none"
    /\ \/ tar' = [tar EXCEPT ![c] = "partial"] /\ pc' = "saving"
          /\ UNCHANGED <<kind, wanted, usable, port, faults>>
       \/ Fault /\ Abandon /\ UNCHANGED tar
    /\ UNCHANGED <<upstream, raw, image, snap, store, vms, made, doubtful>>

TarSaved(c) ==
    /\ pc = "saving" /\ tar[c] = "partial"
    /\ \/ tar' = [tar EXCEPT ![c] = "whole"] /\ pc' = "containers"
          /\ UNCHANGED <<kind, wanted, usable, port, faults>>
       \/ Fault /\ Abandon /\ tar' = [tar EXCEPT ![c] = "none"]
    /\ UNCHANGED <<upstream, raw, image, snap, store, vms, made, doubtful>>

\* A tar that is found is loaded; it goes once it is in the store.
LoadTar(c) ==
    /\ pc = "containers" /\ c \in wanted.containers \ store /\ tar[c] # "none"
    /\ \/ /\ tar[c] = "whole"
          /\ store' = store \cup {c} /\ tar' = [tar EXCEPT ![c] = "none"]
          /\ UNCHANGED <<run, faults>>
       \/ /\ IF tar[c] = "partial" THEN UNCHANGED faults ELSE Fault
          /\ Abandon /\ UNCHANGED <<store, tar>>
    /\ UNCHANGED <<upstream, raw, image, snap, vms, made, doubtful>>

Cached == pc = "containers" /\ wanted.containers \subseteq store

(***************************************************************************)
(* The process dies while it prepares: what it wrote stays, and what it    *)
(* had booted goes with it or stays (a Ctrl-C reaches the group, a kill    *)
(* only the process).                                                      *)
(***************************************************************************)
Preparing == pc \in {"raw", "drop", "image", "convert", "snapshot", "move",
                     "containers", "saving"}
DieWhilePreparing ==
    /\ Preparing /\ Fault
    /\ vms' \in {vms} \cup
         (IF pc \in {"image", "snapshot"} /\ ~Held(port)
          THEN {vms \cup {Stray(port, kind, pc = "snapshot" \/ "base" \in usable)}} ELSE {})
    /\ doubtful' = IF pc \in {"convert", "move"} THEN doubtful \cup {kind} ELSE doubtful
    /\ Abandon
    /\ UNCHANGED <<files, made>>

Prepare ==
    \/ Download \/ KeepDownload \/ DropPrepared \/ KeepImage
    \/ BootToPrepare \/ InstallElsewhere \/ FailToPrepare \/ Convert
    \/ ReuseSnapshot \/ Save \/ FailToSave \/ MoveNext
    \/ \E c \in Containers : SaveTar(c) \/ TarSaved(c) \/ LoadTar(c)
    \/ DieWhilePreparing
================================================================================
