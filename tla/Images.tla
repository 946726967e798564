------------------------------- MODULE Images -------------------------------
(***************************************************************************)
(* Golden images (internal/state: image.go, image_stamp.go,                *)
(* image_index.go, image_archive.go, image_slim*.go): builds, stamps and   *)
(* deletions under one mutex, the registry of slimmed simulators that an   *)
(* erase consults, other programs on the host that boot what they find, a  *)
(* crash of the daemon at any step and the sweep at the next start.  A     *)
(* simctl call may fail wherever its error is looked at or dropped.  The   *)
(* services a slim image disables are one bit per simulator.               *)
(***************************************************************************)
EXTENDS Naturals, Sequences, FiniteSets

CONSTANTS
  Img, SlimImg,      \* images, and the ones built with a slim profile
  Dev,               \* simulators that may come to exist
  StampCount,        \* simulators per stamp
  MaxImgOps, MaxImgCrashes

ASSUME ImagesAssumption ==
  SlimImg \subseteq Img /\ StampCount \in Nat \ {0} /\ MaxImgOps \in Nat /\ MaxImgCrashes \in Nat

VARIABLES
  dev,        \* what simctl knows of each simulator
  archive,    \* <id>.tar.zst, and what the index recorded as its digest
  listed,     \* images.json
  tmps,       \* files of unfinished operations
  slimmed,    \* slimmed.json
  iop,        \* the operation that holds the store's mutex
  erasing,    \* simulators between an erase and its postErase hook
  told,       \* simulators whose erase failed or was cut off
  stranded,   \* hidden simulators a clean-up could not delete
  imgOps, imgCrashes

imgVars == <<dev, archive, listed, tmps, slimmed, iop, erasing, told, stranded, imgOps, imgCrashes>>

NoDev == [name |-> "none", on |-> FALSE, data |-> "stock", slim |-> FALSE, of |-> "none"]
NoOp == [kind |-> "none", img |-> "none", step |-> "none", made |-> <<>>, n |-> 0]
Absent == {d \in Dev : dev[d].name = "none" /\ d \notin erasing \cup told}   \* fresh UDIDs
Hidden == {d \in Dev : dev[d].name = "hidden"}
Public == {d \in Dev : dev[d].name = "public"}
Made == {iop.made[k] : k \in DOMAIN iop.made}

ImgTypeOK ==
  /\ dev \in [Dev -> [name: {"none", "hidden", "public"}, on: BOOLEAN, slim: BOOLEAN,
                      data: {"stock", "image", "torn"}, of: Img \cup {"none"}]]
  /\ archive \in [Img -> [file: {"none", "whole", "torn", "swapped"}, sum: {"none", "whole", "torn"}]]
  /\ listed \subseteq Img /\ tmps \subseteq Img /\ slimmed \subseteq Dev
  /\ iop.kind \in {"none", "build", "stamp", "delete", "sweep"} /\ Made \subseteq Dev
  /\ erasing \subseteq Dev /\ told \subseteq Dev /\ stranded \subseteq Dev
  /\ imgOps \in 0..MaxImgOps /\ imgCrashes \in 0..MaxImgCrashes

ImgInit ==
  /\ dev = [d \in Dev |-> NoDev]
  /\ archive = [i \in Img |-> [file |-> "none", sum |-> "none"]]
  /\ listed = {} /\ tmps = {} /\ slimmed = {} /\ iop = NoOp
  /\ erasing = {} /\ told = {} /\ stranded = {} /\ imgOps = 0 /\ imgCrashes = 0

ToStep(step) == iop' = [iop EXCEPT !.step = step]
Others_ == <<erasing, told, imgOps, imgCrashes>>
StartOp(kind, i, step) ==
  /\ iop = NoOp /\ imgOps < MaxImgOps /\ imgOps' = imgOps + 1
  /\ iop' = [NoOp EXCEPT !.kind = kind, !.img = i, !.step = step]
  /\ UNCHANGED <<dev, archive, listed, tmps, slimmed, erasing, told, stranded, imgCrashes>>
Creates(d, step) ==    \* simctl create, hidden, and shut down
  /\ d \in Absent /\ dev' = [dev EXCEPT ![d] = [NoDev EXCEPT !.name = "hidden", !.of = iop.img]]
  /\ iop' = [iop EXCEPT !.step = step, !.made = @ \o <<d>>]

-----------------------------------------------------------------------------
(* Build. *)
StartBuild(i) == i \notin listed /\ StartOp("build", i, "create")
BuildCreates ==
  /\ iop.kind = "build" /\ iop.step = "create"
  /\ \/ \E d \in Absent : Creates(d, IF iop.img \in SlimImg THEN "slim" ELSE "check")
     \/ iop' = NoOp /\ UNCHANGED dev
  /\ UNCHANGED <<archive, listed, tmps, slimmed, stranded, Others_>>
Builder == iop.made[1]
SlimBuilder ==         \* boot, simslim, capture and verify, shut down
  /\ iop.kind = "build" /\ iop.step = "slim"
  /\ \/ ~ dev[Builder].on /\ dev' = [dev EXCEPT ![Builder].slim = TRUE] /\ ToStep("check")
     \/ dev' = [dev EXCEPT ![Builder].on = TRUE] /\ ToStep("discard")
     \/ ToStep("discard") /\ UNCHANGED dev
  /\ UNCHANGED <<archive, listed, tmps, slimmed, stranded, Others_>>
BuildChecks ==
  /\ iop.kind = "build" /\ iop.step = "check"
  /\ ToStep(IF dev[Builder].on THEN "discard" ELSE "pack")
  /\ UNCHANGED <<dev, archive, listed, tmps, slimmed, stranded, Others_>>
PackImage ==           \* staged in a .tmp, renamed in
  /\ iop.kind = "build" /\ iop.step \in {"pack", "packed"}
  /\ IF iop.step = "pack" THEN tmps' = tmps \cup {iop.img} /\ ToStep("packed") /\ UNCHANGED archive
     ELSE /\ tmps' = tmps \ {iop.img}
          /\ \/ /\ archive' = [archive EXCEPT ![iop.img].file =
                     IF dev[Builder].on THEN "torn" ELSE "whole"]
                /\ ToStep("recheck")
             \/ ToStep("discard") /\ UNCHANGED archive
  /\ UNCHANGED <<dev, listed, slimmed, stranded, Others_>>
BuildCommits_Blindly ==
  /\ iop.kind = "build" /\ iop.step = "recheck"
  /\ listed' = listed \cup {iop.img}
  /\ archive' = [archive EXCEPT ![iop.img].sum = archive[iop.img].file] /\ ToStep("discard")
  /\ UNCHANGED <<dev, tmps, slimmed, stranded, Others_>>
BuildCommits ==        \* the state again, then the digest and the index entry
  /\ iop.kind = "build" /\ iop.step = "recheck"
  /\ \/ /\ ~ dev[Builder].on /\ listed' = listed \cup {iop.img}
        /\ archive' = [archive EXCEPT ![iop.img].sum = archive[iop.img].file]
     \/ /\ archive' = [archive EXCEPT ![iop.img].file = "none"] /\ UNCHANGED listed
  /\ ToStep("discard")
  /\ UNCHANGED <<dev, tmps, slimmed, stranded, Others_>>

(* The builder, or every simulator of a failed stamp, is shut down and     *)
(* deleted; ForgetBatch comes last.  A deletion that fails is dropped.     *)
Deletes(ds) ==
  \E gone \in SUBSET ds :
    /\ dev' = [d \in Dev |-> IF d \in gone THEN NoDev ELSE dev[d]]
    /\ stranded' = (stranded \cup ds) \ gone
Cleanup_OnlyIfOff ==
  /\ iop.kind \in {"build", "stamp"} /\ iop.step = "discard"
  /\ dev' = [d \in Dev |-> IF d \in Made /\ ~ dev[d].on THEN NoDev ELSE dev[d]]
  /\ slimmed' = slimmed \ Made /\ iop' = NoOp /\ tmps' = tmps \ {iop.img}
  /\ UNCHANGED <<archive, listed, stranded, Others_>>
Cleanup ==
  /\ iop.kind \in {"build", "stamp"} /\ iop.step = "discard"
  /\ Deletes(Made) /\ slimmed' = slimmed \ Made /\ iop' = NoOp
  /\ tmps' = tmps \ {iop.img}
  /\ UNCHANGED <<archive, listed, Others_>>

-----------------------------------------------------------------------------
(* Stamp: refused when the archive is not what the index recorded, else    *)
(* unpacked once, into StampCount hidden simulators.                       *)
StartStamp(i) == i \in listed /\ StartOp("stamp", i, "verify")
StampVerifies ==
  /\ iop.kind = "stamp" /\ iop.step = "verify"
  /\ \/ /\ archive[iop.img].file = archive[iop.img].sum /\ tmps' = tmps \cup {iop.img}
        /\ ToStep("create")
     \/ iop' = NoOp /\ UNCHANGED tmps
  /\ UNCHANGED <<dev, archive, listed, slimmed, stranded, Others_>>
Last_ == iop.made[Len(iop.made)]
StampCreates ==
  /\ iop.kind = "stamp" /\ iop.step = "create"
  /\ \/ \E d \in Absent : Creates(d, "check")
     \/ ToStep("discard") /\ UNCHANGED dev
  /\ UNCHANGED <<archive, listed, tmps, slimmed, stranded, Others_>>
StampChecks ==
  /\ iop.kind = "stamp" /\ iop.step = "check"
  /\ ToStep(IF dev[Last_].on THEN "discard" ELSE "replace")
  /\ UNCHANGED <<dev, archive, listed, tmps, slimmed, stranded, Others_>>
AfterOne == IF Len(iop.made) < StampCount THEN "create" ELSE "commit"
StampReplaces ==       \* ReplaceDir: the disables do not travel with the data
  /\ iop.kind = "stamp" /\ iop.step = "replace"
  /\ \/ /\ dev' = [dev EXCEPT ![Last_].data =
               IF dev[Last_].on \/ archive[iop.img].file # "whole" THEN "torn" ELSE "image"]
        /\ ToStep(IF iop.img \in SlimImg THEN "reslim" ELSE AfterOne)
     \/ ToStep("discard") /\ UNCHANGED dev
  /\ UNCHANGED <<archive, listed, tmps, slimmed, stranded, Others_>>
ReslimStamped ==       \* boot, ensureDisabled, verify, shut down
  /\ iop.kind = "stamp" /\ iop.step = "reslim"
  /\ \/ /\ ~ dev[Last_].on /\ dev' = [dev EXCEPT ![Last_].slim = TRUE] /\ ToStep(AfterOne)
     \/ ToStep("discard") /\ \E on \in BOOLEAN : dev' = [dev EXCEPT ![Last_].on = @ \/ on]
  /\ UNCHANGED <<archive, listed, tmps, slimmed, stranded, Others_>>
StampRechecks_Not ==
  /\ iop.kind = "stamp" /\ iop.step = "commit" /\ ToStep("record")
  /\ UNCHANGED <<dev, archive, listed, tmps, slimmed, stranded, Others_>>
StampRechecks ==       \* the whole batch is still shut down
  /\ iop.kind = "stamp" /\ iop.step = "commit"
  /\ \/ (\A d \in Made : ~ dev[d].on) /\ ToStep("record")
     \/ ToStep("discard")
  /\ UNCHANGED <<dev, archive, listed, tmps, slimmed, stranded, Others_>>
StampRecords ==        \* RecordBatch, before any of them is visible
  /\ iop.kind = "stamp" /\ iop.step = "record"
  /\ \/ /\ slimmed' = IF iop.img \in SlimImg THEN slimmed \cup Made ELSE slimmed
        /\ iop' = [iop EXCEPT !.step = "rename", !.n = 1]
     \/ iop.img \in SlimImg /\ ToStep("discard") /\ UNCHANGED slimmed
  /\ UNCHANGED <<dev, archive, listed, tmps, stranded, Others_>>
StampRenames ==        \* one by one; a failure hides them again and discards
  /\ iop.kind = "stamp" /\ iop.step = "rename"
  /\ \/ /\ dev' = [dev EXCEPT ![iop.made[iop.n]].name = "public"]
        /\ IF iop.n < Len(iop.made) THEN iop' = [iop EXCEPT !.n = @ + 1] /\ UNCHANGED tmps
           ELSE iop' = NoOp /\ tmps' = tmps \ {iop.img}
     \/ /\ dev' = [d \in Dev |-> IF d \in Made THEN [dev[d] EXCEPT !.name = "hidden"] ELSE dev[d]]
        /\ ToStep("discard") /\ tmps' = tmps \ {iop.img}
  /\ UNCHANGED <<archive, listed, slimmed, stranded, Others_>>

(* Delete: the index entry first.                                          *)
StartDelete(i) == i \in listed /\ StartOp("delete", i, "entry")
DeleteImage_FileFirst ==
  /\ iop.kind = "delete"
  /\ IF iop.step = "entry"
       THEN archive' = [archive EXCEPT ![iop.img].file = "none"] /\ ToStep("file") /\ UNCHANGED listed
       ELSE listed' = listed \ {iop.img} /\ iop' = NoOp /\ UNCHANGED archive
  /\ UNCHANGED <<dev, tmps, slimmed, stranded, Others_>>
DeleteImage ==
  /\ iop.kind = "delete"
  /\ IF iop.step = "entry"
       THEN \/ listed' = listed \ {iop.img} /\ ToStep("file") /\ UNCHANGED archive
            \/ iop' = NoOp /\ UNCHANGED <<archive, listed>>
       ELSE /\ archive' \in {archive, [archive EXCEPT ![iop.img].file = "none"]}
            /\ iop' = NoOp /\ UNCHANGED listed
  /\ UNCHANGED <<dev, tmps, slimmed, stranded, Others_>>

-----------------------------------------------------------------------------
(* NewImageStore: stale files go at once, hidden simulators that are shut  *)
(* down in the background; then Prune, unless the listing was empty.       *)
ImgCrash ==
  /\ imgCrashes < MaxImgCrashes /\ imgCrashes' = imgCrashes + 1
  /\ iop' = [NoOp EXCEPT !.kind = "sweep"] /\ tmps' = {}
  /\ told' = told \cup erasing /\ erasing' = {} /\ stranded' = Hidden
  /\ UNCHANGED <<dev, archive, listed, slimmed, imgOps>>
Prune_Empty(exists) == slimmed \cap exists
Prune(exists) == IF exists = {} THEN slimmed ELSE slimmed \cap exists
SweepOrphans ==
  /\ iop.kind = "sweep" /\ iop' = NoOp
  /\ \/ LET orphans == {d \in Hidden : ~ dev[d].on} IN
        /\ Deletes(orphans)
        /\ slimmed' = Prune((Hidden \cup Public) \ orphans)
     \/ slimmed' = Prune({}) /\ UNCHANGED <<dev, stranded>>
  /\ UNCHANGED <<archive, listed, tmps, Others_>>

(* The engine's Erase or Reset of a visible simulator, and its hook.       *)
EraseDev(d) ==
  /\ d \in Public \ (erasing \cup told) /\ ~ dev[d].on
  /\ dev' = [dev EXCEPT ![d].data = "stock", ![d].slim = FALSE] /\ erasing' = erasing \cup {d}
  /\ UNCHANGED <<archive, listed, tmps, slimmed, iop, told, stranded, imgOps, imgCrashes>>
ReapplySlim(d) ==
  /\ d \in erasing /\ erasing' = erasing \ {d}
  /\ IF dev[d].name = "none"
       THEN slimmed' = slimmed \ {d} /\ UNCHANGED <<dev, told>>
       ELSE /\ \/ dev' = [dev EXCEPT ![d].slim = (d \in slimmed)] /\ UNCHANGED told
               \/ told' = told \cup {d} /\ UNCHANGED dev
            /\ UNCHANGED slimmed
  /\ UNCHANGED <<archive, listed, tmps, iop, stranded, imgOps, imgCrashes>>

(* Other programs boot a hidden simulator, and replace an archive.         *)
BootOutside(d) ==
  /\ d \in Hidden /\ ~ dev[d].on /\ dev' = [dev EXCEPT ![d].on = TRUE]
  /\ UNCHANGED <<archive, listed, tmps, slimmed, iop, stranded, Others_>>
SwapOutside(i) ==
  /\ archive[i].file = "whole" /\ iop = NoOp
  /\ archive' = [archive EXCEPT ![i].file = "swapped"]
  /\ UNCHANGED <<dev, listed, tmps, slimmed, iop, stranded, Others_>>

ImgNext ==
  \/ \E i \in Img : StartBuild(i) \/ StartStamp(i) \/ StartDelete(i) \/ SwapOutside(i)
  \/ BuildCreates \/ SlimBuilder \/ BuildChecks \/ PackImage \/ BuildCommits
  \/ StampVerifies \/ StampCreates \/ StampChecks \/ StampReplaces \/ ReslimStamped
  \/ StampRechecks \/ StampRecords \/ StampRenames \/ Cleanup \/ DeleteImage
  \/ ImgCrash \/ SweepOrphans
  \/ \E d \in Dev : EraseDev(d) \/ ReapplySlim(d) \/ BootOutside(d)
ImgSpec == ImgInit /\ [][ImgNext]_imgVars

-----------------------------------------------------------------------------
(* Nobody can lease a half-provisioned simulator: one that is visible was  *)
(* given the image's data while shut down, and one of a slim image stays   *)
(* slim through every erase that does not fail (Stamp, RecordBatch,        *)
(* ReapplySlim, Prune).                                                    *)
ImgVisibleWhole ==
  \A d \in Public :
    /\ dev[d].data # "torn"
    /\ dev[d].of \in SlimImg => d \in slimmed /\ (dev[d].slim \/ d \in erasing \cup told)

(* "Never a listed image whose archive is gone", nor one that was packed   *)
(* from a running builder (Build, Delete), through crashes.                *)
ImgListedBacked == \A i \in listed : archive[i].file # "none" /\ archive[i].sum = "whole"

(* A build or stamp leaves no file of its own and no hidden simulator      *)
(* behind, except where simctl failed to delete it or the daemon died      *)
(* (Build, Stamp's cleanup, the sweep).                                    *)
ImgNothingLeft == iop = NoOp => Hidden \subseteq stranded /\ tmps = {}

ImgSafe == ImgVisibleWhole /\ ImgListedBacked /\ ImgNothingLeft
=============================================================================
