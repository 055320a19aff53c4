-------------------------- MODULE MCPublishPipeline --------------------------
(* TLC instance of PublishPipeline: the tiers of publish-crates.yaml without *)
(* stub-adapter and fs-voice-repo, which no crate needs; the push of the     *)
(* release commit, the override path from elsewhere and a dry run, both on   *)
(* that commit, and a run on another commit.                                 *)
EXTENDS PublishPipeline, SequencesExt

MCTiers ==
    << <<"espeak-rs-sys", "piper-core">>,
       <<"espeak-rs", "ort-adapter">>,
       <<"espeak-rs-adapter">>,
       <<"piper-rs">> >>

MCCrates == Range(FlattenSeq(MCTiers))

\* The dependencies with a version in the Cargo.toml of each crate.
MCDeps ==
    [c \in MCCrates |->
        CASE c = "espeak-rs" -> {"espeak-rs-sys"}
          [] c = "ort-adapter" -> {"piper-core"}
          [] c = "espeak-rs-adapter" -> {"piper-core", "espeak-rs"}
          [] c = "piper-rs" -> {"piper-core", "ort-adapter", "espeak-rs-adapter"}
          [] OTHER -> {}]

MCRuns == {"push", "override", "dry run", "other"}
MCCommit == [r \in MCRuns |-> IF r = "other" THEN "B" ELSE "A"]

=============================================================================
