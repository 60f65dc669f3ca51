------------------------------- MODULE FirstUse -------------------------------
(***************************************************************************)
(* The two statics a session builds on first use: BUNDLED, the model       *)
(* (crates/subtoken-core/src/model.rs), and CACHE, whose capacity is       *)
(* computed from the model's width (cache, lib.rs), so that whoever        *)
(* initialises CACHE may have to load the model inside its initialiser.    *)
(*                                                                         *)
(* OnceLock is external: one thread runs the initialiser while the others  *)
(* that ask for the value block; when it returns the value is fixed for    *)
(* the process; when it panics the cell stays empty and a thread that was  *)
(* blocked, or comes later, runs it again.  How the load ends is a         *)
(* property of the assets in the binary, so it ends so every time.         *)
(***************************************************************************)
EXTENDS Naturals

CONSTANTS
  AssetChoices,         \* how the load may end: some of "model", "error", "panic"
  Dim,                  \* the width of the model's vectors
  NoThread              \* no thread is running an initialiser

ASSUME AssetsAssumption == AssetChoices \subseteq {"model", "error", "panic"}
ASSUME DimAssumption == Dim \in Nat \ {0}

VARIABLES
  assets,               \* how the load of this build's assets ends
  bundled,              \* BUNDLED: "unset", "model" or "error"
  loader,               \* the thread running Model::from_embedded_bytes
  width,                \* CACHE: the width its capacity is for, 0 while it is unset
  sizer                 \* the thread running CACHE's initialiser

onceVars == <<assets, bundled, loader, width, sizer>>

OnceInit ==
  /\ assets \in AssetChoices
  /\ bundled = "unset"
  /\ loader = NoThread
  /\ width = 0
  /\ sizer = NoThread

(***************************************************************************)
(* BUNDLED.get_or_init.                                                    *)
(***************************************************************************)
StartLoad(t) ==
  /\ bundled = "unset"
  /\ loader = NoThread
  /\ loader' = t
  /\ UNCHANGED <<assets, bundled, width, sizer>>

EndLoad(t) ==
  /\ loader = t
  /\ assets # "panic"
  /\ loader' = NoThread
  /\ bundled' = assets
  /\ UNCHANGED <<assets, width, sizer>>

\* Mutant: CACHE is not given back when its initialiser panics.
PanicHoldingCache(t) ==
  /\ loader = t
  /\ assets = "panic"
  /\ loader' = NoThread
  /\ UNCHANGED <<assets, bundled, width, sizer>>

\* A panic leaves BUNDLED unset, and CACHE too when it unwinds through its
\* initialiser.
PanicInLoad(t) ==
  /\ loader = t
  /\ assets = "panic"
  /\ loader' = NoThread
  /\ sizer' = IF sizer = t THEN NoThread ELSE sizer
  /\ UNCHANGED <<assets, bundled, width>>

(***************************************************************************)
(* CACHE.get_or_init, whose initialiser asks for the model.                *)
(***************************************************************************)
StartSizing(t) ==
  /\ width = 0
  /\ sizer = NoThread
  /\ sizer' = t
  /\ UNCHANGED <<assets, bundled, loader, width>>

\* Mutant: the initialiser looks whether a model is there and does not load it.
EndSizingUnloaded(t) ==
  /\ sizer = t
  /\ loader # t
  /\ width' = IF bundled = "model" THEN Dim ELSE 1
  /\ sizer' = NoThread
  /\ UNCHANGED <<assets, bundled, loader>>

\* A model that did not load counts as one of width 1.
EndSizing(t) ==
  /\ sizer = t
  /\ bundled # "unset"
  /\ width' = IF bundled = "model" THEN Dim ELSE 1
  /\ sizer' = NoThread
  /\ UNCHANGED <<assets, bundled, loader>>

=============================================================================
