---------------------------- MODULE MCScheduler ----------------------------
(* Instances of Scheduler for TLC: small unit graphs. *)
EXTENDS Scheduler, TLC

CONSTANTS lib, dep, bin

\* A workspace in miniature.  `lib` starts when the metadata of `dep` is
\* written; `bin` waits for finished outputs.
MCUnits == {lib, dep, bin}
MCMeta  == (lib :> {dep}) @@ (dep :> {}) @@ (bin :> {})

\* A chain: `bin` links both, so it also waits for `lib`.
MCChain == (lib :> {}) @@ (dep :> {}) @@ (bin :> {dep, lib})

\* Wide: `lib` and `bin` wait for `dep` alone, and may run side by side.
MCWide  == (lib :> {}) @@ (dep :> {}) @@ (bin :> {dep})

=============================================================================
