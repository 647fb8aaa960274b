---------------------------- MODULE MCLoaderHook ----------------------------
(* Three loads: two that wait when the hook thread answers or fails, and one *)
(* that is imported or withdrawn meanwhile.                                  *)
EXTENDS LoaderHook

CONSTANTS a, b, c
=============================================================================
