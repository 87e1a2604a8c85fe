-------------------------- MODULE MCResponseCache --------------------------
(***************************************************************************)
(* ResponseCache for TLC: a page under both tags whose route knows         *)
(* previews, a page under one, and a memo under both; room for one page,   *)
(* one reader, two writers.                                                *)
(***************************************************************************)
EXTENDS ResponseCache, TLC

CONSTANTS news, home, page, list, memo

MCTags == {news, home}
MCTagsOf == (page :> {news, home}) @@ (list :> {news}) @@ (memo :> {news, home})
MCWriteTags == {{news, home}, {home}}

=============================================================================
