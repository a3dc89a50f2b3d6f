-------------------------- MODULE MCBrowserSession --------------------------
(* TLC instance of BrowserSession: two requests in flight, two logins and   *)
(* one more token for a rotation.                                           *)
EXTENDS BrowserSession, TLC

Symmetry == Permutations(Families) \union Permutations(Tokens) \union Permutations(Requests)

\* The store's latest answer is read by no guard and by no property.
ViewWithoutReply == <<session, minted, opener, jar, req, history>>
=============================================================================
