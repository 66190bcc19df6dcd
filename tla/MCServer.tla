------------------------------ MODULE MCServer ------------------------------
(* A small instance of Server for TLC: all requests compete for cpp.       *)
EXTENDS Server

MCLanguages  == {"cpp"}
MCLanguageOf == [r \in Requests |-> "cpp"]
MCLaunchers  == [l \in MCLanguages |-> 1]
=============================================================================
