----------------------------- MODULE MCListing ------------------------------
(***************************************************************************)
(* A finite instance of Listing.                                           *)
(***************************************************************************)
EXTENDS Listing

=============================================================================
