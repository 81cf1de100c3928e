--------------------------- MODULE MCEventService ---------------------------
(* Registrations of two handlers for TLC, with 8 event IDs: a range that    *)
(* becomes a block of 4, and one that is rounded to all events.             *)
EXTENDS EventService

MCRegistrations ==
  {[handler |-> "h1", user_arg |-> 0, event |-> 1, size |-> 2],
   [handler |-> "h2", user_arg |-> 0, event |-> 3, size |-> 3]}
=============================================================================
