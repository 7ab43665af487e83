---- MODULE SharedConstants ----
(***************************************************************************)
(* The constants that more than one component of a process refers to, once *)
(* for all of them, so that the library can extend the components together.*)
(***************************************************************************)
CONSTANTS
  Raw,     \* memory that holds nothing yet
  Null,    \* the null pointer, and so a handle on nothing
  Object,  \* the counted objects: of CoreFoundation, or of a Swift class
  Thread   \* the threads of the process
====
