---------------------------- MODULE MCDescriptors ----------------------------
EXTENDS Descriptors

Input0 == [type |-> "REDIRECT_INPUT", fd |-> 0, target |-> 1]
ToStderr == [type |-> "REDIRECT_DUP", fd |-> 1, target |-> 2]
ToNothing == [type |-> "REDIRECT_DUP", fd |-> 1, target |-> 9]

\* The numbers of the error pipe: >&4 writes into it, <&3 reads from it.
ToErrors == [type |-> "REDIRECT_DUP", fd |-> 1, target |-> 4]
FromErrors == [type |-> "REDIRECT_DUP", fd |-> 0, target |-> 3]

\* Closed in every stage, unless a failed pipeline has left it open in the shell.
FromLeftOver == [type |-> "REDIRECT_DUP", fd |-> 0, target |-> 5]

MCRedirects ==
  {<<>>, <<Input0, ToStderr>>, <<Input0, ToNothing>>, <<ToErrors>>, <<FromErrors>>,
   <<FromLeftOver>>}
=============================================================================
