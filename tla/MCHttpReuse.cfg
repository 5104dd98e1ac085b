SPECIFICATION Spec
CONSTANTS
    r1 = r1
    Requests <- MCRequests
    MaxStarts <- MCMaxStarts
    Early = {}
INVARIANTS
    ResponseIsOfThisTransfer
