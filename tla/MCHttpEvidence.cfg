SPECIFICATION Spec
CONSTANTS
  None = None
  ProxyHeaders = {"proxy-via"}
  Requests <- MCRequests
  Ceiling <- MCCeiling
  Asked <- MCAsked
  Policies <- MCPolicies
  Lookups <- MCLookups
  ForeignResponses <- MCForeign
  Faults <- MCFaults
  Peer <- MCPeer
  MaxInformational = 1
INVARIANT OwnEvidenceConsistent
CHECK_DEADLOCK FALSE
