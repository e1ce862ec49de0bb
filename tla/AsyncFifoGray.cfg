CONSTANTS Data = {0}  ASize = 3  Pow <- MCPow
SPECIFICATION Spec
PROPERTIES ImplementsFifo
