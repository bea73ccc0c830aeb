SPECIFICATION Spec
CONSTANTS
    Families <- CallReturn
    MaxU64 <- MCMaxU64
    MaxCS = 4
    MaxKS = 4
PROPERTIES
    RetReturnsFromCall
