SPECIFICATION Spec
SYMMETRY Symmetric
CONSTANTS
    r1 = r1
    r2 = r2
    r3 = r3
    c1 = c1
    c2 = c2
    Runs = {r1, r2, r3}
    Calls = {c1, c2}
    NoRun = NoRun
    MaxRuns = 1
    Deposit = 50
    Abc = 100
    PassLevel = 55
    FailLevel = 35
    Floor = 80
    Profits <- MCProfits
    MaxDays = 2

PROPERTY BreachMeansLoss
