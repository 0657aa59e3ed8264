\* Two cores, two nodes, a share each.
CONSTANTS
    SOC_CPU_CORES_NUM = 2
    Nodes = {nodeA, nodeB}
    NoNode = NoNode
    ShareCap = 1
SPECIFICATION FairSpec
INVARIANT RateWithin100
PROPERTY TotalsNeverFall
PROPERTY DisplayFollowsNode
